----------------------------- MODULE MCAdminApp ----------------------------
(***************************************************************************)
(* A small instance of AdminApp: a resort, a filter, a history of two      *)
(* versions on pages of one.                                               *)
(***************************************************************************)
EXTENDS AdminApp

CONSTANTS s, f

(* The sidebar's links, and links with a page past the end or junk.        *)
MCLinks == {At(None, None), At("resorts", None), At("publishes", None),
            At("publishes", 2), At("publishes", Junk), At("editor", s),
            At("editor", Junk), At("gallery", None)}

MCDuration == [info |-> 1, success |-> 1, error |-> 2]
=============================================================================
