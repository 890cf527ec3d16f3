------------------------------- MODULE MCShell -------------------------------
(***************************************************************************)
(* Spellings and boot logs for model checking the shell.  Commands are     *)
(* spelled with one or two keys.                                           *)
(***************************************************************************)
EXTENDS Shell, TLC

TwoKeys == {"a", "b"}
ThreeKeys == {"a", "b", "c"}
FiveKeys == ThreeKeys \cup {"d", "e"}

(* Every kind of command: two that move the cursor in their own way, a utility that
   may be refused, and secaudit with two filters. *)
CommandSpelling ==
    ("clear" :> <<"a">>) @@ ("help" :> <<"b">>) @@ ("secperm" :> <<"c">>)
    @@ ("secaudit --denied" :> <<"d">>) @@ ("secaudit --allowed" :> <<"e">>)

(* secaudit with each filter. *)
AuditSpelling ==
    ("secaudit" :> <<"a">>) @@ ("secaudit --denied" :> <<"a", "a">>)
    @@ ("secaudit --allowed" :> <<"a", "b">>)

(* A utility that may be refused, secaudit, and secaudit with a filter that the events it
   records do not pass. *)
UtilitySpelling ==
    ("secaudit" :> <<"a">>) @@ ("secperm" :> <<"b">>) @@ ("secaudit --allowed" :> <<"c">>)

PlainSpelling == "secaudit" :> <<"a">>

NothingBooted == << >>

(* The six decisions of a boot: security_core_test, the boot user program and
   security_resource_access_test. *)
Booted == <<SECURITY_DENIED, SECURITY_ALLOWED, SECURITY_DENIED,
            SECURITY_ALLOWED, SECURITY_DENIED, SECURITY_ALLOWED>>
=============================================================================
