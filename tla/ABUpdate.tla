------------------------------ MODULE ABUpdate ------------------------------
(***************************************************************************)
(* What a device with two installation sets is promised, whatever the      *)
(* agent does inside: there is always one set that the last verdict names, *)
(* no install writes to it, another set is only selected for booting after *)
(* that has been put on record, and the record is only given up once the   *)
(* selected set is the one the verdict names.                              *)
(***************************************************************************)
EXTENDS RuntimeSettings

CONSTANT Contents           \* what a set can hold

VARIABLES active,           \* the set booted next
          good,             \* the set of the last verdict
          content,          \* what each set holds
          pending           \* a set without a verdict is on record

vars == <<active, good, content, pending>>

Init == /\ active \in InstallationSet
        /\ good \in InstallationSet
        /\ content \in [InstallationSet -> Contents]
        /\ pending \in BOOLEAN
        /\ active # good => pending

\* An install writes to the set without a verdict.
Write == /\ \E s \in InstallationSet \ {good}, c \in Contents :
              content' = [content EXCEPT ![s] = c]
         /\ UNCHANGED <<active, good, pending>>

Announce == /\ pending' = TRUE
            /\ UNCHANGED <<active, good, content>>

\* Select the other set for the next boot.
Select == /\ pending
          /\ active' = Inactive(active)
          /\ UNCHANGED <<good, content, pending>>

\* The firmware gives up on a set without a verdict.
FallBack == /\ active # good
            /\ active' = good
            /\ UNCHANGED <<good, content, pending>>

Accept == /\ pending
          /\ good' = active
          /\ UNCHANGED <<active, content, pending>>

Reject == /\ pending
          /\ active' = Inactive(active)
          /\ good' = active'
          /\ UNCHANGED <<content, pending>>

Forget == /\ active = good
          /\ pending' = FALSE
          /\ UNCHANGED <<active, good, content>>

Next == \/ Write \/ Announce \/ Select \/ FallBack
        \/ Accept \/ Reject \/ Forget

Spec == Init /\ [][Next]_vars
=============================================================================
