------------------------------ MODULE KeyCustody ------------------------------
(***************************************************************************)
(* What the encrypted volumes on one Secret promise an operator, without   *)
(* the commands, calls and crashes behind it: a volume gets its first key  *)
(* from the Secret, a new key is let in next to the one it replaces, the   *)
(* old one goes only once the new one opens, a filesystem is made once and *)
(* what pods wrote stays.  The Secret moves on only when every volume is   *)
(* opened by its current key and no other.  LuksHeader implements this.    *)
(***************************************************************************)
EXTENDS Naturals

CONSTANTS Volumes, MaxKey

VARIABLES
    keys,    \* the keys that open each volume
    data,    \* what is inside: "none", a "fresh" filesystem, or a "used" one
    secret   \* the Secret's current key, and the previous one or NoKey

custody == <<keys, data, secret>>

NoKey == 0

Init ==
    /\ keys = [v \in Volumes |-> {}]
    /\ data = [v \in Volumes |-> "none"]
    /\ secret = [cur |-> 1, prev |-> NoKey]

FirstKey(v) ==
    /\ keys[v] = {}
    /\ keys' = [keys EXCEPT ![v] = {secret.cur}]
    /\ UNCHANGED <<data, secret>>

NewKey(v) ==
    /\ keys[v] = {secret.prev}
    /\ keys' = [keys EXCEPT ![v] = {secret.prev, secret.cur}]
    /\ UNCHANGED <<data, secret>>

OldKeyGoes(v) ==
    /\ keys[v] = {secret.prev, secret.cur}
    /\ keys' = [keys EXCEPT ![v] = {secret.cur}]
    /\ UNCHANGED <<data, secret>>

\* Only behind a key, and only where there is no data.
Fill(v) ==
    /\ keys[v] # {}
    /\ \/ data[v] = "none"  /\ data' = [data EXCEPT ![v] = "fresh"]
       \/ data[v] = "fresh" /\ data' = [data EXCEPT ![v] = "used"]
    /\ UNCHANGED <<keys, secret>>

\* The operator moves on.
AllCurrent == \A v \in Volumes : keys[v] = {secret.cur}
Rotate ==
    /\ AllCurrent /\ secret.cur < MaxKey
    /\ secret' = [cur |-> secret.cur + 1, prev |-> secret.cur]
    /\ UNCHANGED <<keys, data>>
Retire ==
    /\ AllCurrent /\ secret.prev # NoKey
    /\ secret' = [secret EXCEPT !.prev = NoKey]
    /\ UNCHANGED <<keys, data>>

Next ==
    \/ \E v \in Volumes : FirstKey(v) \/ NewKey(v) \/ OldKeyGoes(v) \/ Fill(v)
    \/ Rotate \/ Retire

Spec == Init /\ [][Next]_custody
=============================================================================
