------------------------------ MODULE UserSet ------------------------------
(***************************************************************************)
(* What the client of xray promises to those who call AddUser, RemoveUser  *)
(* and injectUsers (xray/grpc.go, xray/xray_sync.go), without clients,     *)
(* connections and retries: a call changes the membership of its users in  *)
(* each inbound once, in any order and between the changes of other calls;  *)
(* it returns success only when it has made them all, and an error at any  *)
(* time.  xray may lose every member, but it never keeps one it was not     *)
(* given and it never drops one alone.                                      *)
(***************************************************************************)
CONSTANTS Callers, Users, Inbounds   \* Inbounds: the set of them

VARIABLES
  member,   \* member[i]: the users in inbound i
  op,       \* op[p]: "none", "add" or "remove"
  left,     \* left[p]: the pairs of a user and an inbound the call of p has yet to change
  ret       \* ret[p]: what the last call returned

vars == <<member, op, left, ret>>

Init ==
  /\ member = [i \in Inbounds |-> {}]
  /\ op = [p \in Callers |-> "none"]
  /\ left = [p \in Callers |-> {}]
  /\ ret = [p \in Callers |-> "none"]

Begin(p) ==
  /\ op[p] = "none"
  /\ \E o \in {"add", "remove"} : op' = [op EXCEPT ![p] = o]
  /\ \E S \in SUBSET Users : left' = [left EXCEPT ![p] = S \X Inbounds]
  /\ ret' = [ret EXCEPT ![p] = "none"]
  /\ UNCHANGED member

Change(p, x) ==
  /\ x \in left[p]
  /\ member' = [member EXCEPT ![x[2]] = IF op[p] = "add" THEN member[x[2]] \cup {x[1]}
                                                        ELSE member[x[2]] \ {x[1]}]
  /\ left' = [left EXCEPT ![p] = left[p] \ {x}]
  /\ UNCHANGED <<op, ret>>

Return(p, r) ==
  /\ op[p] # "none"
  /\ r = "ok" => left[p] = {}
  /\ op' = [op EXCEPT ![p] = "none"]
  /\ left' = [left EXCEPT ![p] = {}]
  /\ ret' = [ret EXCEPT ![p] = r]
  /\ UNCHANGED member

Lose == member' = [i \in Inbounds |-> {}] /\ UNCHANGED <<op, left, ret>>

Next ==
  \/ \E p \in Callers : \/ Begin(p)
                        \/ \E x \in left[p] : Change(p, x)
                        \/ \E r \in {"ok", "err"} : Return(p, r)
  \/ Lose

Spec == Init /\ [][Next]_vars
=============================================================================
