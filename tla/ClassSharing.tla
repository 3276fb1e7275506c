---------------------------- MODULE ClassSharing ----------------------------
(***************************************************************************)
(* What FB/Java promises about the classes stored in a database            *)
(* (src/README.md:126-135): they are loaded when the database is first     *)
(* used, every attachment to the database shares that one copy, and they   *)
(* are unloaded after the last attachment has gone, so that the next user  *)
(* gets a new copy.                                                        *)
(***************************************************************************)
CONSTANTS Databases, Attachments, Loaders, None

VARIABLES
  users,   \* the attachments that may run the classes of a database
  classes  \* the copy of its classes, None while they are not loaded

vars == <<users, classes>>

Init ==
  /\ users = [d \in Databases |-> {}]
  /\ classes = [d \in Databases |-> None]

\* A fresh copy: no database has it.
Load(d, l) ==
  /\ classes[d] = None
  /\ \A other \in Databases : classes[other] # l
  /\ classes' = [classes EXCEPT ![d] = l]
  /\ UNCHANGED users

Connect(d, a) ==
  /\ classes[d] # None
  /\ \A other \in Databases : a \notin users[other]
  /\ users' = [users EXCEPT ![d] = @ \cup {a}]
  /\ UNCHANGED classes

Disconnect(d, a) ==
  /\ a \in users[d]
  /\ users' = [users EXCEPT ![d] = @ \ {a}]
  /\ UNCHANGED classes

Unload(d) ==
  /\ users[d] = {}
  /\ classes[d] # None
  /\ classes' = [classes EXCEPT ![d] = None]
  /\ UNCHANGED users

Next ==
  \E d \in Databases :
    \/ \E l \in Loaders : Load(d, l)
    \/ \E a \in Attachments : Connect(d, a) \/ Disconnect(d, a)
    \/ Unload(d)

Safety == Init /\ [][Next]_vars

Spec == Safety /\ \A d \in Databases : WF_vars(Unload(d))
=============================================================================
