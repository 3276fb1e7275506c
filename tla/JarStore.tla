------------------------------- MODULE JarStore -------------------------------
(***************************************************************************)
(* What the JARs in a database promise to whoever reads them: a JAR is     *)
(* there whole or not at all, no two JARs have an entry of the same name,  *)
(* and whatever the deployer or the SQLJ package do appears at once.       *)
(***************************************************************************)
CONSTANTS
  Names,     \* the names JARs are installed under
  Users,
  Files,     \* the JAR files
  Contents,  \* the names of the entries of each
  None

VARIABLE store  \* the JAR with each name: whose it is and the file it came from

Jars == [owner : Users, file : Files]

Init == store = [n \in Names |-> None]

\* The entries of different JARs have different names.
Disjoint(s) ==
  \A m, n \in Names :
    m # n /\ s[m] # None /\ s[n] # None => Contents[s[m].file] \cap Contents[s[n].file] = {}

\* A user commits the removal of some JARs and the installation of others.
Deploy(u) ==
  /\ store' \in [Names -> Jars \cup {None}]
  /\ \A n \in Names : store'[n] \in {store[n], None} \cup [owner : {u}, file : Files]
  /\ Disjoint(store')

Next == \E u \in Users : Deploy(u)

Spec == Init /\ [][Next]_store
=============================================================================
