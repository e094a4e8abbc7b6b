------------------------------- MODULE PageStore -------------------------------
(***************************************************************************)
(* What the buffer pool promises its callers: pages that behave as if they *)
(* were all in memory.  A page changes only when a caller that holds it    *)
(* writes to it; behind that, pages are copied to the data file at any     *)
(* time, as they are.                                                      *)
(***************************************************************************)
CONSTANTS
  PageIds,    \* page ids
  Callers,    \* callers, each holding at most one page
  Data,       \* contents of a page
  Zero,       \* the contents of a page just allocated
  NoPage      \* held by a caller that holds none

VARIABLES
  allocated,  \* the pages that exist
  store,      \* the contents of each page
  durable,    \* the contents of each page in the data file
  held        \* the page a caller holds

storeVars == <<allocated, store, durable, held>>

Init ==
  /\ allocated = {}
  /\ store = [p \in PageIds |-> Zero]
  /\ durable = [p \in PageIds |-> Zero]
  /\ held = [c \in Callers |-> NoPage]

\* Pages are copied to the file, whatever else happens in the step.
Copy(P) == durable' = [p \in PageIds |-> IF p \in P THEN store[p] ELSE durable[p]]

Hold(c, p) ==
  /\ held[c] = NoPage
  /\ p \in allocated
  /\ held' = [held EXCEPT ![c] = p]
  /\ UNCHANGED <<allocated, store>>

Allocate(p) ==
  /\ p \notin allocated
  /\ allocated' = allocated \cup {p}
  /\ store[p] = Zero
  /\ UNCHANGED store
  /\ \/ UNCHANGED held
     \/ \E c \in Callers : held[c] = NoPage /\ held' = [held EXCEPT ![c] = p]

Write(c, x) ==
  /\ held[c] # NoPage
  /\ store' = [store EXCEPT ![held[c]] = x]
  /\ UNCHANGED <<allocated, held, durable>>

Release(c) ==
  /\ held[c] # NoPage
  /\ held' = [held EXCEPT ![c] = NoPage]
  /\ UNCHANGED <<allocated, store, durable>>

Next ==
  \/ \E c \in Callers, x \in Data : Write(c, x)
  \/ \E c \in Callers : Release(c)
  \/ \E P \in SUBSET PageIds :
       /\ Copy(P)
       /\ \/ \E c \in Callers, p \in PageIds : Hold(c, p)
          \/ \E p \in PageIds : Allocate(p)
          \/ UNCHANGED <<allocated, store, held>>

Spec == Init /\ [][Next]_storeVars
=============================================================================
