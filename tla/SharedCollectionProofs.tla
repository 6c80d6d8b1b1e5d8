----------------------- MODULE SharedCollectionProofs -----------------------
(***************************************************************************)
(* No change is lost sight of, for any devices, objects and values.  The   *)
(* invariant needs besides only that the variables are functions on the    *)
(* devices, so that a step of one leaves the values of the others alone.   *)
(***************************************************************************)
EXTENDS SharedCollection, TLAPS

Functions ==
    /\ replica = [c \in Clients |-> replica[c]]
    /\ dirty = [c \in Clients |-> dirty[c]]
    /\ stale = [c \in Clients |-> stale[c]]
    /\ held = [c \in Clients |-> held[c]]

Covered == \A c \in Clients, o \in Objects :
    replica[c][o] # shared[o] => o \in dirty[c] \/ o \in stale[c]

IInv == broken \/ (Functions /\ Covered)

LEMMA InitIInv == Init => IInv
  BY DEF Init, IInv, Functions, Covered

\* An edit makes dirty what it changes.
LEMMA EditKeeps ==
    ASSUME Functions, Covered, NEW c \in Clients, Edit(c)
    PROVE  Functions' /\ Covered'
  <1>1. PICK o \in Objects :
          /\ replica' = [replica EXCEPT ![c] = replica'[c]]
          /\ \A p \in Objects \ {o} : replica'[c][p] = replica[c][p]
          /\ dirty' = [dirty EXCEPT ![c] = @ \cup {o}]
    BY DEF Edit
  <1>2. shared' = shared /\ stale' = stale /\ held' = held BY DEF Edit
  <1>3. Functions' BY <1>1, <1>2 DEF Functions
  <1>4. ASSUME NEW d \in Clients, NEW p \in Objects, replica'[d][p] # shared'[p]
        PROVE  p \in dirty'[d] \/ p \in stale'[d]
    <2>1. CASE d # c
      <3>1. replica'[d] = replica[d] /\ dirty'[d] = dirty[d] BY <1>1, <2>1 DEF Functions
      <3> QED BY <3>1, <1>2, <1>4 DEF Covered
    <2>2. CASE d = c
      <3>1. dirty'[c] = dirty[c] \cup {o} BY <1>1 DEF Functions
      <3>2. CASE p = o BY <3>1, <3>2, <2>2
      <3>3. CASE p # o
        <4>1. replica'[c][p] = replica[c][p] BY <1>1, <3>3
        <4> QED BY <4>1, <3>1, <2>2, <1>2, <1>4 DEF Covered
      <3> QED BY <3>2, <3>3
    <2> QED BY <2>1, <2>2
  <1> QED BY <1>3, <1>4 DEF Covered

\* What a meeting changes becomes stale for every device, and what it leaves
\* alone was covered before.
LEMMA SpreadKeeps ==
    ASSUME Functions, Covered, NEW c \in Clients, Spread(c)
    PROVE  Covered'
  <1>1. replica' = replica /\ dirty' = dirty BY DEF Spread
  <1>2. ASSUME NEW d \in Clients, NEW p \in Objects, replica'[d][p] # shared'[p]
        PROVE  p \in dirty'[d] \/ p \in stale'[d]
    <2>1. CASE shared'[p] # shared[p] BY <2>1 DEF Spread
    <2>2. CASE shared'[p] = shared[p]
      <3>1. p \in dirty[d] \/ p \in stale[d] BY <1>1, <1>2, <2>2 DEF Covered
      <3>2. stale[d] \subseteq stale'[d] BY DEF Spread
      <3> QED BY <3>1, <3>2, <1>1
    <2> QED BY <2>1, <2>2
  <1> QED BY <1>2 DEF Covered

\* A device takes a meeting over whole; what was changed since is still stale.
LEMMA ReceiveKeeps ==
    ASSUME Functions, Covered, NEW c \in Clients, Receive(c)
    PROVE  Functions' /\ Covered'
  <1>1. /\ replica' = [replica EXCEPT ![c] = held[c]]
        /\ dirty' = [dirty EXCEPT ![c] = {}]
        /\ stale' = [stale EXCEPT ![c] = stale'[c]]
        /\ held' = [held EXCEPT ![c] = Nothing]
        /\ shared' = shared
    BY DEF Receive
  <1>2. Functions' BY <1>1 DEF Functions
  <1>3. ASSUME NEW d \in Clients, NEW p \in Objects, replica'[d][p] # shared'[p]
        PROVE  p \in dirty'[d] \/ p \in stale'[d]
    <2>1. CASE d = c
      <3>1. replica'[c] = held[c] BY <1>1 DEF Functions
      <3>2. held[c][p] # shared[p] BY <3>1, <2>1, <1>1, <1>3
      <3> QED BY <3>2, <2>1 DEF Receive
    <2>2. CASE d # c
      <3>1. replica'[d] = replica[d] /\ dirty'[d] = dirty[d] /\ stale'[d] = stale[d]
        BY <1>1, <2>2 DEF Functions
      <3> QED BY <3>1, <1>1, <1>3 DEF Covered
    <2> QED BY <2>1, <2>2
  <1> QED BY <1>2, <1>3 DEF Covered

LEMMA NextIInv == IInv /\ [Next]_vars => IInv'
  <1> SUFFICES ASSUME IInv, [Next]_vars PROVE IInv' OBVIOUS
  <1>1. CASE broken
    <2>1. broken'
      BY <1>1 DEF Next, vars, Edit, Meet, MeetLate, Spread, Receive, Forget, Break
    <2> QED BY <2>1 DEF IInv
  <1>2. CASE ~broken
    <2>1. Functions /\ Covered BY <1>2 DEF IInv
    <2>2. ASSUME NEW c \in Clients, Edit(c) PROVE IInv'
      BY <2>1, <2>2, EditKeeps DEF IInv
    <2>3. ASSUME NEW c \in Clients, Meet(c) PROVE IInv'
      <3>1. Spread(c) BY <2>3 DEF Meet
      <3>2. Functions' BY <2>1, <2>3 DEF Meet, Spread, Functions
      <3> QED BY <2>1, <3>1, <3>2, SpreadKeeps DEF IInv
    <2>4. ASSUME NEW c \in Clients, MeetLate(c) PROVE IInv'
      <3>1. Spread(c) BY <2>4 DEF MeetLate
      <3>2. Functions' BY <2>1, <2>4 DEF MeetLate, Spread, Functions
      <3> QED BY <2>1, <3>1, <3>2, SpreadKeeps DEF IInv
    <2>5. ASSUME NEW c \in Clients, Receive(c) PROVE IInv'
      BY <2>1, <2>5, ReceiveKeeps DEF IInv
    <2>6. ASSUME NEW c \in Clients, Forget(c) PROVE IInv'
      BY <2>1, <2>6 DEF Forget, IInv, Functions, Covered
    <2>7. CASE Break BY <2>7 DEF Break, IInv
    <2>8. CASE UNCHANGED vars BY <2>1, <2>8 DEF vars, IInv, Functions, Covered
    <2> QED BY <2>2, <2>3, <2>4, <2>5, <2>6, <2>7, <2>8 DEF Next
  <1> QED BY <1>1, <1>2

\* No change of any device is lost sight of: what differs between a device and
\* the server is still to be sent one way or the other, whatever syncs are cut
\* short and whichever answers never arrive.  CollectionSync implements
\* SharedCollection, so its devices and server keep this too.
THEOREM NothingForgottenAlways == Spec => []NothingForgotten
  <1>1. IInv => NothingForgotten
    BY DEF IInv, Covered, NothingForgotten, Differ
  <1> QED BY <1>1, InitIInv, NextIInv, PTL DEF Spec
=============================================================================
