-------------------------- MODULE SharedCollection --------------------------
(***************************************************************************)
(* What normal syncs promise: many devices edit copies of one collection   *)
(* and meet it one at a time.  A copy may differ from the shared           *)
(* collection only in objects that the device has still to send (dirty) or *)
(* has still to be sent (stale); a meeting keeps every object that only    *)
(* one side has changed; and a device takes over a meeting whole or not at *)
(* all.  Objects are rows, and the value of one is the change a user made  *)
(* last, also where a sync has computed the row anew from it; the          *)
(* configuration, of which the newer side wins whole, and one-way syncs    *)
(* are not promised anything here.                                         *)
(***************************************************************************)
CONSTANTS Clients, Objects, Nothing

VARIABLES
    shared,   \* the collection of the server
    replica,  \* replica[c]: the copy of device c
    dirty,    \* dirty[c]: the objects c has changed since it last met
    stale,    \* stale[c]: the objects c will be sent when it next meets
    held,     \* held[c]: what a meeting gave c, before c has taken it over
    broken    \* a meeting began on a collection that had changed already

vars == <<shared, replica, dirty, stale, held, broken>>

Differ(c) == {o \in Objects : replica[c][o] # shared[o]}

Init ==
    /\ replica = [c \in Clients |-> shared]
    /\ dirty = [c \in Clients |-> {}]
    /\ stale = [c \in Clients |-> {}]
    /\ held = [c \in Clients |-> Nothing]
    /\ broken = FALSE

Edit(c) ==
    /\ held[c] = Nothing
    /\ \E o \in Objects :
         /\ replica' = [replica EXCEPT ![c] = replica'[c]]
         /\ \A p \in Objects \ {o} : replica'[c][p] = replica[c][p]
         /\ dirty' = [dirty EXCEPT ![c] = @ \cup {o}]
    /\ UNCHANGED <<shared, stale, held, broken>>

\* The objects the meeting changed are sent to every device later, to c too
\* unless it takes the meeting over.
Spread(c) ==
    /\ \A o \in Objects \ dirty[c] : shared'[o] = shared[o]
    /\ stale' = [d \in Clients |-> stale'[d]]
    /\ \A d \in Clients : stale[d] \subseteq stale'[d]
    /\ \A d \in Clients, o \in Objects : shared'[o] # shared[o] => o \in stale'[d]
    /\ UNCHANGED <<replica, dirty, broken>>

\* What only one side has changed is kept; what both have is either's, or new.
Meet(c) ==
    /\ Spread(c)
    /\ \A o \in Objects \ stale[c] : shared'[o] = replica[c][o]
    /\ held' = [held EXCEPT ![c] = shared']

\* The device has given up, and may have gone on editing.
MeetLate(c) == Spread(c) /\ UNCHANGED held

Receive(c) ==
    /\ held[c] # Nothing
    /\ replica' = [replica EXCEPT ![c] = held[c]]
    /\ held' = [held EXCEPT ![c] = Nothing]
    /\ dirty' = [dirty EXCEPT ![c] = {}]
    /\ stale' = [stale EXCEPT ![c] = stale'[c]]
    /\ {o \in Objects : held[c][o] # shared[o]} \subseteq stale'[c]
    /\ UNCHANGED <<shared, broken>>

Forget(c) ==
    /\ held' = [held EXCEPT ![c] = Nothing]
    /\ UNCHANGED <<shared, replica, dirty, stale, broken>>

\* After this nothing is promised.
Break == broken'

Next ==
    \/ \E c \in Clients : Edit(c) \/ Meet(c) \/ MeetLate(c) \/ Receive(c) \/ Forget(c)
    \/ Break

Spec == Init /\ [][Next]_vars

-----------------------------------------------------------------------------
\* No change of any device is ever lost sight of: what differs from the
\* shared collection is still to be sent one way or the other.
NothingForgotten ==
    broken \/ \A c \in Clients : Differ(c) \subseteq dirty[c] \cup stale[c]
=============================================================================
