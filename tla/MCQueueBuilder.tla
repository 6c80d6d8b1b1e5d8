--------------------------- MODULE MCQueueBuilder ---------------------------
(***************************************************************************)
(* Deck dp with da below it, db below da and the filtered deck df below    *)
(* dp; two notes of two cards each; and the options the runs try.          *)
(***************************************************************************)
EXTENDS QueueBuilder

CONSTANTS dp, da, db, df, a1, a2, b1, f2, n1, n2

\* Decks, notes and cards
MCPath == (dp :> {dp}) @@ (da :> {da, dp}) @@ (db :> {db, da, dp}) @@ (df :> {df, dp})
MCNoteOf == (a1 :> n1) @@ (b1 :> n1) @@ (a2 :> n2) @@ (f2 :> n2)
MCHomeOf == (a1 :> da) @@ (a2 :> da) @@ (b1 :> db) @@ (f2 :> dp)
MCFirstIn == (a1 :> da) @@ (a2 :> da) @@ (b1 :> db) @@ (f2 :> df)

Queues(ka1, kb1, ka2, kf2) == (a1 :> ka1) @@ (b1 :> kb1) @@ (a2 :> ka2) @@ (f2 :> kf2)
MCStarts == {Queues("Review", "New", "New", "Review"), Queues("DayLearn", "Review", "New", "New")}

\* Options: limits of dp, da and db, and what each deck's preset buries
L(review, new) == [review |-> review, new |-> new]
Limits(lp, la, lb) == (dp :> lp) @@ (da :> la) @@ (db :> lb) @@ (df :> L(0, 0))
Buries(mp, ma, mb) == (dp :> mp) @@ (da :> ma) @@ (db :> mb) @@ (df :> {})
BuriesAlike(modes) == Buries(modes, modes, modes)

Options(limit, bury, ignore, parents, order, dayLearnMix, newMix, sortNew) ==
    [limit |-> limit, bury |-> bury, ignore |-> ignore, parents |-> parents,
     order |-> order, dayLearnMix |-> dayLearnMix, newMix |-> newMix, sortNew |-> sortNew]

\* Nothing is buried; limits of the subtree, new cards counting as reviews
Plain == Options(Limits(L(2, 2), L(1, 1), L(2, 2)), BuriesAlike({}),
                 FALSE, FALSE, "byKind", "mixed", "mixed", FALSE)
\* Nothing is buried; the parents' limits count, new cards have a limit of their own
Retr == Options(Limits(L(2, 1), L(1, 2), L(0, 1)), BuriesAlike({}),
                TRUE, TRUE, "byRetrievability", "mixed", "after", FALSE)
\* Every sibling is buried
Bury == Options(Limits(L(3, 1), L(2, 2), L(1, 1)), BuriesAlike(Kinds),
                FALSE, TRUE, "byKind", "before", "before", TRUE)
\* Due cards come from scores
Score == Options(Limits(L(1, 1), L(1, 1), L(1, 1)), BuriesAlike({"New"}),
                 FALSE, FALSE, "byScore", "after", "mixed", FALSE)
\* Each deck has a preset of its own
Presets == Options(Limits(L(2, 1), L(2, 1), L(1, 1)), Buries({}, Kinds, {"New"}),
                   FALSE, TRUE, "byRetrievability", "before", "after", FALSE)

LimitConfs == {Plain, Retr, Bury, Score, Presets}
LimitChanges == {<<Bury, Plain>>}
MCExtensions == {L(1, 1)}

\* Reviews are buried, and new cards shown before them
SiblingConfs ==
    {Options(Limits(L(9, 9), L(9, 9), L(9, 9)), BuriesAlike({"Review"}),
             FALSE, FALSE, "byKind", "after", "before", FALSE)}
SiblingChanges == {}
=============================================================================
