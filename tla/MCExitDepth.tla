------------------------------ MODULE MCExitDepth ------------------------------
(* A token with a keeper and one with two GSMs, over the same pools: an NG pool *)
(* against a stablecoin, a metapool against an LP token, one against a linked   *)
(* token with a third coin, and one against a volatile node.                    *)
EXTENDS ExitDepth, TLC

KeeperPools == [crv |-> {1}, gho |-> {}]

\* Assets: 1 and 2 are stablecoins, 3 the LP token of both, 4 an analyzed token.
PairedAssets == (1 :> 1) @@ (2 :> 3) @@ (3 :> 4) @@ (4 :> 5)
Kinds == (1 :> "ng") @@ (2 :> "metapool") @@ (3 :> "plain") @@ (4 :> "plain")
BasePools == (2 :> ((1 :> 2) @@ (2 :> 3)))
Rows == (1 :> "recurses") @@ (2 :> "recurses") @@ (3 :> "composite_passthrough")
        @@ (4 :> "recurses")

Per(a, b, c, d) == (50 :> a) @@ (100 :> b) @@ (200 :> c) @@ (500 :> d)
B(units, slip) == [kind |-> "bound", depth |-> units, slip |-> slip]
C(units, slip) == [kind |-> "cap", depth |-> units, slip |-> slip]
Z(slip) == [kind |-> "zero", depth |-> 0, slip |-> slip]
R == [kind |-> "raised", depth |-> 0, slip |-> 0]

\* What a pool gives as it is, and what it would give taken for a plain one.
Seen(own, plain) == [solved |-> [plain |-> plain, ng |-> own, metapool |-> own], reverts |-> FALSE]
Deaf(pool) == [pool EXCEPT !.reverts = TRUE]

\* An NG pool's fee without its multiplier, within the tolerance or past it.
Ng == Per(B(2, 50), B(4, 100), B(6, 200), B(8, 500))
NgNear == Seen(Ng, Per(B(3, 53), B(5, 104), B(7, 203), B(9, 504)))
NgFar == Seen(Ng, Per(B(3, 60), B(5, 130), B(7, 230), B(9, 540)))
NgFalls == Seen([Ng EXCEPT ![500] = C(5, 190)], Per(B(3, 53), B(5, 104), B(7, 203), B(9, 504)))
NgSunk(slip) == LET own == Per(Z(slip), Z(slip), Z(slip), B(8, 500)) IN Seen(own, own)

\* A metapool's base LP well above par, or a little; the pool sinks to the bound.
Meta == Per(B(3, 50), B(5, 100), B(7, 200), B(8, 500))
MetaFar == Seen(Meta, Per(Z(2), Z(2), Z(2), Z(2)))
MetaNear == Seen(Meta, Per(B(1, 10), B(4, 60), B(6, 160), B(7, 460)))
MetaSunk == Seen(Per(Z(198), Z(198), B(1, 200), B(8, 500)), Per(Z(198), Z(198), Z(198), Z(198)))
MetaDrained == Seen(Per(B(3, 50), B(5, 100), C(6, 150), C(6, 150)), Per(Z(2), Z(2), Z(2), Z(2)))
MetaRaises == Seen([Meta EXCEPT ![500] = R], Per(Z(2), Z(2), Z(2), Z(2)))

Plain == LET own == Per(B(4, 50), B(6, 100), B(8, 200), B(9, 500)) IN Seen(own, own)

\* One pool at a time is out of the ordinary.
MarketsOf ==
    {<<ng, MetaFar, Plain, Plain>> : ng \in {NgNear, NgFalls, NgSunk(203), NgSunk(300), Deaf(NgNear)}}
    \cup {<<NgFar, meta, Plain, Plain>> : meta \in {MetaNear, MetaSunk, MetaDrained, MetaRaises}}

NoVenue == [g \in {} |-> None]
TwoGsms == [open |-> [asset |-> 2, balance |-> 30, fee |-> 100, closed |-> FALSE],
            shut |-> [asset |-> 1, balance |-> 90, fee |-> 20, closed |-> TRUE]]
VenuesOf == [crv |-> NoVenue, gho |-> TwoGsms]

Start ==
    /\ token \in Tokens /\ tvl \in [Pools -> Sizes]
    /\ listed = Pools /\ indexed = Pools
    /\ fs = None /\ pinned = {} /\ chained = FALSE /\ prior = None /\ last = None

\* A behaviour is watched, or the folds of what it promotes are looked at.
VARIABLE mode

\* For each token the folds have the world move from three sets of pools; over the
\* others it stands still.
Moving == [crv |-> {<<6, 100, 4, 6>>, <<100, 100, 100, 6>>, <<6, 6, 4, 100>>},
           gho |-> {<<100, 100, 6, 4>>, <<6, 6, 4, 6>>, <<100, 6, 100, 4>>}]

\* The watch sees two moves from every set of pools, the folds one.
MCInit ==
    /\ Start
    /\ \/ mode = "watch" /\ moves = 0
       \/ /\ mode = "fold"
          /\ moves = (IF tvl \in Moving[token] THEN MaxMoves - 1 ELSE MaxMoves)

MCNext ==
    /\ mode' = mode
    /\ \/ Next /\ UNCHANGED last
       \/ mode = "fold" /\ (last # None => fs.target # None) /\ Fold
       \/ mode = "fold" /\ Fill

MCSpec == MCInit /\ [][MCNext]_<<allvars, mode>>

\* Only a rehearsal that names a target is read again, by Fill: what follows any
\* other fold also follows the state before it.  One of every probe, in a market where
\* all pools meet the bound, stands for the rehearsals of its bundle with its target.
ReadAgain ==
    last # None =>
        /\ last.outcome = "rehearsal" /\ last.want # None
        /\ last.want # last.due \/ (last.reads = {} /\ last.sunk = {} /\ last.drained = {})
===============================================================================
