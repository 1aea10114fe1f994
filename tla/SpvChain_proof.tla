---------------------------- MODULE SpvChain_proof ----------------------------
(***************************************************************************)
(* The safety properties of SpvChain, for every block tree, any number of  *)
(* wallets, peers and handlers.                                            *)
(***************************************************************************)
EXTENDS SpvChain, SequenceTheorems, FiniteSetTheorems, TLAPS

SessStates == {"off", "headers", "connect", "relocate", "up"} \cup CatchUpStates
SomeBlock == Blocks \cup {NoBlock}

SessRec == [pc : SessStates, todo : SUBSET Wallets, cur : Wallets \cup {NoWallet},
            err : BOOLEAN, low : Wallets \cup {NoWallet}, loc : SomeBlock,
            base : SomeBlock, last : SomeBlock]
AnnRec == [pc : {"idle", "wallet", "switch"}, peer : Peers \cup {NoPeer},
           base : SomeBlock, last : SomeBlock, todo : SUBSET Wallets,
           w : Wallets \cup {NoWallet}, best : SomeBlock, scan : BOOLEAN]

DbType ==
    /\ tip \in [Wallets -> Blocks]
    /\ marker \in [Wallets -> Blocks]
    /\ scanned \in [Wallets -> [Blocks -> {"no", "empty", "loaded"}]]
    /\ rolledBack \in [Wallets -> BOOLEAN]
    /\ sidechains \in [Wallets -> SUBSET Blocks]
FlagType ==
    /\ filter \in [Wallets -> {"empty", "loaded"}]
    /\ loadedFilters \in [Wallets -> BOOLEAN]
    /\ synced \in [Wallets -> BOOLEAN]
    /\ catchUp \in Peers \cup {NoPeer}
    /\ sidechainMu \in Handlers \cup {NoPeer}
PeerType ==
    /\ currentLocators \in SomeBlock
    /\ peerTip \in [Peers -> Blocks]
    /\ sendHeadersSent \in [Peers -> BOOLEAN]
    /\ sess \in [Peers -> SessRec]
    /\ ann \in [Handlers -> AnnRec]

ChainType == DbType /\ FlagType /\ PeerType

AllScanned(w, b) == \A c \in Prefixes(b) : scanned[w][c] # "no"

\* What the fields of a startupSync hold in each of its states.
SessShape(s) ==
    /\ s.pc \in {"headers", "connect", "relocate"} => s.low \in Wallets /\ s.loc \in Blocks
    /\ s.pc \in {"connect", "scan"} => s.base \in Blocks /\ s.last \in Blocks
    /\ s.pc \in {"load", "fill", "rescan", "scan"} => s.cur \in Wallets
    /\ s.pc \in {"catchup", "load", "fill"} => s.last = NoBlock
    /\ s.pc = "catchup" => s.base = NoBlock
    /\ s.pc = "rescan" => s.base \in Blocks

\* The wallet in hand is unsynced while its filter is reloaded, either for the
\* first time or because it has blocks to rescan, and a rescan has the filter.
TargetFilter(s) ==
    /\ s.pc \in {"load", "fill"} =>
         /\ ~synced[s.cur]
         /\ IF s.base = NoBlock THEN ~loadedFilters[s.cur]
                                ELSE marker[s.cur] # tip[s.cur]
    /\ s.pc \in {"rescan", "scan"} => loadedFilters[s.cur] /\ filter[s.cur] = "loaded"

\* A rescan starts no higher than after the marker, also when the chain was
\* switched since its rescan point was read.
RescanBegins(s) ==
    s.pc \in {"load", "fill", "rescan"} /\ s.base # NoBlock /\ s.last = NoBlock =>
        /\ Len(s.base) >= 1
        /\ Len(s.base) - 1 <= Len(tip[s.cur])
        /\ rolledBack[s.cur] \/ Len(s.base) - 1 <= Len(marker[s.cur])

\* What is below the present batch has been scanned.
RescanGoesOn(s) ==
    /\ s.pc = "rescan" /\ s.last # NoBlock =>
         rolledBack[s.cur] \/ AllScanned(s.cur, s.last)
    /\ s.pc = "scan" => /\ InChain(s.base, s.last)
                        /\ rolledBack[s.cur] \/ AllScanned(s.cur, s.base)

SessionOk(s) ==
    SessShape(s) /\ TargetFilter(s) /\ RescanBegins(s) /\ RescanGoesOn(s)

\* A handler that waits to switch holds a better chain, and, when it has
\* matched its blocks, there is nothing left to rescan below them.
HandlerOk(a) ==
    /\ a.pc # "idle" => a.peer \in Peers /\ a.base \in Blocks /\ a.last \in Blocks
    /\ a.pc = "switch" => /\ a.w \in Wallets /\ a.best \in Blocks
                          /\ Len(a.best) > Len(tip[a.w])
    /\ a.pc = "switch" /\ a.scan => marker[a.w] = tip[a.w]

\* A filter that was emptied by a reload that failed is loaded again before the
\* wallet is synced: there is still something to rescan.
EmptiedIsReloaded ==
    \A w \in Wallets : loadedFilters[w] /\ filter[w] = "empty" => marker[w] # tip[w]

MarkerInChain == \A w \in Wallets : InChain(marker[w], tip[w])
MuHolder == \A h \in Handlers : ann[h].pc = "switch" <=> sidechainMu = h

ChainInv ==
    /\ ChainType
    /\ CatchUpExclusive
    /\ SyncedHasFilters
    /\ EmptiedIsReloaded
    /\ ProcessedWereScanned
    /\ MarkerInChain
    /\ MuHolder
    /\ \A p \in Peers : SessionOk(sess[p])
    /\ \A h \in Handlers : HandlerOk(ann[h])

----------------------------------------------------------------------------
(* Blocks are paths: prefixes, forks and segments. *)

LEMMA BlockIsSeq ==
    ASSUME NEW b \in Blocks
    PROVE  b \in Seq(Range(b)) /\ Len(b) \in Nat
<1>1. b \in Seq(Range(b))
  BY BlocksAssumption
<1>2. QED
  BY <1>1, LenProperties

\* The ancestor of a block at a height.
Upto(b, n) == SubSeq(b, 1, n)

LEMMA Ancestor ==
    ASSUME NEW b \in Blocks, NEW n \in 0 .. Len(b)
    PROVE  /\ Upto(b, n) \in Blocks
           /\ Len(Upto(b, n)) = n
           /\ \A i \in 1 .. n : Upto(b, n)[i] = b[i]
<1>1. b \in Seq(Range(b)) /\ Len(b) \in Nat
  BY BlockIsSeq
<1>2. SubSeq(b, 1, n) \in Prefixes(b)
  BY DEF Prefixes
<1>3. SubSeq(b, 1, n) \in Blocks
  BY <1>2, BlocksAssumption
<1>4. n \in Nat /\ 1 .. n \subseteq 1 .. Len(b)
  BY <1>1
<1>5. \A i \in 1 .. n : b[i] \in Range(b)
  BY <1>1, <1>4, ElementOfSeq
<1>6. /\ Len(SubSeq(b, 1, n)) = IF 1 <= n THEN n - 1 + 1 ELSE 0
      /\ \A i \in 1 .. n - 1 + 1 : SubSeq(b, 1, n)[i] = b[1 + i - 1]
  BY <1>4, <1>5, SubSeqProperties
<1>7. QED
  BY <1>3, <1>4, <1>6 DEF Upto

LEMMA SameBlock ==
    ASSUME NEW a \in Blocks, NEW b \in Blocks, Len(a) = Len(b),
           \A i \in 1 .. Len(a) : a[i] = b[i]
    PROVE  a = b
<1>1. /\ DOMAIN a = 1 .. Len(a) /\ DOMAIN b = 1 .. Len(b)
      /\ a = [i \in DOMAIN a |-> a[i]] /\ b = [i \in DOMAIN b |-> b[i]]
  BY BlockIsSeq, LenProperties
<1>2. QED
  BY <1>1

LEMMA InChainIs ==
    ASSUME NEW a \in Blocks, NEW b \in Blocks
    PROVE  InChain(a, b) <=> /\ Len(a) <= Len(b)
                             /\ \A i \in 1 .. Len(a) : a[i] = b[i]
<1>1. Len(a) \in Nat /\ Len(b) \in Nat
  BY BlockIsSeq
<1>2. Upto(a, Len(a)) = a
  <2>1. Len(a) \in 0 .. Len(a)
    BY <1>1
  <2>2. /\ Upto(a, Len(a)) \in Blocks /\ Len(Upto(a, Len(a))) = Len(a)
        /\ \A i \in 1 .. Len(a) : Upto(a, Len(a))[i] = a[i]
    BY <2>1, Ancestor
  <2>3. QED
    BY <2>2, SameBlock
<1>3. CASE Len(a) <= Len(b)
  <2>1. Len(a) \in 0 .. Len(b)
    BY <1>1, <1>3
  <2>2. /\ Upto(b, Len(a)) \in Blocks /\ Len(Upto(b, Len(a))) = Len(a)
        /\ \A i \in 1 .. Len(a) : Upto(b, Len(a))[i] = b[i]
    BY <2>1, Ancestor
  <2>3. ASSUME \A i \in 1 .. Len(a) : a[i] = b[i]
        PROVE  a = Upto(b, Len(a))
    BY <2>2, <2>3, SameBlock
  <2>4. InChain(a, b) <=> a = Upto(b, Len(a))
    BY <1>2, <1>3 DEF InChain, IsPrefix, Upto
  <2>5. QED
    BY <1>3, <2>2, <2>3, <2>4
<1>4. QED
  BY <1>1, <1>3 DEF InChain, IsPrefix

LEMMA PrefixesAre ==
    ASSUME NEW b \in Blocks, NEW c
    PROVE  c \in Prefixes(b) <=> c \in Blocks /\ InChain(c, b)
<1>1. Len(b) \in Nat
  BY BlockIsSeq
<1>2. ASSUME c \in Prefixes(b)
      PROVE  c \in Blocks /\ InChain(c, b)
  <2>1. PICK n \in 0 .. Len(b) : c = Upto(b, n)
    BY <1>2 DEF Prefixes, Upto
  <2>2. c \in Blocks /\ Len(c) = n /\ \A i \in 1 .. n : c[i] = b[i]
    BY <2>1, Ancestor
  <2>3. QED
    BY <1>1, <2>2, InChainIs
<1>3. ASSUME c \in Blocks, InChain(c, b)
      PROVE  c \in Prefixes(b)
  <2>1. Len(c) \in 0 .. Len(b) /\ \A i \in 1 .. Len(c) : c[i] = b[i]
    BY <1>1, <1>3, BlockIsSeq, InChainIs
  <2>2. /\ Upto(b, Len(c)) \in Blocks /\ Len(Upto(b, Len(c))) = Len(c)
        /\ \A i \in 1 .. Len(c) : Upto(b, Len(c))[i] = b[i]
    BY <2>1, Ancestor
  <2>3. c = Upto(b, Len(c))
    BY <1>3, <2>1, <2>2, SameBlock
  <2>4. QED
    BY <2>1, <2>3 DEF Prefixes, Upto
<1>4. QED
  BY <1>2, <1>3

LEMMA InChainReflexive ==
    ASSUME NEW b \in Blocks
    PROVE  InChain(b, b)
BY BlockIsSeq, InChainIs

LEMMA InChainTransitive ==
    ASSUME NEW a \in Blocks, NEW b \in Blocks, NEW c \in Blocks,
           InChain(a, b), InChain(b, c)
    PROVE  InChain(a, c)
<1>1. Len(a) \in Nat /\ Len(b) \in Nat /\ Len(c) \in Nat
  BY BlockIsSeq
<1>2. QED
  BY <1>1, InChainIs

LEMMA InChainTotal ==
    ASSUME NEW a \in Blocks, NEW b \in Blocks, NEW c \in Blocks,
           InChain(a, c), InChain(b, c), Len(a) <= Len(b)
    PROVE  InChain(a, b)
<1>1. Len(a) \in Nat /\ Len(b) \in Nat /\ Len(c) \in Nat
  BY BlockIsSeq
<1>2. QED
  BY <1>1, InChainIs

LEMMA AncestorInChain ==
    ASSUME NEW b \in Blocks, NEW n \in 0 .. Len(b)
    PROVE  Upto(b, n) \in Blocks /\ Len(Upto(b, n)) = n /\ InChain(Upto(b, n), b)
<1>1. Len(b) \in Nat
  BY BlockIsSeq
<1>2. /\ Upto(b, n) \in Blocks /\ Len(Upto(b, n)) = n
      /\ \A i \in 1 .. n : Upto(b, n)[i] = b[i]
  BY Ancestor
<1>3. QED
  BY <1>1, <1>2, InChainIs

\* The ancestors of last are those of base and the blocks of the segment.
LEMMA SegmentCovers ==
    ASSUME NEW base \in Blocks, NEW last \in Blocks, InChain(base, last),
           NEW c \in Prefixes(last)
    PROVE  c \in Prefixes(base) \/ c \in Segment(base, last)
<1>1. c \in Blocks /\ InChain(c, last)
  BY PrefixesAre
<1>2. Len(c) \in Nat /\ Len(base) \in Nat
  BY <1>1, BlockIsSeq
<1>3. CASE Len(c) <= Len(base)
  BY <1>1, <1>3, InChainTotal, PrefixesAre
<1>4. CASE Len(c) > Len(base)
  BY <1>4 DEF Segment
<1>5. QED
  BY <1>2, <1>3, <1>4

NatLess == OpToRel(<, Nat)

LEMMA NatLessIs ==
    ASSUME NEW x \in Nat, NEW y \in Nat
    PROVE  <<x, y>> \in NatLess <=> x < y
BY DEF NatLess, OpToRel

LEMMA Least ==
    ASSUME NEW T, T \subseteq Nat, T # {}
    PROVE  \E d \in T : \A e \in T : e >= d
<1>1. IsWellFoundedOn(NatLess, Nat)
  BY NatLessThanWellFounded DEF NatLess
<1>2. \E d \in T : \A e \in T : ~(<<e, d>> \in NatLess)
  BY <1>1, WFMin, Zenon
<1>3. PICK d \in T : \A e \in T : ~(<<e, d>> \in NatLess)
  BY <1>2
<1>4. \A e \in T : ~(e < d)
  BY <1>3, NatLessIs
<1>5. QED
  BY <1>4

\* A bounded set of numbers has a greatest element.
LEMMA Greatest ==
    ASSUME NEW n \in Nat, NEW S \in SUBSET (0 .. n), S # {}
    PROVE  \E x \in S : \A y \in S : x >= y
<1> DEFINE D == {n - x : x \in S}
<1>1. D \subseteq Nat
  <2>1. \A x \in S : x \in Nat /\ x <= n
    OBVIOUS
  <2>2. QED
    BY <2>1
<1>2. D # {}
  OBVIOUS
<1>3. \E d \in D : \A e \in D : e >= d
  BY <1>1, <1>2, Least, Zenon
<1>4. PICK d \in D : \A e \in D : e >= d
  BY <1>3
<1>5. PICK x \in S : d = n - x
  OBVIOUS
<1>6. \A y \in S : n - y >= n - x
  BY <1>4, <1>5
<1>7. \A y \in S : x >= y
  BY <1>6
<1>8. QED
  BY <1>7

LEMMA ForkPointIs ==
    ASSUME NEW b \in Blocks, NEW t \in Blocks
    PROVE  /\ ForkPoint(b, t) \in Blocks
           /\ InChain(ForkPoint(b, t), b) /\ InChain(ForkPoint(b, t), t)
<1> DEFINE S == {n \in 0 .. Len(b) : InChain(Upto(b, n), t)}
<1>1. Len(b) \in Nat /\ Len(t) \in Nat
  BY BlockIsSeq
<1>2. 0 \in S
  <2>1. Upto(b, 0) \in Blocks /\ Len(Upto(b, 0)) = 0
    BY <1>1, Ancestor
  <2>2. InChain(Upto(b, 0), t)
    BY <1>1, <2>1, InChainIs
  <2>3. QED
    BY <1>1, <2>2
<1>3. \E x \in S : \A y \in S : x >= y
  <2>1. S \in SUBSET (0 .. Len(b)) /\ S # {}
    BY <1>2
  <2> HIDE DEF S
  <2>2. QED
    BY <1>1, <2>1, Greatest
<1>4. Max(S) \in S
  <2> HIDE DEF S
  <2>1. QED
    BY <1>3 DEF Max
<1>5. ForkPoint(b, t) = Upto(b, Max(S))
  BY DEF ForkPoint, Upto
<1>6. QED
  BY <1>1, <1>4, <1>5, AncestorInChain

\* A finite tree has a greatest height.
LEMMA Heights ==
    \E n \in Nat : \A b \in Blocks : Len(b) <= n
<1> DEFINE n == Cardinality(Blocks)
<1>1. IsFiniteSet(Blocks) /\ n \in Nat
  BY BlocksAssumption, FS_CardinalityType
<1>2. ASSUME NEW b \in Blocks
      PROVE  Len(b) <= n
  <2> DEFINE f == [i \in 0 .. Len(b) |-> Upto(b, i)]
  <2>1. Len(b) \in Nat
    BY BlockIsSeq
  <2>2. \A i \in 0 .. Len(b) : Upto(b, i) \in Blocks /\ Len(Upto(b, i)) = i
    BY Ancestor
  <2>3. f \in Injection(0 .. Len(b), Blocks)
    BY <2>2 DEF Injection, IsInjective
  <2>4. Cardinality(0 .. Len(b)) <= n
    BY <1>1, <2>3, FS_Injection
  <2>5. Cardinality(0 .. Len(b)) = Len(b) + 1
    BY <2>1, FS_Interval
  <2>6. QED
    BY <1>1, <2>1, <2>4, <2>5
<1>3. QED
  BY <1>1, <1>2

LEMMA Longest ==
    ASSUME NEW S \in SUBSET Blocks, S # {}
    PROVE  \E b \in S : \A c \in S : Len(c) <= Len(b)
<1> DEFINE L == {Len(b) : b \in S}
<1>1. PICK n \in Nat : \A b \in Blocks : Len(b) <= n
  BY Heights
<1>2. \A b \in S : Len(b) \in 0 .. n
  BY <1>1, BlockIsSeq
<1>3. L \in SUBSET (0 .. n) /\ L # {}
  BY <1>2
<1>4. \E x \in L : \A y \in L : x >= y
  <2> HIDE DEF L
  <2>1. QED
    BY <1>3, Greatest
<1>5. PICK b \in S : \A y \in L : Len(b) >= y
  BY <1>4
<1>6. \A c \in S : Len(b) >= Len(c)
  BY <1>5
<1>7. QED
  BY <1>2, <1>6

\* EvaluateBestChain stays with the tip or returns a longer chain.
LEMMA BestChainIs ==
    ASSUME NEW w \in Wallets, NEW forest \in SUBSET Blocks, tip[w] \in Blocks
    PROVE  \/ EvaluateBestChain(w, forest) = tip[w]
           \/ /\ EvaluateBestChain(w, forest) \in Blocks
              /\ Len(EvaluateBestChain(w, forest)) > Len(tip[w])
<1> DEFINE better == {b \in forest : /\ Len(b) > Len(tip[w])
                                     /\ Segment(ForkPoint(b, tip[w]), b) \subseteq forest}
           P(b) == \A c \in better : Len(c) <= Len(b)
<1>1. CASE better = {}
  BY <1>1 DEF EvaluateBestChain
<1>2. CASE better # {}
  <2>1. better \in SUBSET Blocks /\ \A b \in better : Len(b) > Len(tip[w])
    OBVIOUS
  <2>2. \E b \in better : P(b)
    <3> HIDE DEF better
    <3>1. QED
      BY <1>2, <2>1, Longest
  <2>3. EvaluateBestChain(w, forest) = CHOOSE b \in better : P(b)
    BY <1>2 DEF EvaluateBestChain
  <2>4. (CHOOSE b \in better : P(b)) \in better
    <3> HIDE DEF better, P
    <3>1. QED
      BY <2>2
  <2>5. QED
    BY <2>1, <2>3, <2>4
<1>3. QED
  BY <1>1, <1>2

----------------------------------------------------------------------------
(* The initial states. *)

LEMMA OfflineIs ==
    /\ Offline \in SessRec /\ Offline.pc = "off"
    /\ SessionOk(Offline)
BY DEF Offline, SessRec, SessStates, CatchUpStates, SomeBlock, SessionOk, SessShape,
       TargetFilter, RescanBegins, RescanGoesOn

LEMMA IdleIs ==
    /\ IdleAnn \in AnnRec /\ IdleAnn.pc = "idle"
    /\ HandlerOk(IdleAnn)
BY DEF IdleAnn, AnnRec, SomeBlock, HandlerOk

LEMMA InitInv ==
    ASSUME Init
    PROVE  ChainInv
<1>1. tip \in [Wallets -> Blocks]
  BY InitTipsAssumption DEF Init
<1>2. DbType
  BY <1>1 DEF Init, DbType
<1>3. FlagType
  BY DEF Init, FlagType
<1>4. currentLocators \in SomeBlock
  BY <1>1 DEF Init, SomeBlock, LowestWallets
<1>5. PeerType
  BY <1>4, OfflineIs, IdleIs, InitTipsAssumption DEF Init, PeerType
<1>6. CatchUpExclusive
  BY OfflineIs, NamesAssumption DEF Init, CatchUpExclusive, CatchUpStates
<1>7. SyncedHasFilters /\ EmptiedIsReloaded
  BY DEF Init, SyncedHasFilters, EmptiedIsReloaded
<1>8. MarkerInChain
  BY DEF Init, MarkerInChain
<1>9. ProcessedWereScanned
  <2>1. ASSUME NEW w \in Wallets, NEW b \in Prefixes(marker[w])
        PROVE  scanned[w][b] # "no"
    <3>1. marker[w] \in Blocks
      BY <1>2 DEF DbType
    <3>2. b \in Blocks /\ InChain(b, marker[w])
      BY <3>1, PrefixesAre
    <3>3. QED
      BY <3>2 DEF Init
  <2>2. QED
    BY <2>1 DEF ProcessedWereScanned
<1>10. MuHolder
  BY IdleIs, NamesAssumption DEF Init, MuHolder
<1>11. \A p \in Peers : SessionOk(sess[p])
  BY OfflineIs DEF Init
<1>12. \A h \in Handlers : HandlerOk(ann[h])
  BY IdleIs DEF Init
<1>13. QED
  BY <1>2, <1>3, <1>5, <1>6, <1>7, <1>8, <1>9, <1>10, <1>11, <1>12
     DEF ChainInv, ChainType

----------------------------------------------------------------------------
(* Steps that leave the databases and the filters alone. *)

QuietDb == UNCHANGED <<walletVars, flagVars>>

\* What is left to show of such a step.
QuietStep ==
    /\ QuietDb
    /\ sidechains' \in [Wallets -> SUBSET Blocks]
    /\ catchUp' \in Peers \cup {NoPeer}
    /\ sidechainMu' \in Handlers \cup {NoPeer}
    /\ PeerType'
    /\ \A p \in Peers : sess'[p].pc \in CatchUpStates <=> catchUp' = p
    /\ \A h \in Handlers : ann'[h].pc = "switch" <=> sidechainMu' = h
    /\ \A p \in Peers : sess'[p] = sess[p] \/ SessionOk(sess'[p])
    /\ \A h \in Handlers : ann'[h] = ann[h] \/ HandlerOk(ann'[h])

LEMMA QuietStepInv ==
    ASSUME ChainInv, QuietStep
    PROVE  ChainInv'
<1>1. QuietDb
  BY DEF QuietStep
<1>2. DbType' /\ FlagType' /\ PeerType'
  BY DEF ChainInv, ChainType, QuietStep, QuietDb, walletVars, flagVars, DbType, FlagType
<1>3. CatchUpExclusive' /\ MuHolder'
  BY DEF QuietStep, CatchUpExclusive, MuHolder
<1>4. SyncedHasFilters' /\ EmptiedIsReloaded' /\ ProcessedWereScanned' /\ MarkerInChain'
  BY DEF ChainInv, QuietStep, QuietDb, walletVars, flagVars, SyncedHasFilters,
         EmptiedIsReloaded, ProcessedWereScanned, MarkerInChain
<1>5. ASSUME NEW p \in Peers
      PROVE  SessionOk(sess[p])'
  <2>1. SessionOk(sess'[p])
    BY DEF QuietStep, ChainInv
  <2>2. QED
    BY <2>1, <1>1 DEF QuietDb, walletVars, flagVars, SessionOk, SessShape,
       TargetFilter, RescanBegins, RescanGoesOn, AllScanned
<1>6. ASSUME NEW h \in Handlers
      PROVE  HandlerOk(ann[h])'
  <2>1. HandlerOk(ann'[h])
    BY DEF QuietStep, ChainInv
  <2>2. QED
    BY <2>1, <1>1 DEF QuietDb, walletVars, flagVars, HandlerOk
<1>7. QED
  BY <1>2, <1>3, <1>4, <1>5, <1>6 DEF ChainInv, ChainType

\* A quiet step of a startupSync: handlers, forests and sidechainMu stay.
SessionMoves(p, s) ==
    /\ QuietDb /\ UNCHANGED <<sidechains, sidechainMu, peerTip, ann>>
    /\ currentLocators' \in SomeBlock
    /\ sendHeadersSent' \in [Peers -> BOOLEAN]
    /\ sess' = [sess EXCEPT ![p] = s]
    /\ s \in SessRec /\ SessionOk(s)

LEMMA SessionMovesInv ==
    ASSUME ChainInv, NEW p \in Peers, NEW s, SessionMoves(p, s),
           catchUp' \in Peers \cup {NoPeer},
           s.pc \in CatchUpStates <=> catchUp' = p,
           \A q \in Peers \ {p} : catchUp' = q <=> catchUp = q
    PROVE  ChainInv'
<1>1. sess \in [Peers -> SessRec]
  BY DEF ChainInv, ChainType, PeerType
<1>2. sess'[p] = s /\ \A q \in Peers \ {p} : sess'[q] = sess[q]
  BY <1>1 DEF SessionMoves
<1>3. PeerType'
  BY <1>1 DEF SessionMoves, ChainInv, ChainType, PeerType
<1>4. \A q \in Peers : sess'[q].pc \in CatchUpStates <=> catchUp' = q
  BY <1>2 DEF ChainInv, CatchUpExclusive
<1>5. \A q \in Peers : sess'[q] = sess[q] \/ SessionOk(sess'[q])
  BY <1>2 DEF SessionMoves
<1>6. /\ sidechains' \in [Wallets -> SUBSET Blocks]
      /\ sidechainMu' \in Handlers \cup {NoPeer}
      /\ \A h \in Handlers : ann'[h].pc = "switch" <=> sidechainMu' = h
      /\ \A h \in Handlers : ann'[h] = ann[h]
  BY DEF SessionMoves, ChainInv, ChainType, DbType, FlagType, MuHolder
<1>7. QuietStep
  BY <1>3, <1>4, <1>5, <1>6 DEF QuietStep, SessionMoves
<1>8. QED
  BY <1>7, QuietStepInv

\* Of a session record only the fields some state uses matter.
LEMMA LowSession ==
    ASSUME NEW s \in SessRec, s.pc \in {"off", "up"}
    PROVE  SessionOk(s) /\ s.pc \notin CatchUpStates
BY DEF SessionOk, SessShape, TargetFilter, RescanBegins, RescanGoesOn, CatchUpStates

LEMMA CatchUpSession ==
    ASSUME NEW s \in SessRec, s.pc = "catchup", s.base = NoBlock, s.last = NoBlock
    PROVE  SessionOk(s) /\ s.pc \in CatchUpStates
BY DEF SessionOk, SessShape, TargetFilter, RescanBegins, RescanGoesOn, CatchUpStates

LEMMA NextWalletIs ==
    ASSUME NEW todo \in SUBSET Wallets, NEW err \in BOOLEAN, NEW s,
           s = [Offline EXCEPT !.pc = "catchup", !.todo = todo, !.err = err]
    PROVE  s \in SessRec /\ SessionOk(s) /\ s.pc \in CatchUpStates
<1>1. s \in SessRec /\ s.pc = "catchup" /\ s.base = NoBlock /\ s.last = NoBlock
  BY DEF Offline, SessRec, SessStates, CatchUpStates, SomeBlock
<1>2. QED
  BY <1>1, CatchUpSession

LEMMA StartupSyncInv ==
    ASSUME ChainInv, NEW p \in Peers, StartupSync(p)
    PROVE  ChainInv'
<1>1. PICK w \in LowestWallets :
        /\ currentLocators' = IF currentLocators # NoBlock THEN currentLocators ELSE tip[w]
        /\ sess' = [sess EXCEPT ![p].pc = "headers", ![p].low = w,
                                ![p].loc = currentLocators']
  BY DEF StartupSync
<1>2. w \in Wallets /\ currentLocators' \in Blocks
  BY <1>1 DEF LowestWallets, ChainInv, ChainType, PeerType, DbType, SomeBlock
<1> DEFINE s == [sess[p] EXCEPT !.pc = "headers", !.low = w, !.loc = currentLocators']
<1>3. sess[p] \in SessRec /\ sess' = [sess EXCEPT ![p] = s]
  BY <1>1 DEF ChainInv, ChainType, PeerType
<1>4. s \in SessRec /\ s.pc = "headers" /\ s.low = w /\ s.loc = currentLocators'
  BY <1>2, <1>3 DEF SessRec, SessStates, SomeBlock
<1>5. SessionOk(s) /\ s.pc \notin CatchUpStates
  BY <1>2, <1>4 DEF SessionOk, SessShape, TargetFilter, RescanBegins, RescanGoesOn,
                    CatchUpStates
<1>6. SessionMoves(p, s)
  BY <1>2, <1>3, <1>4, <1>5 DEF StartupSync, SessionMoves, QuietDb, SomeBlock,
     ChainInv, ChainType, PeerType
<1>7. catchUp # p /\ catchUp' = catchUp
  BY DEF StartupSync, At, ChainInv, CatchUpExclusive, CatchUpStates
<1>8. QED
  BY <1>5, <1>6, <1>7, SessionMovesInv DEF ChainInv, ChainType, FlagType

LEMMA FetchHeadersInv ==
    ASSUME ChainInv, NEW p \in Peers, FetchHeaders(p)
    PROVE  ChainInv'
<1> DEFINE fork == ForkPoint(sess[p].loc, peerTip[p])
           s == [sess[p] EXCEPT !.pc = "connect", !.todo = Wallets,
                                !.base = fork, !.last = peerTip[p]]
<1>1. sess[p] \in SessRec /\ SessionOk(sess[p]) /\ peerTip[p] \in Blocks
  BY DEF ChainInv, ChainType, PeerType
<1>2. sess[p].pc = "headers" /\ sess[p].low \in Wallets /\ sess[p].loc \in Blocks
  BY <1>1 DEF FetchHeaders, At, SessionOk, SessShape
<1>3. fork \in Blocks
  BY <1>1, <1>2, ForkPointIs
<1>4. s \in SessRec /\ s.pc = "connect" /\ s.low = sess[p].low /\ s.loc = sess[p].loc
      /\ s.base = fork /\ s.last = peerTip[p]
  <2> HIDE DEF fork
  <2>1. QED
    BY <1>1, <1>3 DEF SessRec, SessStates, SomeBlock
<1>5. SessionOk(s) /\ s.pc \notin CatchUpStates
  <2> HIDE DEF fork, s
  <2>1. QED
    BY <1>1, <1>2, <1>3, <1>4 DEF SessionOk, SessShape, TargetFilter, RescanBegins,
       RescanGoesOn, CatchUpStates
<1>6. sess' = [sess EXCEPT ![p] = s]
  <2> HIDE DEF fork
  <2>1. sess' = [sess EXCEPT ![p].pc = "connect", ![p].todo = Wallets,
                             ![p].base = fork, ![p].last = peerTip[p]]
    BY DEF FetchHeaders, fork
  <2>2. QED
    BY <2>1 DEF ChainInv, ChainType, PeerType
<1>7. SessionMoves(p, s)
  <2> HIDE DEF fork, s
  <2>1. QED
    BY <1>4, <1>5, <1>6 DEF FetchHeaders, SessionMoves, QuietDb,
       ChainInv, ChainType, PeerType
<1>8. catchUp # p /\ catchUp' = catchUp
  BY <1>2 DEF FetchHeaders, ChainInv, CatchUpExclusive, CatchUpStates
<1>9. QED
  <2> HIDE DEF s
  <2>1. QED
    BY <1>5, <1>7, <1>8, SessionMovesInv DEF ChainInv, ChainType, FlagType

LEMMA SendHeadersInv ==
    ASSUME ChainInv, NEW p \in Peers, SendHeaders(p)
    PROVE  ChainInv'
<1>1. /\ sendHeadersSent' \in [Peers -> BOOLEAN]
      /\ currentLocators' \in SomeBlock
      /\ sess[p].pc = "headers"
  BY DEF SendHeaders, At, ChainInv, ChainType, PeerType
<1>2. catchUp # p /\ catchUp \in Peers \cup {NoPeer}
  BY <1>1 DEF ChainInv, ChainType, FlagType, CatchUpExclusive, CatchUpStates
<1>3. CASE catchUp = NoPeer
  <2> DEFINE s == [Offline EXCEPT !.pc = "catchup", !.todo = Wallets]
  <2>1. s \in SessRec /\ s.pc = "catchup" /\ s.base = NoBlock /\ s.last = NoBlock
    BY DEF Offline, SessRec, SessStates, CatchUpStates, SomeBlock
  <2>2. SessionOk(s) /\ s.pc \in CatchUpStates
    BY <2>1, CatchUpSession
  <2>3. catchUp' = p /\ sess' = [sess EXCEPT ![p] = s]
    BY <1>3 DEF SendHeaders, CatchUpTryLock
  <2> HIDE DEF s
  <2>4. SessionMoves(p, s)
    BY <1>1, <2>1, <2>2, <2>3 DEF SendHeaders, SessionMoves, QuietDb
  <2>5. \A q \in Peers \ {p} : catchUp' = q <=> catchUp = q
    BY <1>3, <2>3, NamesAssumption
  <2>6. QED
    BY <2>2, <2>3, <2>4, <2>5, SessionMovesInv
<1>4. CASE catchUp # NoPeer
  <2> DEFINE s == [Offline EXCEPT !.pc = "up"]
  <2>1. s \in SessRec /\ s.pc = "up"
    BY DEF Offline, SessRec, SessStates, SomeBlock
  <2>2. catchUp' = catchUp /\ sess' = [sess EXCEPT ![p] = s]
    BY <1>4 DEF SendHeaders, CatchUpTryLock
  <2> HIDE DEF s
  <2>3. SessionOk(s) /\ s.pc \notin CatchUpStates
    BY <2>1, LowSession
  <2>4. SessionMoves(p, s)
    BY <1>1, <2>1, <2>2, <2>3 DEF SendHeaders, SessionMoves, QuietDb
  <2>5. QED
    BY <1>2, <2>2, <2>3, <2>4, SessionMovesInv
<1>5. QED
  BY <1>3, <1>4

LEMMA GenerateLocatorsInv ==
    ASSUME ChainInv, NEW p \in Peers, GenerateLocators(p)
    PROVE  ChainInv'
<1> DEFINE s == [sess[p] EXCEPT !.pc = "headers", !.loc = tip[sess[p].low],
                                !.base = NoBlock, !.last = NoBlock]
<1>1. sess[p] \in SessRec /\ SessionOk(sess[p]) /\ sess[p].pc = "relocate"
  BY DEF ChainInv, ChainType, PeerType, GenerateLocators, At
<1>2. sess[p].low \in Wallets /\ tip[sess[p].low] \in Blocks
  BY <1>1 DEF SessionOk, SessShape, ChainInv, ChainType, DbType
<1>3. s \in SessRec /\ s.pc = "headers" /\ s.low = sess[p].low
      /\ s.loc = tip[sess[p].low]
  BY <1>1, <1>2 DEF SessRec, SessStates, SomeBlock
<1>4. sess' = [sess EXCEPT ![p] = s]
  BY DEF GenerateLocators, ChainInv, ChainType, PeerType
<1> HIDE DEF s
<1>5. SessionOk(s) /\ s.pc \notin CatchUpStates
  BY <1>2, <1>3 DEF SessionOk, SessShape, TargetFilter, RescanBegins, RescanGoesOn,
     CatchUpStates
<1>6. SessionMoves(p, s)
  BY <1>2, <1>3, <1>4, <1>5 DEF GenerateLocators, SessionMoves, QuietDb, SomeBlock,
     ChainInv, ChainType, PeerType
<1>7. catchUp # p /\ catchUp' = catchUp
  BY <1>1 DEF GenerateLocators, ChainInv, CatchUpExclusive, CatchUpStates
<1>8. QED
  BY <1>5, <1>6, <1>7, SessionMovesInv DEF ChainInv, ChainType, FlagType

LEMMA SessionEnds ==
    ASSUME ChainInv, NEW p \in Peers, StartupFails(p) \/ LostPeer(p)
    PROVE  ChainInv'
<1>1. /\ sess[p].pc \in {"headers", "connect", "relocate", "up"}
      /\ sess' = [sess EXCEPT ![p] = Offline]
      /\ sendHeadersSent' = [sendHeadersSent EXCEPT ![p] = FALSE]
      /\ QuietDb /\ UNCHANGED <<sidechains, sidechainMu, peerTip, ann>>
      /\ UNCHANGED <<catchUp, currentLocators>>
  BY DEF StartupFails, LostPeer, At, QuietDb
<1>2. SessionMoves(p, Offline)
  BY <1>1, OfflineIs DEF SessionMoves, ChainInv, ChainType, PeerType
<1>3. catchUp # p /\ Offline.pc \notin CatchUpStates
  BY <1>1, OfflineIs DEF ChainInv, CatchUpExclusive, CatchUpStates
<1>4. QED
  BY <1>1, <1>2, <1>3, SessionMovesInv DEF ChainInv, ChainType, FlagType

LEMMA RescanReadInv ==
    ASSUME ChainInv, NEW p \in Peers, RescanRead(p)
    PROVE  ChainInv'
<1> DEFINE w == sess[p].cur
           from == IF sess[p].last = NoBlock
                   THEN SubSeq(tip[w], 1, Len(sess[p].base) - 1) ELSE sess[p].last
           s == [sess[p] EXCEPT !.pc = "scan", !.base = from, !.last = tip[w]]
<1>1. /\ sess[p] \in SessRec /\ SessionOk(sess[p]) /\ sess[p].pc = "rescan"
      /\ InChain(from, tip[w])
  BY DEF ChainInv, ChainType, PeerType, RescanRead, At
<1>2. w \in Wallets /\ sess[p].base \in Blocks /\ tip[w] \in Blocks /\ marker[w] \in Blocks
      /\ sess[p].last \in SomeBlock
  BY <1>1 DEF SessionOk, SessShape, SessRec, ChainInv, ChainType, DbType
<1>3. from \in Blocks /\ (rolledBack[w] \/ AllScanned(w, from))
  <2>1. CASE sess[p].last = NoBlock
    <3> DEFINE n == Len(sess[p].base) - 1
    <3>1. /\ Len(sess[p].base) \in Nat /\ Len(tip[w]) \in Nat /\ Len(marker[w]) \in Nat
      BY <1>2, BlockIsSeq
    <3>2. /\ Len(sess[p].base) >= 1 /\ n <= Len(tip[w])
          /\ rolledBack[w] \/ n <= Len(marker[w])
      BY <1>1, <1>2, <2>1, BlocksAssumption DEF SessionOk, RescanBegins
    <3>3. n \in 0 .. Len(tip[w])
      BY <3>1, <3>2
    <3>4. from = Upto(tip[w], n)
      BY <2>1 DEF Upto
    <3>5. from \in Blocks /\ Len(from) = n
      <4> HIDE DEF from, n
      <4>1. QED
        BY <1>2, <3>3, <3>4, AncestorInChain
    <3>6. ASSUME ~rolledBack[w]
          PROVE  AllScanned(w, from)
      <4>1. InChain(from, marker[w])
        <5>1. InChain(marker[w], tip[w])
          BY <1>2 DEF ChainInv, MarkerInChain
        <5> HIDE DEF from, w
        <5>2. QED
          BY <1>1, <1>2, <3>2, <3>5, <3>6, <5>1, InChainTotal
      <4>2. ASSUME NEW c \in Prefixes(from)
            PROVE  scanned[w][c] # "no"
        <5>1. c \in Prefixes(marker[w])
          <6> HIDE DEF from, w
          <6>1. QED
            BY <1>2, <3>5, <4>1, <4>2, PrefixesAre, InChainTransitive
        <5>2. QED
          BY <1>2, <3>6, <5>1 DEF ChainInv, ProcessedWereScanned
      <4>3. QED
        BY <4>2 DEF AllScanned
    <3>7. QED
      BY <3>5, <3>6
  <2>2. CASE sess[p].last # NoBlock
    BY <1>1, <1>2, <2>2 DEF SomeBlock, SessionOk, RescanGoesOn
  <2>3. QED
    BY <2>1, <2>2
<1>4. s \in SessRec /\ s.pc = "scan" /\ s.cur = w /\ s.base = from /\ s.last = tip[w]
  <2> HIDE DEF from
  <2>1. QED
    BY <1>1, <1>2, <1>3 DEF SessRec, SessStates, CatchUpStates, SomeBlock
<1>5. sess' = [sess EXCEPT ![p] = s]
  <2> HIDE DEF from
  <2>1. sess' = [sess EXCEPT ![p].pc = "scan", ![p].base = from, ![p].last = tip[w]]
    BY DEF RescanRead, from
  <2>2. QED
    BY <2>1 DEF ChainInv, ChainType, PeerType
<1>6. SessionOk(s)
  <2>1. TargetFilter(s)
    <3> HIDE DEF from, s
    <3>1. QED
      BY <1>1, <1>4 DEF SessionOk, TargetFilter
  <2> HIDE DEF from, s, w
  <2>2. QED
    BY <1>1, <1>2, <1>3, <1>4, <2>1 DEF SessionOk, SessShape, RescanBegins, RescanGoesOn
<1>7. SessionMoves(p, s) /\ s.pc \in CatchUpStates
  <2> HIDE DEF from, s, w
  <2>1. QED
    BY <1>4, <1>5, <1>6 DEF RescanRead, SessionMoves, QuietDb, CatchUpStates,
       ChainInv, ChainType, PeerType
<1>8. catchUp = p /\ catchUp' = catchUp
  BY <1>1 DEF RescanRead, ChainInv, CatchUpExclusive, CatchUpStates
<1>9. QED
  <2> HIDE DEF s
  <2>1. QED
    BY <1>7, <1>8, SessionMovesInv DEF ChainInv, ChainType, FlagType

LEMMA WalletGivenUp ==
    ASSUME ChainInv, NEW p \in Peers, RescanReorged(p) \/ CatchUpFails(p)
    PROVE  ChainInv'
<1>1. sess[p] \in SessRec /\ sess[p].pc \in CatchUpStates
  BY DEF ChainInv, ChainType, PeerType, RescanReorged, CatchUpFails, CatchUpStates
<1>2. /\ QuietDb /\ UNCHANGED <<sidechains, sidechainMu, peerTip, ann>>
      /\ UNCHANGED <<catchUp, currentLocators, sendHeadersSent>>
      /\ \E todo \in SUBSET Wallets :
            sess' = [sess EXCEPT ![p] = [Offline EXCEPT !.pc = "catchup", !.todo = todo,
                                                        !.err = TRUE]]
  <2>1. sess[p].todo \in SUBSET Wallets /\ \A w : sess[p].todo \ {w} \in SUBSET Wallets
    BY <1>1 DEF SessRec
  <2>2. CASE RescanReorged(p)
    BY <2>1, <2>2 DEF RescanReorged, NextWallet, QuietDb
  <2>3. CASE CatchUpFails(p)
    BY <2>1, <2>3 DEF CatchUpFails, QuietDb
  <2>4. QED
    BY <2>2, <2>3
<1>3. PICK todo \in SUBSET Wallets :
        sess' = [sess EXCEPT ![p] = [Offline EXCEPT !.pc = "catchup", !.todo = todo,
                                                    !.err = TRUE]]
  BY <1>2
<1> DEFINE s == [Offline EXCEPT !.pc = "catchup", !.todo = todo, !.err = TRUE]
<1>4. s \in SessRec /\ SessionOk(s) /\ s.pc \in CatchUpStates
  BY NextWalletIs
<1> HIDE DEF s
<1>5. SessionMoves(p, s)
  BY <1>2, <1>3, <1>4 DEF SessionMoves, s, ChainInv, ChainType, PeerType
<1>6. catchUp = p
  BY <1>1 DEF ChainInv, CatchUpExclusive, CatchUpStates
<1>7. QED
  BY <1>2, <1>4, <1>5, <1>6, SessionMovesInv DEF ChainInv, ChainType, FlagType

LEMMA CatchUpDoneInv ==
    ASSUME ChainInv, NEW p \in Peers, CatchUpDone(p)
    PROVE  ChainInv'
<1> DEFINE s == IF sess[p].err THEN Offline ELSE [Offline EXCEPT !.pc = "up"]
<1>1. s \in SessRec /\ s.pc \in {"off", "up"}
  BY DEF Offline, SessRec, SessStates, SomeBlock
<1>2. sess' = [sess EXCEPT ![p] = s] /\ catchUp' = NoPeer /\ sess[p].pc = "catchup"
  BY DEF CatchUpDone, CatchUpUnlock, At
<1>3. sess[p].err \in BOOLEAN
  BY DEF ChainInv, ChainType, PeerType, SessRec
<1>4. sendHeadersSent' \in [Peers -> BOOLEAN]
  BY <1>3 DEF CatchUpDone, ChainInv, ChainType, PeerType
<1> HIDE DEF s
<1>5. SessionOk(s) /\ s.pc \notin CatchUpStates
  BY <1>1, LowSession
<1>6. SessionMoves(p, s)
  BY <1>1, <1>2, <1>4, <1>5 DEF CatchUpDone, SessionMoves, QuietDb, ChainInv, ChainType,
     PeerType
<1>7. catchUp = p
  BY <1>2 DEF ChainInv, CatchUpExclusive, CatchUpStates
<1>8. QED
  BY <1>2, <1>5, <1>6, <1>7, NamesAssumption, SessionMovesInv

----------------------------------------------------------------------------
(* The handlers of announced blocks, up to the switch. *)

\* The connection of p is closed, or goes on.
MaybeDisconnected(p) ==
    \/ UNCHANGED <<sess, sendHeadersSent>>
    \/ sess' = Disconnected(p) /\ sendHeadersSent' = Unannounced(p)

LEMMA DisconnectedIs ==
    ASSUME ChainInv, NEW p \in Peers, MaybeDisconnected(p)
    PROVE  /\ sess' \in [Peers -> SessRec]
           /\ sendHeadersSent' \in [Peers -> BOOLEAN]
           /\ \A q \in Peers : \/ sess'[q] = sess[q]
                               \/ /\ SessionOk(sess'[q])
                                  /\ sess'[q].pc \notin CatchUpStates
                                  /\ sess[q].pc \notin CatchUpStates
<1>1. /\ sess \in [Peers -> SessRec] /\ sendHeadersSent \in [Peers -> BOOLEAN]
      /\ sess' \in {sess, [sess EXCEPT ![p] = Offline]}
      /\ sess' = sess \/ sess[p].pc = "up"
      /\ sendHeadersSent' \in {sendHeadersSent, [sendHeadersSent EXCEPT ![p] = FALSE]}
  BY DEF MaybeDisconnected, Disconnected, Unannounced, At, ChainInv, ChainType, PeerType
<1>2. "up" \notin CatchUpStates /\ "off" \notin CatchUpStates
  BY DEF CatchUpStates
<1>3. sendHeadersSent' \in [Peers -> BOOLEAN]
  BY <1>1
<1>4. CASE sess' = sess
  BY <1>1, <1>3, <1>4
<1>5. CASE sess' = [sess EXCEPT ![p] = Offline] /\ sess[p].pc = "up"
  BY <1>1, <1>2, <1>3, <1>5, OfflineIs
<1>6. QED
  BY <1>1, <1>4, <1>5

LEMMA HandlersMoveInv ==
    ASSUME ChainInv, QuietDb, NEW p \in Peers, MaybeDisconnected(p),
           UNCHANGED <<catchUp, currentLocators>>,
           sidechains' \in [Wallets -> SUBSET Blocks],
           sidechainMu' \in Handlers \cup {NoPeer},
           peerTip' \in [Peers -> Blocks],
           ann' \in [Handlers -> AnnRec],
           \A h \in Handlers : ann'[h].pc = "switch" <=> sidechainMu' = h,
           \A h \in Handlers : ann'[h] = ann[h] \/ HandlerOk(ann'[h])
    PROVE  ChainInv'
<1>1. /\ sess' \in [Peers -> SessRec] /\ sendHeadersSent' \in [Peers -> BOOLEAN]
      /\ \A q \in Peers : \/ sess'[q] = sess[q]
                          \/ /\ SessionOk(sess'[q])
                             /\ sess'[q].pc \notin CatchUpStates
                             /\ sess[q].pc \notin CatchUpStates
  BY DisconnectedIs
<1>2. PeerType'
  BY <1>1 DEF PeerType, ChainInv, ChainType
<1>3. \A q \in Peers : sess'[q].pc \in CatchUpStates <=> catchUp' = q
  BY <1>1 DEF ChainInv, CatchUpExclusive
<1>4. \A q \in Peers : sess'[q] = sess[q] \/ SessionOk(sess'[q])
  BY <1>1
<1>5. catchUp' \in Peers \cup {NoPeer}
  BY DEF ChainInv, ChainType, FlagType
<1>6. QuietStep
  BY <1>2, <1>3, <1>4, <1>5 DEF QuietStep
<1>7. QED
  BY <1>6, QuietStepInv

\* A handler outside the switch depends on no database.
LEMMA VisitorOk ==
    ASSUME NEW a, a.pc # "switch",
           a.pc # "idle" => a.peer \in Peers /\ a.base \in Blocks /\ a.last \in Blocks
    PROVE  HandlerOk(a)
BY DEF HandlerOk

LEMMA AnnouncementIs ==
    ASSUME NEW p \in Peers, NEW base \in Blocks, NEW last \in Blocks
    PROVE  /\ Announcement(p, base, last) \in AnnRec
           /\ Announcement(p, base, last).pc = "wallet"
           /\ HandlerOk(Announcement(p, base, last))
<1> DEFINE a == Announcement(p, base, last)
<1>1. /\ a \in AnnRec /\ a.pc = "wallet" /\ a.peer = p /\ a.base = base /\ a.last = last
  BY DEF Announcement, IdleAnn, AnnRec, SomeBlock
<1>2. HandlerOk(a)
  <2> HIDE DEF a
  <2>1. QED
    BY <1>1, VisitorOk
<1>3. QED
  BY <1>1, <1>2

LEMMA AnnRestIs ==
    ASSUME ChainInv, NEW h \in Handlers, NEW w, ann[h].pc # "idle"
    PROVE  /\ AnnRest(h, w) \in AnnRec
           /\ AnnRest(h, w).pc # "switch"
           /\ HandlerOk(AnnRest(h, w))
           /\ AnnRest(h, w).pc # "idle" => /\ AnnRest(h, w).peer \in Peers
                                           /\ AnnRest(h, w).base \in Blocks
                                           /\ AnnRest(h, w).last \in Blocks
<1> DEFINE a == [ann[h] EXCEPT !.pc = "wallet", !.todo = @ \ {w},
                               !.w = NoWallet, !.best = NoBlock, !.scan = FALSE]
<1>1. ann[h] \in AnnRec /\ HandlerOk(ann[h])
  BY DEF ChainInv, ChainType, PeerType
<1>2. /\ a \in AnnRec /\ a.pc = "wallet" /\ a.peer = ann[h].peer
      /\ a.base = ann[h].base /\ a.last = ann[h].last
  BY <1>1 DEF AnnRec, SomeBlock
<1>3. a.peer \in Peers /\ a.base \in Blocks /\ a.last \in Blocks
  <2> HIDE DEF a
  <2>1. QED
    BY <1>1, <1>2 DEF HandlerOk
<1>4. HandlerOk(a)
  <2> HIDE DEF a
  <2>1. QED
    BY <1>2, <1>3, VisitorOk
<1>5. AnnRest(h, w) = IdleAnn \/ AnnRest(h, w) = a
  BY DEF AnnRest
<1>6. QED
  <2> HIDE DEF a
  <2>1. QED
    BY <1>2, <1>3, <1>4, <1>5, IdleIs

LEMMA PeerAdvanceInv ==
    ASSUME ChainInv, NEW p \in Peers, NEW b \in Blocks, PeerAdvance(p, b)
    PROVE  ChainInv'
<1>1. /\ QuietDb /\ MaybeDisconnected(p) /\ UNCHANGED <<catchUp, currentLocators>>
      /\ UNCHANGED <<sidechains, sidechainMu>>
      /\ peerTip' \in [Peers -> Blocks]
  BY DEF PeerAdvance, QuietDb, MaybeDisconnected, ChainInv, ChainType, PeerType
<1>2. ann \in [Handlers -> AnnRec] /\ peerTip[p] \in Blocks
  BY DEF ChainInv, ChainType, PeerType
<1>3. \/ ann' = ann
      \/ \E h \in Handlers :
            /\ ann[h].pc = "idle"
            /\ ann' = [ann EXCEPT ![h] = Announcement(p, ForkPoint(peerTip[p], b), b)]
  BY DEF PeerAdvance
<1>4. ForkPoint(peerTip[p], b) \in Blocks
  BY <1>2, ForkPointIs
<1> DEFINE a == Announcement(p, ForkPoint(peerTip[p], b), b)
<1>5. a \in AnnRec /\ a.pc = "wallet" /\ HandlerOk(a)
  BY <1>4, AnnouncementIs
<1>6. /\ ann' \in [Handlers -> AnnRec]
      /\ \A h \in Handlers : ann'[h].pc = "switch" <=> ann[h].pc = "switch"
      /\ \A h \in Handlers : ann'[h] = ann[h] \/ HandlerOk(ann'[h])
  <2> HIDE DEF a
  <2>1. QED
    BY <1>2, <1>3, <1>5 DEF a
<1>7. /\ sidechains' \in [Wallets -> SUBSET Blocks]
      /\ sidechainMu' \in Handlers \cup {NoPeer}
      /\ \A h \in Handlers : ann'[h].pc = "switch" <=> sidechainMu' = h
  BY <1>1, <1>6 DEF ChainInv, ChainType, DbType, FlagType, MuHolder
<1>8. QED
  BY <1>1, <1>6, <1>7, HandlersMoveInv

\* A handler gives up, and sidechainMu with it.
LEMMA HandlerStops ==
    ASSUME ChainInv, NEW h \in Handlers, AnnOldHeader(h) \/ AnnFails(h)
    PROVE  ChainInv'
<1>1. /\ ann[h].pc # "idle"
      /\ QuietDb /\ MaybeDisconnected(ann[h].peer) /\ UNCHANGED <<catchUp, currentLocators>>
      /\ UNCHANGED <<sidechains, peerTip>>
      /\ ann' = [ann EXCEPT ![h] = IdleAnn]
      /\ sidechainMu' = IF sidechainMu = h THEN NoPeer ELSE sidechainMu
  <2>1. CASE AnnFails(h)
    BY <2>1 DEF AnnFails, QuietDb, MaybeDisconnected
  <2>2. CASE AnnOldHeader(h)
    <3>1. sidechainMu # h
      BY <2>2 DEF AnnOldHeader, ChainInv, MuHolder
    <3>2. QED
      BY <2>2, <3>1 DEF AnnOldHeader, QuietDb, MaybeDisconnected
  <2>3. QED
    BY <2>1, <2>2
<1>2. ann \in [Handlers -> AnnRec] /\ ann[h].peer \in Peers
  BY <1>1 DEF ChainInv, ChainType, PeerType, HandlerOk
<1>3. /\ ann' \in [Handlers -> AnnRec]
      /\ \A g \in Handlers : ann'[g] = ann[g] \/ HandlerOk(ann'[g])
  BY <1>1, <1>2, IdleIs
<1>4. /\ sidechains' \in [Wallets -> SUBSET Blocks]
      /\ peerTip' \in [Peers -> Blocks]
      /\ sidechainMu' \in Handlers \cup {NoPeer}
  BY <1>1 DEF ChainInv, ChainType, DbType, FlagType, PeerType
<1>5. \A g \in Handlers : ann'[g].pc = "switch" <=> sidechainMu' = g
  <2>1. \A g \in Handlers : ann[g].pc = "switch" <=> sidechainMu = g
    BY DEF ChainInv, MuHolder
  <2>2. NoPeer \notin Handlers
    BY NamesAssumption
  <2>3. QED
    BY <1>1, <1>2, <2>1, <2>2, IdleIs
<1>6. QED
  BY <1>1, <1>2, <1>3, <1>4, <1>5, HandlersMoveInv

LEMMA AnnOrphanInv ==
    ASSUME ChainInv, NEW h \in Handlers, NEW w \in Wallets, AnnOrphan(h, w)
    PROVE  ChainInv'
<1> DEFINE p == ann[h].peer
           a == Announcement(p, ForkPoint(tip[w], peerTip[p]), peerTip[p])
<1>1. /\ ann[h].pc = "wallet"
      /\ QuietDb /\ MaybeDisconnected(p) /\ UNCHANGED <<catchUp, currentLocators>>
      /\ UNCHANGED <<sidechains, peerTip, sidechainMu>>
      /\ \/ ann' = [ann EXCEPT ![h] = AnnRest(h, w)]
         \/ \E g \in Handlers \ {h} :
               ann[g].pc = "idle" /\ ann' = [ann EXCEPT ![h] = AnnRest(h, w), ![g] = a]
  BY DEF AnnOrphan, AnnVisits, QuietDb, MaybeDisconnected
<1>2. /\ ann \in [Handlers -> AnnRec] /\ p \in Peers
      /\ tip[w] \in Blocks /\ peerTip[p] \in Blocks
  BY <1>1 DEF ChainInv, ChainType, DbType, PeerType, HandlerOk
<1>3. a \in AnnRec /\ a.pc = "wallet" /\ HandlerOk(a)
  BY <1>2, ForkPointIs, AnnouncementIs
<1>4. AnnRest(h, w) \in AnnRec /\ AnnRest(h, w).pc # "switch" /\ HandlerOk(AnnRest(h, w))
  BY <1>1, AnnRestIs
<1> HIDE DEF a, p
<1>5. /\ ann' \in [Handlers -> AnnRec]
      /\ \A g \in Handlers : ann'[g].pc = "switch" <=> ann[g].pc = "switch"
      /\ \A g \in Handlers : ann'[g] = ann[g] \/ HandlerOk(ann'[g])
  <2>1. CASE ann' = [ann EXCEPT ![h] = AnnRest(h, w)]
    BY <1>1, <1>2, <1>4, <2>1
  <2>2. ASSUME NEW g \in Handlers \ {h}, ann[g].pc = "idle",
               ann' = [ann EXCEPT ![h] = AnnRest(h, w), ![g] = a]
        PROVE  <1>5!1 /\ <1>5!2 /\ <1>5!3
    BY <1>1, <1>2, <1>3, <1>4, <2>2
  <2>3. QED
    BY <1>1, <2>1, <2>2
<1>6. /\ sidechains' \in [Wallets -> SUBSET Blocks]
      /\ peerTip' \in [Peers -> Blocks]
      /\ sidechainMu' \in Handlers \cup {NoPeer}
      /\ \A g \in Handlers : ann'[g].pc = "switch" <=> sidechainMu' = g
  BY <1>1, <1>5 DEF ChainInv, ChainType, DbType, FlagType, PeerType, MuHolder
<1>7. QED
  BY <1>1, <1>2, <1>5, <1>6, HandlersMoveInv

\* The block to rescan from is the one after the marker.
LEMMA RescanPointIs ==
    ASSUME ChainInv, NEW w \in Wallets, marker[w] # tip[w]
    PROVE  /\ RescanPoint(w) \in Blocks
           /\ Len(RescanPoint(w)) = Len(marker[w]) + 1
           /\ Len(marker[w]) \in Nat /\ Len(tip[w]) \in Nat
           /\ Len(marker[w]) + 1 <= Len(tip[w])
<1>1. marker[w] \in Blocks /\ tip[w] \in Blocks /\ InChain(marker[w], tip[w])
  BY DEF ChainInv, ChainType, DbType, MarkerInChain
<1>2. Len(marker[w]) \in Nat /\ Len(tip[w]) \in Nat /\ Len(marker[w]) <= Len(tip[w])
  BY <1>1, BlockIsSeq, InChainIs
<1>3. Len(marker[w]) # Len(tip[w])
  BY <1>1, <1>2, SameBlock, InChainIs
<1>4. Len(marker[w]) + 1 \in 0 .. Len(tip[w])
  BY <1>2, <1>3
<1>5. RescanPoint(w) = Upto(tip[w], Len(marker[w]) + 1)
  BY DEF RescanPoint, Upto
<1>6. QED
  BY <1>1, <1>2, <1>4, <1>5, AncestorInChain

\* The new headers in the forest, and the chain they make.
LEMMA AnnAddBlocksInv ==
    ASSUME ChainInv, NEW h \in Handlers, NEW w \in Wallets, AnnAddBlocks(h, w)
    PROVE  ChainInv'
<1> DEFINE forest == sidechains[w] \cup
                       {b \in Segment(ann[h].base, ann[h].last) : ~Known(w, b)}
           best == EvaluateBestChain(w, forest)
           scan == (RescanPoint(w) = NoBlock)
           a == [ann[h] EXCEPT !.pc = "switch", !.w = w, !.best = best, !.scan = scan]
<1>1. /\ ann[h].pc = "wallet" /\ sidechainMu = NoPeer
      /\ QuietDb /\ UNCHANGED <<catchUp, currentLocators, peerTip>>
      /\ MaybeDisconnected(ann[h].peer)
      /\ sidechains' = [sidechains EXCEPT ![w] = forest]
      /\ \/ ann' = [ann EXCEPT ![h] = AnnRest(h, w)] /\ UNCHANGED sidechainMu
         \/ best # tip[w] /\ sidechainMu' = h /\ ann' = [ann EXCEPT ![h] = a]
  <2>1. ann \in [Handlers -> AnnRec]
    BY DEF ChainInv, ChainType, PeerType
  <2>2. \/ ann' = [ann EXCEPT ![h] = AnnRest(h, w)] /\ UNCHANGED sidechainMu
        \/ best # tip[w] /\ sidechainMu' = h /\ ann' = [ann EXCEPT ![h] = a]
    <3>1. CASE best = tip[w]
      BY <3>1 DEF AnnAddBlocks
    <3>2. CASE best # tip[w]
      <4>1. sidechainMu' = h
            /\ ann' = [ann EXCEPT ![h].pc = "switch", ![h].w = w, ![h].best = best,
                                  ![h].scan = scan]
        BY <3>2 DEF AnnAddBlocks
      <4> HIDE DEF best, scan
      <4>2. QED
        BY <2>1, <3>2, <4>1
    <3>3. QED
      BY <3>1, <3>2
  <2>3. QED
    BY <2>2 DEF AnnAddBlocks, AnnVisits, SidechainsFree, QuietDb, MaybeDisconnected
<1>2. /\ ann \in [Handlers -> AnnRec] /\ ann[h] \in AnnRec /\ ann[h].peer \in Peers
      /\ ann[h].base \in Blocks /\ ann[h].last \in Blocks
      /\ tip[w] \in Blocks /\ marker[w] \in Blocks
      /\ sidechains \in [Wallets -> SUBSET Blocks]
  BY <1>1 DEF ChainInv, ChainType, DbType, PeerType, HandlerOk
<1>3. forest \in SUBSET Blocks
  <2>1. Segment(ann[h].base, ann[h].last) \subseteq Blocks
    BY <1>2, PrefixesAre DEF Segment
  <2>2. QED
    BY <1>2, <2>1
<1>4. sidechains' \in [Wallets -> SUBSET Blocks]
  <2> HIDE DEF forest
  <2>1. QED
    BY <1>1, <1>2, <1>3
<1>5. AnnRest(h, w) \in AnnRec /\ AnnRest(h, w).pc # "switch" /\ HandlerOk(AnnRest(h, w))
  BY <1>1, AnnRestIs
<1>6. ASSUME best # tip[w]
      PROVE  a \in AnnRec /\ a.pc = "switch" /\ HandlerOk(a)
  <2>1. best \in Blocks /\ Len(best) > Len(tip[w])
    <3> HIDE DEF forest
    <3>1. QED
      BY <1>2, <1>3, <1>6, BestChainIs
  <2>2. scan => marker[w] = tip[w]
    BY RescanPointIs, BlocksAssumption
  <2> HIDE DEF best, scan
  <2>3. /\ a \in AnnRec /\ a.pc = "switch" /\ a.w = w /\ a.best = best /\ a.scan = scan
        /\ a.peer = ann[h].peer /\ a.base = ann[h].base /\ a.last = ann[h].last
    BY <1>2, <2>1 DEF AnnRec, SomeBlock, scan
  <2> HIDE DEF a
  <2>4. QED
    BY <1>2, <2>1, <2>2, <2>3 DEF HandlerOk
<1> HIDE DEF a, best, forest
<1>7. /\ ann' \in [Handlers -> AnnRec]
      /\ \A g \in Handlers : ann'[g] = ann[g] \/ HandlerOk(ann'[g])
  BY <1>1, <1>2, <1>5, <1>6
<1>8. /\ sidechainMu' \in Handlers \cup {NoPeer}
      /\ \A g \in Handlers : ann'[g].pc = "switch" <=> sidechainMu' = g
  <2>1. \A g \in Handlers : ann[g].pc # "switch"
    BY <1>1, NamesAssumption DEF ChainInv, MuHolder
  <2>2. QED
    BY <1>1, <1>2, <1>5, <1>6, <2>1, NamesAssumption
<1>9. peerTip' \in [Peers -> Blocks]
  BY <1>1 DEF ChainInv, ChainType, PeerType
<1>10. QED
  BY <1>1, <1>2, <1>4, <1>7, <1>8, <1>9, HandlersMoveInv

----------------------------------------------------------------------------
(* The catch-up: the filter of the wallet in hand, and synced. *)

\* Outside the catch-up a startupSync depends on no database and no filter.
LEMMA OutsideOk ==
    ASSUME NEW s, s.pc \notin CatchUpStates, SessShape(s)
    PROVE  SessionOk(s)
BY DEF SessionOk, TargetFilter, RescanBegins, RescanGoesOn, CatchUpStates

FlagStep(p, s) ==
    /\ UNCHANGED <<walletVars, sidechains, catchUp, sidechainMu, currentLocators,
                   peerTip, sendHeadersSent, ann>>
    /\ filter' \in [Wallets -> {"empty", "loaded"}]
    /\ loadedFilters' \in [Wallets -> BOOLEAN]
    /\ synced' \in [Wallets -> BOOLEAN]
    /\ SyncedHasFilters' /\ EmptiedIsReloaded'
    /\ sess' = [sess EXCEPT ![p] = s]
    /\ s \in SessRec /\ s.pc \in CatchUpStates
    /\ SessShape(s) /\ RescanBegins(s) /\ RescanGoesOn(s)
    /\ s.pc \in {"load", "fill"} =>
         /\ ~synced'[s.cur]
         /\ IF s.base = NoBlock THEN ~loadedFilters'[s.cur]
                                ELSE marker[s.cur] # tip[s.cur]
    /\ s.pc \in {"rescan", "scan"} => loadedFilters'[s.cur] /\ filter'[s.cur] = "loaded"

LEMMA FlagStepInv ==
    ASSUME ChainInv, NEW p \in Peers, NEW s, sess[p].pc \in CatchUpStates, FlagStep(p, s)
    PROVE  ChainInv'
<1>1. sess \in [Peers -> SessRec]
  BY DEF ChainInv, ChainType, PeerType
<1>2. sess'[p] = s /\ \A q \in Peers \ {p} : sess'[q] = sess[q]
  BY <1>1 DEF FlagStep
<1>3. catchUp = p /\ \A q \in Peers \ {p} : sess[q].pc \notin CatchUpStates
  BY DEF ChainInv, CatchUpExclusive
<1>4. PeerType'
  BY <1>1 DEF FlagStep, ChainInv, ChainType, PeerType
<1>5. DbType' /\ FlagType'
  BY DEF FlagStep, ChainInv, ChainType, DbType, FlagType, walletVars
<1>6. CatchUpExclusive'
  BY <1>2, <1>3 DEF CatchUpExclusive, FlagStep
<1>7. SyncedHasFilters' /\ EmptiedIsReloaded'
  BY DEF FlagStep
<1>8. ProcessedWereScanned' /\ MarkerInChain' /\ MuHolder'
  BY DEF FlagStep, ChainInv, ProcessedWereScanned, MarkerInChain, MuHolder, walletVars
<1>9. ASSUME NEW q \in Peers
      PROVE  SessionOk(sess[q])'
  <2>1. CASE q = p
    <3>1. TargetFilter(sess[q])'
      BY <1>2, <2>1 DEF FlagStep, TargetFilter, walletVars
    <3>2. SessShape(s) /\ RescanBegins(s) /\ RescanGoesOn(s)
      BY DEF FlagStep
    <3>3. SessShape(sess[q])' /\ RescanBegins(sess[q])' /\ RescanGoesOn(sess[q])'
      BY <1>2, <2>1, <3>2 DEF FlagStep, walletVars, SessShape, RescanBegins, RescanGoesOn,
         AllScanned
    <3>4. QED
      BY <3>1, <3>3 DEF SessionOk
  <2>2. CASE q # p
    <3>1. sess'[q] = sess[q] /\ SessShape(sess[q]) /\ sess[q].pc \notin CatchUpStates
      BY <1>2, <1>3, <2>2 DEF ChainInv, SessionOk
    <3>2. QED
      BY <3>1 DEF SessionOk, SessShape, TargetFilter, RescanBegins, RescanGoesOn,
         CatchUpStates
  <2>3. QED
    BY <2>1, <2>2
<1>10. ASSUME NEW h \in Handlers
       PROVE  HandlerOk(ann[h])'
  <2>1. HandlerOk(ann[h])
    BY DEF ChainInv
  <2>2. QED
    BY <2>1 DEF FlagStep, walletVars, HandlerOk
<1>11. QED
  BY <1>4, <1>5, <1>6, <1>7, <1>8, <1>9, <1>10 DEF ChainInv, ChainType

LEMMA CatchUpWalletInv ==
    ASSUME ChainInv, NEW p \in Peers, NEW w \in Wallets, CatchUpWallet(p, w)
    PROVE  ChainInv'
<1> DEFINE rest == sess[p].todo \ {w}
<1>1. /\ sess \in [Peers -> SessRec] /\ sess[p] \in SessRec
      /\ sess[p].pc = "catchup" /\ sess[p].pc \in CatchUpStates
      /\ sess[p].base = NoBlock /\ sess[p].last = NoBlock
      /\ rest \in SUBSET Wallets
  <2>1. sess \in [Peers -> SessRec] /\ sess[p] \in SessRec
    BY DEF ChainInv, ChainType, PeerType
  <2>2. sess[p].pc = "catchup" /\ SessionOk(sess[p])
    BY DEF CatchUpWallet, At, ChainInv
  <2>3. sess[p].todo \in SUBSET Wallets
    BY <2>1 DEF SessRec
  <2>4. sess[p].base = NoBlock /\ sess[p].last = NoBlock /\ sess[p].pc \in CatchUpStates
    BY <2>2 DEF SessionOk, SessShape, CatchUpStates
  <2>5. QED
    BY <2>1, <2>2, <2>3, <2>4
<1>2. /\ UNCHANGED <<walletVars, sidechains, catchUp, sidechainMu, currentLocators,
                     peerTip, sendHeadersSent, ann>>
      /\ UNCHANGED <<filter, loadedFilters>>
  BY DEF CatchUpWallet
<1>3. FlagType /\ SyncedHasFilters /\ EmptiedIsReloaded
  BY DEF ChainInv, ChainType
<1>4. CASE RescanPoint(w) = NoBlock /\ ~NeedsFilters(w)
  <2> DEFINE s == [Offline EXCEPT !.pc = "catchup", !.todo = rest]
  <2>1. synced' = [synced EXCEPT ![w] = TRUE] /\ sess' = [sess EXCEPT ![p] = s]
    BY <1>4 DEF CatchUpWallet
  <2>2. s \in SessRec /\ s.pc = "catchup" /\ s.base = NoBlock /\ s.last = NoBlock
    BY <1>1 DEF Offline, SessRec, SessStates, CatchUpStates, SomeBlock
  <2> HIDE DEF s
  <2>3. SessionOk(s) /\ s.pc \in CatchUpStates
    BY <2>2, CatchUpSession
  <2>4. marker[w] = tip[w]
    BY <1>4, RescanPointIs, BlocksAssumption
  <2>5. loadedFilters[w] /\ filter[w] = "loaded"
    BY <1>3, <1>4, <2>4 DEF NeedsFilters, EmptiedIsReloaded, FlagType
  <2>6. SyncedHasFilters' /\ EmptiedIsReloaded'
    BY <1>2, <1>3, <2>1, <2>5 DEF SyncedHasFilters, EmptiedIsReloaded, FlagType, walletVars
  <2>7. FlagStep(p, s)
    BY <1>2, <1>3, <2>1, <2>2, <2>3, <2>6 DEF FlagStep, FlagType, SessionOk
  <2>8. QED
    BY <1>1, <2>7, FlagStepInv
<1>5. CASE RescanPoint(w) = NoBlock /\ NeedsFilters(w)
  <2> DEFINE s == [sess[p] EXCEPT !.pc = "load", !.todo = rest, !.cur = w]
  <2>1. /\ UNCHANGED synced
        /\ sess' = [sess EXCEPT ![p].pc = "load", ![p].todo = rest, ![p].cur = w]
    BY <1>5 DEF CatchUpWallet
  <2>2. sess' = [sess EXCEPT ![p] = s]
    BY <1>1, <2>1
  <2>3. s \in SessRec /\ s.pc = "load" /\ s.base = NoBlock /\ s.last = NoBlock /\ s.cur = w
    BY <1>1 DEF SessRec, SessStates, CatchUpStates
  <2> HIDE DEF s
  <2>4. SessShape(s) /\ RescanBegins(s) /\ RescanGoesOn(s) /\ s.pc \in CatchUpStates
    BY <2>3 DEF SessShape, RescanBegins, RescanGoesOn, CatchUpStates
  <2>5. ~loadedFilters[w] /\ ~synced[w]
    BY <1>3, <1>5 DEF NeedsFilters, SyncedHasFilters
  <2>6. SyncedHasFilters' /\ EmptiedIsReloaded'
    BY <1>2, <1>3, <2>1 DEF SyncedHasFilters, EmptiedIsReloaded, walletVars
  <2>7. FlagStep(p, s)
    BY <1>2, <1>3, <2>1, <2>2, <2>3, <2>4, <2>5, <2>6 DEF FlagStep, FlagType
  <2>8. QED
    BY <1>1, <2>7, FlagStepInv
<1>6. CASE RescanPoint(w) # NoBlock
  <2> DEFINE s == [sess[p] EXCEPT !.pc = "load", !.todo = rest, !.cur = w,
                                  !.base = RescanPoint(w)]
  <2>1. marker[w] # tip[w]
    BY <1>6 DEF RescanPoint
  <2>2. /\ RescanPoint(w) \in Blocks /\ Len(RescanPoint(w)) = Len(marker[w]) + 1
        /\ Len(marker[w]) \in Nat /\ Len(tip[w]) \in Nat
        /\ Len(marker[w]) + 1 <= Len(tip[w])
    BY <2>1, RescanPointIs
  <2>3. /\ synced' = [synced EXCEPT ![w] = FALSE]
        /\ sess' = [sess EXCEPT ![p].pc = "load", ![p].todo = rest,
                                ![p].cur = w, ![p].base = RescanPoint(w)]
    BY <1>6 DEF CatchUpWallet
  <2>4. sess' = [sess EXCEPT ![p] = s]
    BY <1>1, <2>3
  <2>5. /\ s \in SessRec /\ s.pc = "load" /\ s.base = RescanPoint(w)
        /\ s.last = NoBlock /\ s.cur = w
    BY <1>1, <2>2 DEF SessRec, SessStates, CatchUpStates, SomeBlock
  <2> HIDE DEF s
  <2>6. SessShape(s) /\ RescanBegins(s) /\ RescanGoesOn(s) /\ s.pc \in CatchUpStates
    BY <2>2, <2>5 DEF SessShape, RescanBegins, RescanGoesOn, CatchUpStates
  <2>7. SyncedHasFilters' /\ EmptiedIsReloaded'
    BY <1>2, <1>3, <2>3 DEF SyncedHasFilters, EmptiedIsReloaded, FlagType, walletVars
  <2>8. s.base # NoBlock /\ ~synced'[w]
    BY <1>3, <1>6, <2>3, <2>5 DEF FlagType
  <2>9. FlagStep(p, s)
    BY <1>2, <1>3, <2>1, <2>3, <2>4, <2>5, <2>6, <2>7, <2>8 DEF FlagStep, FlagType
  <2>10. QED
    BY <1>1, <2>9, FlagStepInv
<1>7. QED
  BY <1>4, <1>5, <1>6

LEMMA DiscoverAndReloadInv ==
    ASSUME ChainInv, NEW p \in Peers, DiscoverAndReload(p)
    PROVE  ChainInv'
<1> DEFINE s == [sess[p] EXCEPT !.pc = "fill"]
           w == sess[p].cur
<1>1. /\ sess \in [Peers -> SessRec] /\ sess[p] \in SessRec /\ SessionOk(sess[p])
      /\ sess[p].pc = "load" /\ sess[p].pc \in CatchUpStates
  BY DEF ChainInv, ChainType, PeerType, DiscoverAndReload, At, CatchUpStates
<1>2. /\ w \in Wallets /\ ~synced[w] /\ sess[p].last = NoBlock
      /\ IF sess[p].base = NoBlock THEN ~loadedFilters[w] ELSE marker[w] # tip[w]
  BY <1>1 DEF SessionOk, SessShape, TargetFilter
<1>3. /\ UNCHANGED <<walletVars, sidechains, catchUp, sidechainMu, currentLocators,
                     peerTip, sendHeadersSent, ann>>
      /\ UNCHANGED <<loadedFilters, synced>>
      /\ filter' = [filter EXCEPT ![w] = "empty"]
      /\ sess' = [sess EXCEPT ![p] = s]
  BY <1>1 DEF DiscoverAndReload, Goto
<1>4. /\ s \in SessRec /\ s.pc = "fill" /\ s.base = sess[p].base
      /\ s.last = sess[p].last /\ s.cur = w
  BY <1>1 DEF SessRec, SessStates, CatchUpStates
<1> HIDE DEF s, w
<1>5. SessShape(s) /\ RescanBegins(s) /\ RescanGoesOn(s) /\ s.pc \in CatchUpStates
  <2>1. SessShape(s) /\ s.pc \in CatchUpStates
    BY <1>2, <1>4 DEF SessShape, CatchUpStates
  <2>2. RescanBegins(s) /\ RescanGoesOn(s)
    BY <1>1, <1>4 DEF SessionOk, RescanBegins, RescanGoesOn, w
  <2>3. QED
    BY <2>1, <2>2
<1>6. FlagType /\ SyncedHasFilters /\ EmptiedIsReloaded
  BY DEF ChainInv, ChainType
<1>7. SyncedHasFilters' /\ EmptiedIsReloaded'
  BY <1>2, <1>3, <1>6 DEF SyncedHasFilters, EmptiedIsReloaded, FlagType, walletVars
<1>8. FlagStep(p, s)
  BY <1>2, <1>3, <1>4, <1>5, <1>6, <1>7 DEF FlagStep, FlagType
<1>9. QED
  BY <1>1, <1>8, FlagStepInv

LEMMA FillTxFilterInv ==
    ASSUME ChainInv, NEW p \in Peers, FillTxFilter(p)
    PROVE  ChainInv'
<1> DEFINE w == sess[p].cur
<1>1. /\ sess \in [Peers -> SessRec] /\ sess[p] \in SessRec /\ SessionOk(sess[p])
      /\ sess[p].pc = "fill" /\ sess[p].pc \in CatchUpStates
  BY DEF ChainInv, ChainType, PeerType, FillTxFilter, At, CatchUpStates
<1>2. /\ w \in Wallets /\ sess[p].last = NoBlock /\ sess[p].todo \in SUBSET Wallets
      /\ sess[p].base \in SomeBlock
  BY <1>1 DEF SessionOk, SessShape, SessRec
<1>3. /\ UNCHANGED <<walletVars, sidechains, catchUp, sidechainMu, currentLocators,
                     peerTip, sendHeadersSent, ann>>
      /\ filter' = [filter EXCEPT ![w] = "loaded"]
      /\ loadedFilters' = [loadedFilters EXCEPT ![w] = TRUE]
  BY DEF FillTxFilter
<1>4. FlagType /\ SyncedHasFilters /\ EmptiedIsReloaded
  BY DEF ChainInv, ChainType
<1>5. EmptiedIsReloaded'
  <2> HIDE DEF w
  <2>1. QED
    BY <1>2, <1>3, <1>4 DEF EmptiedIsReloaded, FlagType, walletVars
<1>6. CASE sess[p].base = NoBlock
  <2> DEFINE s == [Offline EXCEPT !.pc = "catchup", !.todo = sess[p].todo, !.err = FALSE]
  <2>1. synced' = [synced EXCEPT ![w] = TRUE] /\ sess' = [sess EXCEPT ![p] = s]
    BY <1>6 DEF FillTxFilter, NextWallet
  <2>2. /\ s \in SessRec /\ SessionOk(s) /\ s.pc \in CatchUpStates
    BY <1>2, NextWalletIs
  <2>3. s.pc = "catchup"
    BY DEF Offline
  <2> HIDE DEF s, w
  <2>4. SyncedHasFilters'
    BY <1>2, <1>3, <1>4, <2>1 DEF SyncedHasFilters, FlagType
  <2>5. FlagStep(p, s)
    BY <1>3, <1>4, <1>5, <2>1, <2>2, <2>3, <2>4 DEF FlagStep, FlagType, SessionOk
  <2>6. QED
    BY <1>1, <2>5, FlagStepInv
<1>7. CASE sess[p].base # NoBlock
  <2> DEFINE s == [sess[p] EXCEPT !.pc = "rescan"]
  <2>1. UNCHANGED synced /\ sess' = [sess EXCEPT ![p] = s]
    BY <1>1, <1>7 DEF FillTxFilter, Goto
  <2>2. /\ s \in SessRec /\ s.pc = "rescan" /\ s.base = sess[p].base
        /\ s.last = NoBlock /\ s.cur = w
    BY <1>1, <1>2 DEF SessRec, SessStates, CatchUpStates
  <2> HIDE DEF s
  <2>3. RescanBegins(s)
    BY <1>1, <1>2, <2>2 DEF SessionOk, RescanBegins
  <2> HIDE DEF w
  <2>4. SessShape(s) /\ RescanGoesOn(s) /\ s.pc \in CatchUpStates
    BY <1>2, <1>7, <2>2 DEF SessShape, RescanGoesOn, CatchUpStates, SomeBlock
  <2>5. SyncedHasFilters'
    BY <1>2, <1>3, <1>4, <2>1 DEF SyncedHasFilters, FlagType
  <2>6. loadedFilters'[w] /\ filter'[w] = "loaded"
    BY <1>2, <1>3, <1>4 DEF FlagType
  <2>7. FlagStep(p, s)
    BY <1>3, <1>4, <1>5, <2>1, <2>2, <2>3, <2>4, <2>5, <2>6 DEF FlagStep, FlagType
  <2>8. QED
    BY <1>1, <2>7, FlagStepInv
<1>8. QED
  BY <1>6, <1>7

LEMMA RescanFinishedInv ==
    ASSUME ChainInv, NEW p \in Peers, RescanFinished(p)
    PROVE  ChainInv'
<1> DEFINE w == sess[p].cur
           s == [Offline EXCEPT !.pc = "catchup", !.todo = sess[p].todo, !.err = FALSE]
<1>1. /\ sess[p] \in SessRec /\ SessionOk(sess[p])
      /\ sess[p].pc = "rescan" /\ sess[p].pc \in CatchUpStates
  BY DEF ChainInv, ChainType, PeerType, RescanFinished, At, CatchUpStates
<1>2. /\ w \in Wallets /\ sess[p].todo \in SUBSET Wallets
      /\ loadedFilters[w] /\ filter[w] = "loaded"
  BY <1>1 DEF SessionOk, SessShape, TargetFilter, SessRec
<1>3. /\ UNCHANGED <<walletVars, sidechains, catchUp, sidechainMu, currentLocators,
                     peerTip, sendHeadersSent, ann>>
      /\ UNCHANGED <<filter, loadedFilters>>
      /\ synced' = [synced EXCEPT ![w] = TRUE] /\ sess' = [sess EXCEPT ![p] = s]
  BY DEF RescanFinished, NextWallet
<1>4. FlagType /\ SyncedHasFilters /\ EmptiedIsReloaded
  BY DEF ChainInv, ChainType
<1>5. s \in SessRec /\ SessionOk(s) /\ s.pc \in CatchUpStates
  BY <1>2, NextWalletIs
<1>6. s.pc = "catchup"
  BY DEF Offline
<1> HIDE DEF s, w
<1>7. SyncedHasFilters' /\ EmptiedIsReloaded'
  BY <1>2, <1>3, <1>4 DEF SyncedHasFilters, EmptiedIsReloaded, FlagType, walletVars
<1>8. FlagStep(p, s)
  BY <1>3, <1>4, <1>5, <1>6, <1>7 DEF FlagStep, FlagType, SessionOk
<1>9. QED
  BY <1>1, <1>8, FlagStepInv

----------------------------------------------------------------------------
(* The rescan of a batch. *)

\* No block that was matched counts as unmatched later.
MoreScanned ==
    /\ scanned' \in [Wallets -> [Blocks -> {"no", "empty", "loaded"}]]
    /\ \A v \in Wallets, b \in Blocks : scanned[v][b] # "no" => scanned'[v][b] # "no"

LEMMA MoreScannedKeeps ==
    ASSUME MoreScanned, NEW w \in Wallets, NEW b \in Blocks, AllScanned(w, b)
    PROVE  \A c \in Prefixes(b) : scanned'[w][c] # "no"
BY PrefixesAre DEF MoreScanned, AllScanned

LEMMA RescanBatchInv ==
    ASSUME ChainInv, NEW p \in Peers, RescanBatch(p)
    PROVE  ChainInv'
<1> DEFINE w == sess[p].cur
           base == sess[p].base
           last == sess[p].last
           s == [sess[p] EXCEPT !.pc = "rescan"]
<1>1. /\ sess \in [Peers -> SessRec] /\ sess[p] \in SessRec /\ SessionOk(sess[p])
      /\ sess[p].pc = "scan" /\ InChain(last, tip[w])
  BY DEF ChainInv, ChainType, PeerType, RescanBatch, At
<1>2. /\ w \in Wallets /\ base \in Blocks /\ last \in Blocks
      /\ loadedFilters[w] /\ filter[w] = "loaded"
      /\ InChain(base, last)
      /\ rolledBack[w] \/ AllScanned(w, base)
  BY <1>1 DEF SessionOk, SessShape, TargetFilter, RescanGoesOn
<1>3. /\ UNCHANGED <<tip, rolledBack, sidechains, flagVars, catchUp, sidechainMu,
                     currentLocators, peerTip, sendHeadersSent, ann>>
      /\ sess' = [sess EXCEPT ![p] = s]
      /\ scanned' = [scanned EXCEPT ![w] = [b \in Blocks |->
                       IF b \in Segment(base, last) THEN filter[w] ELSE @[b]]]
      /\ marker' = [marker EXCEPT ![w] = IF Len(@) < Len(last) THEN last ELSE @]
  BY <1>1 DEF RescanBatch, Goto
<1>4. DbType /\ FlagType /\ PeerType /\ MarkerInChain
  BY DEF ChainInv, ChainType
<1>5. /\ s \in SessRec /\ s.pc = "rescan" /\ s.base = base /\ s.last = last /\ s.cur = w
  BY <1>1 DEF SessRec, SessStates, CatchUpStates
<1> HIDE DEF s, w, base, last
<1>6. MoreScanned /\ \A c \in Segment(base, last) : c \in Blocks => scanned'[w][c] # "no"
  <2>1. filter[w] = "loaded" /\ scanned \in [Wallets -> [Blocks -> {"no", "empty", "loaded"}]]
    BY <1>2, <1>4 DEF DbType
  <2>2. QED
    BY <1>2, <1>3, <2>1 DEF MoreScanned
<1>7. rolledBack[w] \/ \A c \in Prefixes(last) : scanned'[w][c] # "no"
  <2>1. ASSUME ~rolledBack[w], NEW c \in Prefixes(last)
        PROVE  scanned'[w][c] # "no"
    <3>1. c \in Blocks
      BY <1>2, <2>1, PrefixesAre
    <3>2. c \in Prefixes(base) \/ c \in Segment(base, last)
      BY <1>2, <2>1, SegmentCovers
    <3>3. QED
      BY <1>2, <1>6, <2>1, <3>1, <3>2, MoreScannedKeeps
  <2>2. QED
    BY <2>1
<1>8. /\ marker'[w] = last \/ marker'[w] = marker[w]
      /\ \A v \in Wallets \ {w} : marker'[v] = marker[v]
      /\ marker' \in [Wallets -> Blocks]
      /\ marker[w] = tip[w] => marker'[w] = tip[w]
  <2>1. /\ Len(last) \in Nat /\ Len(tip[w]) \in Nat /\ Len(last) <= Len(tip[w])
        /\ marker \in [Wallets -> Blocks]
    BY <1>1, <1>2, <1>4, BlockIsSeq, InChainIs DEF DbType
  <2>2. QED
    BY <1>2, <1>3, <2>1
<1>9. /\ sess'[p] = s /\ \A q \in Peers \ {p} : sess'[q] = sess[q]
  BY <1>1, <1>3
<1>10. catchUp = p /\ \A q \in Peers \ {p} : sess[q].pc \notin CatchUpStates
  BY <1>1 DEF ChainInv, CatchUpExclusive, CatchUpStates
<1>11. ChainType'
  BY <1>1, <1>3, <1>4, <1>5, <1>6, <1>8 DEF ChainType, DbType, FlagType, PeerType,
     flagVars, MoreScanned
<1>12. CatchUpExclusive' /\ MuHolder' /\ SyncedHasFilters'
  <2>1. CatchUpExclusive'
    BY <1>3, <1>5, <1>9, <1>10 DEF CatchUpExclusive, CatchUpStates
  <2>2. MuHolder' /\ SyncedHasFilters'
    BY <1>3 DEF ChainInv, MuHolder, SyncedHasFilters, flagVars
  <2>3. QED
    BY <2>1, <2>2
<1>13. EmptiedIsReloaded'
  BY <1>2, <1>3, <1>8 DEF ChainInv, EmptiedIsReloaded, flagVars
<1>14. MarkerInChain'
  BY <1>1, <1>2, <1>3, <1>4, <1>8 DEF MarkerInChain
<1>15. ProcessedWereScanned'
  <2>1. ASSUME NEW v \in Wallets, ~rolledBack'[v], NEW c \in Prefixes(marker'[v])
        PROVE  scanned'[v][c] # "no"
    <3>1. CASE marker'[v] = marker[v]
      <4>1. AllScanned(v, marker[v]) /\ marker[v] \in Blocks
        BY <1>3, <1>4, <2>1 DEF ChainInv, ProcessedWereScanned, AllScanned, DbType
      <4>2. QED
        BY <1>6, <2>1, <3>1, <4>1, MoreScannedKeeps
    <3>2. CASE v = w /\ marker'[w] = last
      BY <1>3, <1>7, <2>1, <3>2
    <3>3. QED
      BY <1>8, <3>1, <3>2
  <2>2. QED
    BY <2>1 DEF ProcessedWereScanned
<1>16. ASSUME NEW q \in Peers
       PROVE  SessionOk(sess[q])'
  <2>1. CASE q = p
    <3>1. /\ sess'[q].pc = "rescan" /\ sess'[q].base = base /\ sess'[q].last = last
          /\ sess'[q].cur = w
      BY <1>5, <1>9, <2>1
    <3>2. last # NoBlock
      BY <1>2, BlocksAssumption
    <3>3. SessShape(sess[q])' /\ TargetFilter(sess[q])' /\ RescanBegins(sess[q])'
      BY <1>2, <1>3, <3>1, <3>2 DEF SessShape, TargetFilter, RescanBegins, flagVars
    <3>4. RescanGoesOn(sess[q])'
      BY <1>3, <1>7, <3>1 DEF RescanGoesOn, AllScanned
    <3>5. QED
      BY <3>3, <3>4 DEF SessionOk
  <2>2. CASE q # p
    <3>1. sess'[q] = sess[q] /\ SessShape(sess[q]) /\ sess[q].pc \notin CatchUpStates
      BY <1>9, <1>10, <2>2 DEF ChainInv, SessionOk
    <3>2. QED
      BY <3>1 DEF SessionOk, SessShape, TargetFilter, RescanBegins, RescanGoesOn,
         CatchUpStates
  <2>3. QED
    BY <2>1, <2>2
<1>17. ASSUME NEW h \in Handlers
       PROVE  HandlerOk(ann[h])'
  <2>1. HandlerOk(ann[h]) /\ ann'[h] = ann[h] /\ tip' = tip
    BY <1>3 DEF ChainInv
  <2>2. QED
    BY <1>8, <2>1 DEF HandlerOk
<1>18. QED
  BY <1>11, <1>12, <1>13, <1>14, <1>15, <1>16, <1>17 DEF ChainInv

----------------------------------------------------------------------------
(* Chain switches. *)

\* What a switch of wallet w to the chain best leaves.
SwitchedTo(w, best) ==
    /\ best \in Blocks /\ Len(best) > Len(tip[w])
    /\ MoreScanned
    /\ tip' = [tip EXCEPT ![w] = best]
    /\ marker' \in [Wallets -> Blocks]
    /\ rolledBack' \in [Wallets -> BOOLEAN]
    /\ sidechains' \in [Wallets -> SUBSET Blocks]
    /\ \A v \in Wallets \ {w} : marker'[v] = marker[v] /\ rolledBack'[v] = rolledBack[v]
    /\ InChain(marker'[w], best)
    /\ rolledBack[w] => rolledBack'[w]

\* ... without matching transactions: what was processed stays so, or was
\* removed with the blocks that left the chain.
SwitchedUnmatched(w, best) ==
    /\ SwitchedTo(w, best)
    /\ Len(marker'[w]) <= Len(marker[w])
    /\ rolledBack'[w] \/ marker'[w] = marker[w]

\* ... with them.
SwitchedMatched(w, best) ==
    /\ SwitchedTo(w, best)
    /\ marker'[w] = best
    /\ rolledBack'[w] \/ \A c \in Prefixes(best) : scanned'[w][c] # "no"

LEMMA ChainSwitchIs ==
    ASSUME ChainInv, NEW w \in Wallets, NEW best \in Blocks, NEW matched \in BOOLEAN,
           NEW forest \in SUBSET Blocks, Len(best) > Len(tip[w]),
           MoreScanned, ChainSwitch(w, best, forest, matched)
    PROVE  /\ SwitchedTo(w, best)
           /\ matched => marker'[w] = best /\ rolledBack'[w] = rolledBack[w]
           /\ ~matched => SwitchedUnmatched(w, best)
<1> DEFINE fork == ForkPoint(best, tip[w])
           kept == IF InChain(marker[w], best) THEN marker[w]
                   ELSE ForkPoint(marker[w], best)
           m == IF matched THEN best ELSE kept
           gone == ~matched /\ kept # marker[w]
<1>1. DbType
  BY DEF ChainInv, ChainType
<1>2. tip[w] \in Blocks /\ marker[w] \in Blocks
  BY <1>1 DEF DbType
<1>3. kept \in Blocks /\ InChain(kept, marker[w]) /\ InChain(kept, best)
  <2>1. CASE InChain(marker[w], best)
    BY <1>2, <2>1, InChainReflexive
  <2>2. CASE ~InChain(marker[w], best)
    BY <1>2, <2>2, ForkPointIs
  <2>3. QED
    BY <2>1, <2>2
<1>4. Len(kept) <= Len(marker[w])
  <2> HIDE DEF kept
  <2>1. QED
    BY <1>2, <1>3, InChainIs
<1>5. /\ tip' = [tip EXCEPT ![w] = best]
      /\ sidechains' = [sidechains EXCEPT ![w] =
                          (forest \ Prefixes(best)) \cup Segment(fork, tip[w])]
      /\ marker' = [marker EXCEPT ![w] = m]
      /\ rolledBack' = [rolledBack EXCEPT ![w] = @ \/ gone]
  BY DEF ChainSwitch
<1>6. Segment(fork, tip[w]) \subseteq Blocks
  BY <1>2, PrefixesAre DEF Segment
<1>7. sidechains' \in [Wallets -> SUBSET Blocks]
  <2> HIDE DEF fork
  <2>1. QED
    BY <1>1, <1>5, <1>6 DEF DbType
<1>8. m \in Blocks /\ InChain(m, best) /\ (~matched => m = kept)
  <2> HIDE DEF kept
  <2>1. QED
    BY <1>3, InChainReflexive
<1>9. (matched => m = best /\ gone = FALSE) /\ (~matched /\ kept # marker[w] => gone)
  BY DEF m
<1>10. gone \in BOOLEAN
  OBVIOUS
<1> HIDE DEF m, kept, gone, fork
<1>11. /\ marker' \in [Wallets -> Blocks] /\ marker'[w] = m
       /\ \A v \in Wallets \ {w} : marker'[v] = marker[v]
  BY <1>1, <1>5, <1>8 DEF DbType
<1>12. /\ rolledBack' \in [Wallets -> BOOLEAN]
       /\ rolledBack'[w] = (rolledBack[w] \/ gone)
       /\ \A v \in Wallets \ {w} : rolledBack'[v] = rolledBack[v]
  BY <1>1, <1>5, <1>10 DEF DbType
<1>13. SwitchedTo(w, best)
  BY <1>5, <1>7, <1>8, <1>11, <1>12 DEF SwitchedTo
<1>14. ASSUME matched
       PROVE  marker'[w] = best /\ rolledBack'[w] = rolledBack[w]
  <2>1. rolledBack[w] \in BOOLEAN
    BY <1>1 DEF DbType
  <2>2. QED
    BY <1>9, <1>11, <1>12, <1>14, <2>1
<1>15. ASSUME ~matched
       PROVE  SwitchedUnmatched(w, best)
  BY <1>4, <1>8, <1>9, <1>11, <1>12, <1>13, <1>15 DEF SwitchedUnmatched
<1>16. QED
  BY <1>13, <1>14, <1>15

\* Either way the databases stay as they should, and so does every session.
SwitchStep(w, best) == SwitchedUnmatched(w, best) \/ SwitchedMatched(w, best)

LEMMA SwitchKeepsDb ==
    ASSUME ChainInv, NEW w \in Wallets, NEW best, SwitchStep(w, best), UNCHANGED flagVars,
           loadedFilters[w] /\ filter[w] = "empty" => SwitchedUnmatched(w, best)
    PROVE  /\ DbType' /\ MarkerInChain' /\ ProcessedWereScanned'
           /\ SyncedHasFilters' /\ EmptiedIsReloaded'
<1>1. DbType /\ MarkerInChain
  BY DEF ChainInv, ChainType
<1>2. SwitchedTo(w, best) /\ best \in Blocks
  BY DEF SwitchStep, SwitchedUnmatched, SwitchedMatched, SwitchedTo
<1>3. tip'[w] = best /\ \A v \in Wallets \ {w} : tip'[v] = tip[v]
  BY <1>1, <1>2 DEF SwitchedTo, DbType
<1>4. DbType'
  BY <1>1, <1>2 DEF SwitchedTo, DbType, MoreScanned
<1>5. MarkerInChain'
  BY <1>1, <1>2, <1>3 DEF SwitchedTo, MarkerInChain
<1>6. ProcessedWereScanned'
  <2>1. ASSUME NEW v \in Wallets, ~rolledBack'[v], NEW c \in Prefixes(marker'[v])
        PROVE  scanned'[v][c] # "no"
    <3>1. CASE marker'[v] = marker[v]
      <4>1. ~rolledBack[v] /\ marker[v] \in Blocks
        BY <1>1, <1>2, <2>1 DEF SwitchedTo, DbType
      <4>2. AllScanned(v, marker[v])
        BY <4>1 DEF ChainInv, ProcessedWereScanned, AllScanned
      <4>3. QED
        BY <1>2, <2>1, <3>1, <4>1, <4>2, MoreScannedKeeps DEF SwitchedTo
    <3>2. CASE v = w /\ marker'[v] # marker[v]
      BY <2>1, <3>2 DEF SwitchStep, SwitchedUnmatched, SwitchedMatched
    <3>3. QED
      BY <1>2, <3>1, <3>2 DEF SwitchedTo
  <2>2. QED
    BY <2>1 DEF ProcessedWereScanned
<1>7. SyncedHasFilters'
  BY DEF ChainInv, SyncedHasFilters, flagVars
<1>8. EmptiedIsReloaded'
  <2>1. ASSUME NEW v \in Wallets, loadedFilters'[v], filter'[v] = "empty"
        PROVE  marker'[v] # tip'[v]
    <3>1. loadedFilters[v] /\ filter[v] = "empty" /\ marker[v] # tip[v]
      BY <2>1 DEF ChainInv, EmptiedIsReloaded, flagVars
    <3>2. CASE v = w
      <4>1. Len(marker'[w]) <= Len(marker[w]) /\ Len(best) > Len(tip[w])
        BY <3>1, <3>2 DEF SwitchedUnmatched, SwitchedTo
      <4>2. Len(marker[w]) <= Len(tip[w]) /\ tip[w] \in Blocks /\ marker[w] \in Blocks
            /\ marker'[w] \in Blocks
        BY <1>1, <1>4, InChainIs DEF DbType, MarkerInChain
      <4>3. /\ Len(marker'[w]) \in Nat /\ Len(marker[w]) \in Nat /\ Len(tip[w]) \in Nat
            /\ Len(best) \in Nat
        BY <1>2, <4>2, BlockIsSeq
      <4>4. QED
        BY <1>3, <3>2, <4>1, <4>2, <4>3
    <3>3. CASE v # w
      BY <1>2, <1>3, <3>1, <3>3 DEF SwitchedTo
    <3>4. QED
      BY <3>2, <3>3
  <2>2. QED
    BY <2>1 DEF EmptiedIsReloaded
<1>9. QED
  BY <1>4, <1>5, <1>6, <1>7, <1>8

\* A session in the middle of the catch-up survives a switch of its wallet, if
\* it was not matched behind the back of a reload.
LEMMA SwitchKeepsSession ==
    ASSUME ChainInv, NEW w \in Wallets, NEW best, SwitchStep(w, best), UNCHANGED flagVars,
           NEW p \in Peers, sess'[p] = sess[p],
           marker[w] # tip[w] => SwitchedUnmatched(w, best)
    PROVE  SessionOk(sess[p])'
<1> DEFINE s == sess[p]
           v == sess[p].cur
<1>1. DbType /\ MarkerInChain /\ SessionOk(s)
  BY DEF ChainInv, ChainType
<1>2. SwitchedTo(w, best) /\ best \in Blocks
  BY DEF SwitchStep, SwitchedUnmatched, SwitchedMatched, SwitchedTo
<1>3. tip'[w] = best /\ \A u \in Wallets \ {w} : tip'[u] = tip[u]
  BY <1>1, <1>2 DEF SwitchedTo, DbType
<1>4. SessShape(sess[p])'
  BY <1>1 DEF SessionOk, SessShape
<1>5. ASSUME v \in Wallets
      PROVE  /\ Len(tip[v]) \in Nat /\ Len(tip'[v]) \in Nat /\ Len(tip'[v]) >= Len(tip[v])
             /\ rolledBack[v] => rolledBack'[v]
             /\ marker[v] # tip[v] => marker'[v] # tip'[v]
             /\ rolledBack'[v] \/ Len(marker'[v]) >= Len(marker[v])
             /\ Len(marker[v]) \in Nat /\ Len(marker'[v]) \in Nat
  <2>1. /\ tip[v] \in Blocks /\ marker[v] \in Blocks /\ marker'[v] \in Blocks
        /\ InChain(marker[v], tip[v])
    BY <1>1, <1>2, <1>5 DEF DbType, MarkerInChain, SwitchedTo
  <2>2. /\ Len(tip[v]) \in Nat /\ Len(marker[v]) \in Nat /\ Len(marker'[v]) \in Nat
        /\ Len(best) \in Nat /\ Len(marker[v]) <= Len(tip[v])
    BY <1>2, <2>1, BlockIsSeq, InChainIs
  <2>3. CASE v # w
    <3>1. tip'[v] = tip[v] /\ marker'[v] = marker[v] /\ rolledBack'[v] = rolledBack[v]
      BY <1>2, <1>3, <1>5, <2>3 DEF SwitchedTo
    <3>2. QED
      BY <2>2, <3>1
  <2>4. CASE v = w
    <3>1. Len(best) > Len(tip[v]) /\ tip'[v] = best /\ (rolledBack[v] => rolledBack'[v])
      BY <1>2, <1>3, <2>4 DEF SwitchedTo
    <3>2. marker[v] # tip[v] => marker'[v] # tip'[v]
      <4>1. SUFFICES ASSUME marker[v] # tip[v] PROVE Len(marker'[v]) <= Len(marker[v])
        BY <2>2, <3>1
      <4>2. QED
        BY <2>4, <4>1 DEF SwitchedUnmatched
    <3>3. rolledBack'[v] \/ Len(marker'[v]) >= Len(marker[v])
      <4>1. CASE marker'[v] = marker[v]
        BY <2>2, <4>1
      <4>2. CASE marker'[v] = best
        BY <2>2, <3>1, <4>2
      <4>3. rolledBack'[v] \/ marker'[v] = marker[v] \/ marker'[v] = best
        BY <2>4 DEF SwitchStep, SwitchedUnmatched, SwitchedMatched
      <4>4. QED
        BY <4>1, <4>2, <4>3
    <3>4. QED
      BY <2>2, <3>1, <3>2, <3>3
  <2>5. QED
    BY <2>3, <2>4
<1>6. TargetFilter(sess[p])'
  BY <1>1, <1>5 DEF SessionOk, SessShape, TargetFilter, flagVars
<1>7. RescanBegins(sess[p])'
  <2>1. SUFFICES ASSUME s.pc \in {"load", "fill", "rescan"}, s.base # NoBlock,
                        s.last = NoBlock
                 PROVE  /\ Len(s.base) >= 1
                        /\ Len(s.base) - 1 <= Len(tip'[v])
                        /\ rolledBack'[v] \/ Len(s.base) - 1 <= Len(marker'[v])
    BY DEF RescanBegins
  <2>2. /\ v \in Wallets
        /\ Len(s.base) >= 1 /\ Len(s.base) - 1 <= Len(tip[v])
        /\ rolledBack[v] \/ Len(s.base) - 1 <= Len(marker[v])
    BY <1>1, <2>1 DEF SessionOk, SessShape, RescanBegins
  <2>3. Len(s.base) \in Nat
    <3>1. sess[p] \in SessRec
      BY DEF ChainInv, ChainType, PeerType
    <3>2. s.base \in Blocks
      BY <2>1, <3>1 DEF SessRec, SomeBlock
    <3>3. QED
      BY <3>2, BlockIsSeq
  <2> HIDE DEF s, v
  <2>4. QED
    BY <1>5, <2>2, <2>3
<1>8. RescanGoesOn(sess[p])'
  <2>1. ASSUME s.pc = "rescan", s.last # NoBlock
        PROVE  rolledBack'[v] \/ \A c \in Prefixes(s.last) : scanned'[v][c] # "no"
    <3>1. v \in Wallets /\ (rolledBack[v] \/ AllScanned(v, s.last))
      BY <1>1, <2>1 DEF SessionOk, SessShape, RescanGoesOn
    <3>2. sess[p] \in SessRec
      BY DEF ChainInv, ChainType, PeerType
    <3>3. s.last \in Blocks
      BY <2>1, <3>2 DEF SessRec, SomeBlock
    <3> HIDE DEF s, v
    <3>4. QED
      BY <1>2, <1>5, <3>1, <3>3, MoreScannedKeeps DEF SwitchedTo
  <2>2. ASSUME s.pc = "scan"
        PROVE  /\ InChain(s.base, s.last)
               /\ rolledBack'[v] \/ \A c \in Prefixes(s.base) : scanned'[v][c] # "no"
    <3>1. /\ v \in Wallets /\ InChain(s.base, s.last) /\ s.base \in Blocks
          /\ rolledBack[v] \/ AllScanned(v, s.base)
      BY <1>1, <2>2 DEF SessionOk, SessShape, RescanGoesOn
    <3> HIDE DEF s, v
    <3>2. QED
      BY <1>2, <1>5, <3>1, MoreScannedKeeps DEF SwitchedTo
  <2>3. QED
    BY <2>1, <2>2 DEF RescanGoesOn, AllScanned
<1>9. QED
  BY <1>4, <1>6, <1>7, <1>8 DEF SessionOk

\* The headers a startupSync connects: no handler is about to switch.
LEMMA ConnectHeadersInv ==
    ASSUME ChainInv, NEW p \in Peers, NEW w \in Wallets, ConnectHeaders(p, w)
    PROVE  ChainInv'
<1> DEFINE forest == sidechains[w] \cup
                       {b \in Segment(sess[p].base, sess[p].last) : ~InChain(b, tip[w])}
           best == EvaluateBestChain(w, forest)
           pc == IF sess[p].todo = {w} THEN "relocate" ELSE sess[p].pc
           s == [sess[p] EXCEPT !.todo = @ \ {w}, !.pc = pc]
<1>1. /\ sess \in [Peers -> SessRec] /\ sess[p] \in SessRec /\ SessionOk(sess[p])
      /\ sess[p].pc = "connect" /\ sidechainMu = NoPeer
  BY DEF ChainInv, ChainType, PeerType, ConnectHeaders, At, SidechainsFree
<1>2. /\ sess[p].base \in Blocks /\ sess[p].last \in Blocks
      /\ sess[p].low \in Wallets /\ sess[p].loc \in Blocks
      /\ tip[w] \in Blocks /\ sidechains \in [Wallets -> SUBSET Blocks]
  BY <1>1 DEF SessionOk, SessShape, ChainInv, ChainType, DbType
<1>3. /\ UNCHANGED <<scanned, flagVars, catchUp, sidechainMu, currentLocators, peerTip,
                     sendHeadersSent, ann>>
      /\ sess' = [sess EXCEPT ![p] = s]
      /\ IF best = tip[w]
         THEN /\ sidechains' = [sidechains EXCEPT ![w] = forest]
              /\ UNCHANGED <<tip, marker, rolledBack>>
         ELSE ChainSwitch(w, best, forest, FALSE)
  <2>1. sess' = [sess EXCEPT ![p].todo = @ \ {w},
                             ![p].pc = IF sess[p].todo = {w} THEN "relocate" ELSE @]
    BY DEF ConnectHeaders
  <2>2. sess' = [sess EXCEPT ![p] = s]
    BY <1>1, <2>1
  <2>3. QED
    BY <2>2 DEF ConnectHeaders
<1>4. /\ s \in SessRec /\ s.pc \in {"connect", "relocate"} /\ s.low = sess[p].low
      /\ s.loc = sess[p].loc /\ s.base = sess[p].base /\ s.last = sess[p].last
  BY <1>1 DEF SessRec, SessStates, SomeBlock
<1>5. forest \in SUBSET Blocks
  <2>1. Segment(sess[p].base, sess[p].last) \subseteq Blocks
    BY <1>2, PrefixesAre DEF Segment
  <2>2. QED
    BY <1>2, <2>1
<1> HIDE DEF s, forest
<1>6. SessShape(s) /\ s.pc \notin CatchUpStates
  BY <1>2, <1>4 DEF SessShape, CatchUpStates
<1>7. /\ sess'[p] = s /\ \A q \in Peers \ {p} : sess'[q] = sess[q]
      /\ sess[p].pc \notin CatchUpStates
  BY <1>1, <1>3 DEF CatchUpStates
<1>8. /\ PeerType' /\ FlagType' /\ CatchUpExclusive' /\ MuHolder'
  <2>1. PeerType' /\ FlagType'
    BY <1>1, <1>3, <1>4 DEF ChainInv, ChainType, PeerType, FlagType, flagVars
  <2>2. CatchUpExclusive'
    BY <1>3, <1>6, <1>7 DEF ChainInv, CatchUpExclusive
  <2>3. MuHolder'
    BY <1>3 DEF ChainInv, MuHolder
  <2>4. QED
    BY <2>1, <2>2, <2>3
<1>9. \A h \in Handlers : ann'[h] = ann[h] /\ ann[h].pc # "switch"
  BY <1>1, <1>3, NamesAssumption DEF ChainInv, MuHolder
<1>10. ASSUME NEW h \in Handlers
       PROVE  HandlerOk(ann[h])'
  <2>1. HandlerOk(ann[h])
    BY DEF ChainInv
  <2>2. QED
    BY <1>9, <2>1 DEF HandlerOk
<1>11. SessionOk(sess[p])'
  BY <1>6, <1>7 DEF SessionOk, SessShape, TargetFilter, RescanBegins, RescanGoesOn,
     CatchUpStates
<1>12. CASE best = tip[w]
  <2>1. QuietDb /\ sidechains' \in [Wallets -> SUBSET Blocks]
    BY <1>2, <1>3, <1>5, <1>12 DEF QuietDb, walletVars
  <2>2. SessionOk(s)
    BY <1>6, OutsideOk
  <2>3. QuietStep
    BY <1>7, <1>8, <1>9, <2>1, <2>2 DEF QuietStep, FlagType, CatchUpExclusive, MuHolder
  <2>4. QED
    BY <2>3, QuietStepInv
<1>13. CASE best # tip[w]
  <2>1. best \in Blocks /\ Len(best) > Len(tip[w])
    BY <1>2, <1>5, <1>13, BestChainIs
  <2>2. ChainSwitch(w, best, forest, FALSE)
    BY <1>3, <1>13
  <2> HIDE DEF best
  <2>3. MoreScanned
    BY <1>3 DEF ChainInv, ChainType, DbType, MoreScanned
  <2>4. SwitchedUnmatched(w, best) /\ SwitchStep(w, best)
    BY <1>5, <2>1, <2>2, <2>3, ChainSwitchIs DEF SwitchStep
  <2>5. /\ DbType' /\ MarkerInChain' /\ ProcessedWereScanned'
        /\ SyncedHasFilters' /\ EmptiedIsReloaded'
    BY <1>3, <2>4, SwitchKeepsDb
  <2>6. ASSUME NEW q \in Peers \ {p}
        PROVE  SessionOk(sess[q])'
    BY <1>3, <1>7, <2>4, <2>6, SwitchKeepsSession
  <2>7. QED
    BY <1>8, <1>10, <1>11, <2>5, <2>6 DEF ChainInv, ChainType
<1>14. QED
  BY <1>12, <1>13

LEMMA AnnSwitchInv ==
    ASSUME ChainInv, NEW h \in Handlers, AnnSwitch(h)
    PROVE  ChainInv'
<1> DEFINE w == ann[h].w
           best == ann[h].best
           scan == ann[h].scan
           fork == ForkPoint(best, tip[w])
           a == AnnRest(h, w)
<1>1. /\ ann \in [Handlers -> AnnRec] /\ ann[h] \in AnnRec /\ HandlerOk(ann[h])
      /\ ann[h].pc = "switch"
  BY DEF ChainInv, ChainType, PeerType, AnnSwitch
<1>2. /\ w \in Wallets /\ best \in Blocks /\ Len(best) > Len(tip[w])
      /\ scan \in BOOLEAN /\ (scan => marker[w] = tip[w])
  BY <1>1 DEF HandlerOk, AnnRec
<1>3. /\ UNCHANGED <<flagVars, catchUp, peerTip, sendHeadersSent, sess>>
      /\ ChainSwitch(w, best, sidechains[w], scan)
      /\ scanned' = [scanned EXCEPT ![w] = [b \in Blocks |->
                       IF scan /\ b \in Segment(fork, best) THEN filter[w] ELSE @[b]]]
      /\ sidechainMu' = NoPeer
      /\ currentLocators' = NoBlock
      /\ ann' = [ann EXCEPT ![h] = a]
  BY DEF AnnSwitch, Matched
<1>4. /\ a \in AnnRec /\ a.pc # "switch"
      /\ a.pc # "idle" => a.peer \in Peers /\ a.base \in Blocks /\ a.last \in Blocks
  BY <1>1, AnnRestIs
<1> HIDE DEF a, fork, w, best, scan
<1>5. DbType /\ FlagType /\ PeerType /\ MarkerInChain
  BY DEF ChainInv, ChainType
<1>6. tip[w] \in Blocks /\ marker[w] \in Blocks /\ sidechains[w] \in SUBSET Blocks
      /\ filter[w] \in {"empty", "loaded"}
  BY <1>2, <1>5 DEF DbType, FlagType
<1>7. fork \in Blocks /\ InChain(fork, best) /\ InChain(fork, tip[w])
  BY <1>2, <1>6, ForkPointIs DEF fork
<1>8. MoreScanned /\ (scan => \A c \in Blocks : c \in Segment(fork, best) =>
                                  scanned'[w][c] # "no")
  <2>1. scanned \in [Wallets -> [Blocks -> {"no", "empty", "loaded"}]]
    BY <1>5 DEF DbType
  <2>2. QED
    BY <1>2, <1>3, <1>6, <2>1 DEF MoreScanned
<1>9. /\ SwitchedTo(w, best)
      /\ scan => marker'[w] = best /\ rolledBack'[w] = rolledBack[w]
      /\ ~scan => SwitchedUnmatched(w, best)
  BY <1>2, <1>3, <1>6, <1>8, ChainSwitchIs
<1>10. ASSUME scan
       PROVE  SwitchedMatched(w, best)
  <2>1. ASSUME ~rolledBack'[w], NEW c \in Prefixes(best)
        PROVE  scanned'[w][c] # "no"
    <3>1. c \in Blocks
      BY <1>2, <2>1, PrefixesAre
    <3>2. c \in Prefixes(fork) \/ c \in Segment(fork, best)
      BY <1>2, <1>7, <2>1, SegmentCovers
    <3>3. CASE c \in Prefixes(fork)
      <4>1. c \in Prefixes(tip[w])
        BY <1>6, <1>7, <3>3, PrefixesAre, InChainTransitive
      <4>2. AllScanned(w, tip[w])
        BY <1>2, <1>9, <1>10, <2>1 DEF ChainInv, ProcessedWereScanned, AllScanned
      <4>3. QED
        BY <1>2, <1>6, <1>8, <4>1, <4>2, MoreScannedKeeps
    <3>4. CASE c \in Segment(fork, best)
      BY <1>8, <1>10, <3>1, <3>4
    <3>5. QED
      BY <3>2, <3>3, <3>4
  <2>2. QED
    BY <1>9, <1>10, <2>1 DEF SwitchedMatched
<1>11. /\ SwitchStep(w, best)
       /\ marker[w] # tip[w] => SwitchedUnmatched(w, best)
  BY <1>2, <1>9, <1>10 DEF SwitchStep
<1>12. loadedFilters[w] /\ filter[w] = "empty" => SwitchedUnmatched(w, best)
  BY <1>2, <1>11 DEF ChainInv, EmptiedIsReloaded
<1>13. /\ DbType' /\ MarkerInChain' /\ ProcessedWereScanned'
       /\ SyncedHasFilters' /\ EmptiedIsReloaded'
  BY <1>2, <1>3, <1>11, <1>12, SwitchKeepsDb
<1>14. ASSUME NEW q \in Peers
       PROVE  SessionOk(sess[q])'
  BY <1>2, <1>3, <1>11, SwitchKeepsSession
<1>15. ann'[h] = a /\ \A g \in Handlers \ {h} : ann'[g] = ann[g] /\ ann[g].pc # "switch"
  BY <1>1, <1>3 DEF ChainInv, MuHolder
<1>16. FlagType' /\ PeerType'
  BY <1>3, <1>4, <1>5 DEF FlagType, PeerType, flagVars, SomeBlock
<1>17. CatchUpExclusive' /\ MuHolder'
  <2>1. CatchUpExclusive'
    BY <1>3 DEF ChainInv, CatchUpExclusive
  <2>2. MuHolder'
    BY <1>3, <1>4, <1>15, NamesAssumption DEF MuHolder
  <2>3. QED
    BY <2>1, <2>2
<1>18. ASSUME NEW g \in Handlers
       PROVE  HandlerOk(ann[g])'
  <2>1. CASE g = h
    BY <1>4, <1>15, <2>1 DEF HandlerOk
  <2>2. CASE g # h
    <3>1. HandlerOk(ann[g]) /\ ann'[g] = ann[g] /\ ann[g].pc # "switch"
      BY <1>15, <2>2 DEF ChainInv
    <3>2. QED
      BY <3>1 DEF HandlerOk
  <2>3. QED
    BY <2>1, <2>2
<1>19. QED
  BY <1>13, <1>14, <1>16, <1>17, <1>18 DEF ChainInv, ChainType

----------------------------------------------------------------------------
(* The theorems. *)

LEMMA ChainInvStep ==
    ASSUME ChainInv, [Next]_vars
    PROVE  ChainInv'
<1>1. ASSUME NEW p \in Peers, StartupSync(p) \/ SessionStep(p) \/ LostPeer(p)
      PROVE  ChainInv'
  <2>1. ASSUME NEW w \in Wallets, ConnectHeaders(p, w) \/ CatchUpWallet(p, w)
        PROVE  ChainInv'
    BY <2>1, ConnectHeadersInv, CatchUpWalletInv
  <2>2. CASE StartupSync(p) \/ FetchHeaders(p) \/ SendHeaders(p) \/ GenerateLocators(p)
    BY <2>2, StartupSyncInv, FetchHeadersInv, SendHeadersInv, GenerateLocatorsInv
  <2>3. CASE StartupFails(p) \/ LostPeer(p) \/ RescanReorged(p) \/ CatchUpFails(p)
               \/ CatchUpDone(p)
    BY <2>3, SessionEnds, WalletGivenUp, CatchUpDoneInv
  <2>4. CASE DiscoverAndReload(p) \/ FillTxFilter(p) \/ RescanRead(p) \/ RescanBatch(p)
               \/ RescanFinished(p)
    BY <2>4, DiscoverAndReloadInv, FillTxFilterInv, RescanReadInv, RescanBatchInv,
       RescanFinishedInv
  <2>5. QED
    BY <1>1, <2>1, <2>2, <2>3, <2>4 DEF SessionStep
<1>2. ASSUME NEW p \in Peers, NEW b \in Blocks, PeerAdvance(p, b)
      PROVE  ChainInv'
  BY <1>2, PeerAdvanceInv
<1>3. ASSUME NEW h \in Handlers, AnnStep(h)
      PROVE  ChainInv'
  <2>1. ASSUME NEW w \in Wallets, AnnOrphan(h, w) \/ AnnAddBlocks(h, w)
        PROVE  ChainInv'
    BY <2>1, AnnOrphanInv, AnnAddBlocksInv
  <2>2. CASE AnnOldHeader(h) \/ AnnSwitch(h) \/ AnnFails(h)
    BY <2>2, HandlerStops, AnnSwitchInv
  <2>3. QED
    BY <1>3, <2>1, <2>2 DEF AnnStep
<1>4. CASE UNCHANGED vars
  <2>1. QuietStep
    BY <1>4 DEF vars, QuietStep, QuietDb, walletVars, flagVars, ChainInv, ChainType,
       DbType, FlagType, PeerType, CatchUpExclusive, MuHolder
  <2>2. QED
    BY <2>1, QuietStepInv
<1>5. QED
  BY <1>1, <1>2, <1>3, <1>4 DEF Next

LEMMA ChainInvHolds == Spec => []ChainInv
<1>1. Init => ChainInv
  BY InitInv
<1>2. ChainInv /\ [Next]_vars => ChainInv'
  BY ChainInvStep
<1>3. QED
  BY <1>1, <1>2, PTL DEF Spec

\* atomicCatchUpTryLock is set exactly while one startupSync is in the catch-up
\* loop, whatever fails in it.
THEOREM OneCatchUp == Spec => []CatchUpExclusive
<1>1. ChainInv => CatchUpExclusive
  BY DEF ChainInv
<1>2. QED
  BY <1>1, ChainInvHolds, PTL

\* A wallet that counts as synced has its filter loaded: a reload that failed
\* half way leaves a rescan due, and that rescan reloads.
THEOREM SyncedWalletsMatch == Spec => []SyncedHasFilters
<1>1. ChainInv => SyncedHasFilters
  BY DEF ChainInv
<1>2. QED
  BY <1>1, ChainInvHolds, PTL

\* What a wallet counts as processed was matched, by the rescan or by scanChain,
\* though both run at once and the chain is switched under the rescan.
THEOREM MarkerIsEarned == Spec => []ProcessedWereScanned
<1>1. ChainInv => ProcessedWereScanned
  BY DEF ChainInv
<1>2. QED
  BY <1>1, ChainInvHolds, PTL

\* A switch never shortens the chain of any wallet.
LEMMA TipStep ==
    ASSUME ChainInv, [Next]_vars, NEW w \in Wallets
    PROVE  Len(tip'[w]) >= Len(tip[w])
<1>1. Len(tip[w]) \in Nat /\ tip \in [Wallets -> Blocks]
  BY BlockIsSeq DEF ChainInv, ChainType, DbType
<1>2. CASE tip' = tip
  BY <1>1, <1>2
<1>3. ASSUME NEW p \in Peers, NEW v \in Wallets, ConnectHeaders(p, v)
      PROVE  Len(tip'[w]) >= Len(tip[w])
  <2> DEFINE forest == sidechains[v] \cup
                       {b \in Segment(sess[p].base, sess[p].last) : ~InChain(b, tip[v])}
             best == EvaluateBestChain(v, forest)
  <2>1. tip' = tip \/ tip' = [tip EXCEPT ![v] = best]
    BY <1>3 DEF ConnectHeaders, ChainSwitch
  <2>2. forest \in SUBSET Blocks
    <3>1. sess[p].last \in Blocks /\ sidechains[v] \in SUBSET Blocks
      BY <1>3 DEF ConnectHeaders, At, ChainInv, ChainType, DbType, SessionOk, SessShape
    <3>2. Segment(sess[p].base, sess[p].last) \subseteq Blocks
      BY <3>1, PrefixesAre DEF Segment
    <3>3. QED
      BY <3>1, <3>2
  <2>3. best = tip[v] \/ (best \in Blocks /\ Len(best) > Len(tip[v]))
    <3> HIDE DEF forest
    <3>1. QED
      BY <1>1, <1>3, <2>2, BestChainIs
  <2> HIDE DEF best
  <2>4. QED
    BY <1>1, <1>2, <2>1, <2>3, BlockIsSeq
<1>4. ASSUME NEW h \in Handlers, AnnSwitch(h)
      PROVE  Len(tip'[w]) >= Len(tip[w])
  <2>1. tip' = [tip EXCEPT ![ann[h].w] = ann[h].best]
    BY <1>4 DEF AnnSwitch, ChainSwitch
  <2>2. /\ ann[h].w \in Wallets /\ ann[h].best \in Blocks
        /\ Len(ann[h].best) > Len(tip[ann[h].w])
    BY <1>4 DEF AnnSwitch, ChainInv, HandlerOk
  <2>3. QED
    BY <1>1, <2>1, <2>2, BlockIsSeq
<1>5. tip' = tip \/ (\E p \in Peers, v \in Wallets : ConnectHeaders(p, v))
                 \/ (\E h \in Handlers : AnnSwitch(h))
  <2>1. ASSUME NEW p \in Peers, StartupSync(p) \/ SessionStep(p) \/ LostPeer(p)
        PROVE  tip' = tip \/ \E v \in Wallets : ConnectHeaders(p, v)
    BY <2>1 DEF StartupSync, SessionStep, LostPeer, FetchHeaders, SendHeaders,
       GenerateLocators, StartupFails, CatchUpWallet, DiscoverAndReload, FillTxFilter,
       RescanRead, RescanBatch, RescanFinished, RescanReorged, CatchUpFails, CatchUpDone,
       walletVars
  <2>2. ASSUME NEW p \in Peers, NEW b \in Blocks, PeerAdvance(p, b)
        PROVE  tip' = tip
    BY <2>2 DEF PeerAdvance, walletVars
  <2>3. ASSUME NEW h \in Handlers, AnnStep(h)
        PROVE  tip' = tip \/ AnnSwitch(h)
    BY <2>3 DEF AnnStep, AnnOldHeader, AnnFails, AnnOrphan, AnnAddBlocks, walletVars
  <2>4. QED
    BY <2>1, <2>2, <2>3 DEF Next, vars, walletVars
<1>6. QED
  BY <1>2, <1>3, <1>4, <1>5

\* The best chain a handler found under sidechainMu is still the better one when
\* it switches: no step shortens a wallet's main chain.
THEOREM ChainOnlyGrows == Spec => TipNeverRecedes
<1>1. ChainInv /\ [Next]_vars => [\A w \in Wallets : Len(tip'[w]) >= Len(tip[w])]_vars
  BY TipStep
<1>2. QED
  BY <1>1, ChainInvHolds, PTL DEF Spec, TipNeverRecedes
===============================================================================
