----------------------------- MODULE DaoProofs -----------------------------
(***************************************************************************)
(* The DAO realm, for every set of members and disputes and every value of *)
(* the parameters: its books of stakes add up, what weighed once weighs    *)
(* for ever, no member passes by a ballot it owes something to, and the    *)
(* ballots of a dispute go the way the core was promised.                  *)
(***************************************************************************)
EXTENDS Dao, SumProofs

-----------------------------------------------------------------------------
(* Checkpoints. *)

\* A series of points up to epoch last: the inline ones are the newest, in order.
Points(s, last) ==
  /\ DOMAIN s = DOMAIN NoPoints
  /\ s.curE \in Nat /\ s.prevE \in Nat /\ s.cur \in Int /\ s.prev \in Int
  /\ s.curE <= last
  /\ s.prevE # 0 => s.prevE < s.curE
  /\ \A x \in DOMAIN s.older : x \in Nat /\ x < s.prevE /\ s.older[x] \in Int

\* Every set of naturals that has an element and a bound has a greatest one.
LEMMA NewestIn ==
  ASSUME NEW E \in SUBSET Nat, E # {}, NEW b \in Nat, \A x \in E : x <= b
  PROVE  Newest(E) \in E /\ \A x \in E : x <= Newest(E)
<1> DEFINE T == { n \in Nat : \A x \in E : x <= n }
<1>1. b \in T /\ T \in SUBSET Nat
  OBVIOUS
<1>2. PICK n \in T : \A y \in T : n <= y
  BY <1>1, LeastNatural
<1>3. n \in E
  <2> SUFFICES ASSUME n \notin E PROVE FALSE
    OBVIOUS
  <2>1. PICK x \in E : TRUE
    OBVIOUS
  <2>2. \A y \in E : y <= n /\ y # n /\ y \in Nat
    BY <1>2
  <2>3. n \in Nat /\ n # 0 /\ n - 1 \in Nat
    BY <1>2, <2>1, <2>2
  <2>4. n - 1 \in T
    BY <2>2, <2>3
  <2> QED
    BY <1>2, <2>3, <2>4
<1>4. \A x \in E : x <= n
  BY <1>2
<1> QED
  BY <1>3, <1>4 DEF Newest

LEMMA NoPointsIn ==
  ASSUME NEW last \in Nat
  PROVE  Points(NoPoints, last) /\ \A e \in Nat : ValueAt(NoPoints, e) = 0
BY DEF Points, NoPoints, ValueAt, ArchivedTo

LEMMA PointsLater ==
  ASSUME NEW s, NEW last \in Nat, NEW later \in Nat, last <= later, Points(s, last)
  PROVE  Points(s, later)
BY DEF Points

\* An answer is one of the values that were set.
LEMMA ValueIsInt ==
  ASSUME NEW s, NEW last \in Nat, Points(s, last), NEW e \in Nat
  PROVE  ValueAt(s, e) \in Int
<1>1. CASE ArchivedTo(s, e) = {}
  BY <1>1 DEF ValueAt, Points
<1>2. CASE ArchivedTo(s, e) # {}
  <2>1. ArchivedTo(s, e) \in SUBSET Nat /\ \A x \in ArchivedTo(s, e) : x <= e /\ x \in DOMAIN s.older
    BY DEF ArchivedTo, Points
  <2>2. Newest(ArchivedTo(s, e)) \in ArchivedTo(s, e)
    BY <1>2, <2>1, NewestIn
  <2>3. s.older[Newest(ArchivedTo(s, e))] \in Int
    BY <2>1, <2>2 DEF Points
  <2> QED
    BY <1>2, <2>3 DEF ValueAt, Points
<1> QED
  BY <1>1, <1>2

\* A write of the newest epoch is one more point, and no earlier epoch answers otherwise.
LEMMA SetKeepsPoints ==
  ASSUME NEW s, NEW last \in Nat \ {0}, Points(s, last), NEW v \in Int
  PROVE  Points(SetAt(s, last, v), last) /\ SetAt(s, last, v).cur = v
<1> DEFINE t == SetAt(s, last, v)
<1>1. CASE last = s.curE \/ s.curE = 0
  <2>1. t = [s EXCEPT !.curE = last, !.cur = v]
    BY <1>1 DEF SetAt
  <2>2. /\ DOMAIN t = DOMAIN NoPoints /\ t.curE = last /\ t.cur = v
        /\ t.prevE = s.prevE /\ t.prev = s.prev /\ t.older = s.older
    BY <2>1 DEF Points, NoPoints
  <2> HIDE DEF t
  <2> QED
    BY <1>1, <2>2 DEF Points, t
<1>2. CASE ~(last = s.curE \/ s.curE = 0)
  <2> DEFINE older == [x \in DOMAIN s.older \cup {s.prevE} |-> IF x = s.prevE THEN s.prev ELSE s.older[x]]
  <2>1. t = [curE |-> last, cur |-> v, prevE |-> s.curE, prev |-> s.cur,
             older |-> IF s.prevE = 0 THEN s.older ELSE older]
    BY <1>2 DEF SetAt
  <2>2. \A x \in DOMAIN older : x \in DOMAIN s.older \cup {s.prevE}
                                /\ older[x] = IF x = s.prevE THEN s.prev ELSE s.older[x]
    OBVIOUS
  <2> HIDE DEF older
  <2>3. /\ DOMAIN t = DOMAIN NoPoints /\ t.curE = last /\ t.cur = v
        /\ t.prevE = s.curE /\ t.prev = s.cur
        /\ t.older = IF s.prevE = 0 THEN s.older ELSE older
    BY <2>1 DEF NoPoints
  <2> HIDE DEF t
  <2>4. \A x \in DOMAIN t.older : x \in Nat /\ x < t.prevE /\ t.older[x] \in Int
    <3>1. CASE s.prevE = 0
      BY <3>1, <2>3 DEF Points
    <3>2. CASE s.prevE # 0
      BY <3>2, <2>2, <2>3 DEF Points
    <3> QED
      BY <3>1, <3>2
  <2> QED
    BY <1>2, <2>3, <2>4 DEF Points, t
<1> QED
  BY <1>1, <1>2

LEMMA SetKeepsHistory ==
  ASSUME NEW s, NEW last \in Nat \ {0}, Points(s, last), NEW v \in Int, NEW e \in Nat, e < last
  PROVE  ValueAt(SetAt(s, last, v), e) = ValueAt(s, e)
<1> DEFINE t == SetAt(s, last, v)
<1>1. CASE last = s.curE \/ s.curE = 0
  <2>1. t = [s EXCEPT !.curE = last, !.cur = v]
    BY <1>1 DEF SetAt
  <2>2. /\ t.curE = last /\ t.prevE = s.prevE /\ t.prev = s.prev /\ t.older = s.older
    BY <2>1 DEF Points, NoPoints
  <2> HIDE DEF t
  <2>3. ArchivedTo(t, e) = ArchivedTo(s, e)
    BY <2>2 DEF ArchivedTo
  <2> QED
    BY <1>1, <2>2, <2>3 DEF ValueAt, Points, t
<1>2. CASE ~(last = s.curE \/ s.curE = 0)
  <2> DEFINE older == [x \in DOMAIN s.older \cup {s.prevE} |-> IF x = s.prevE THEN s.prev ELSE s.older[x]]
  <2>1. t = [curE |-> last, cur |-> v, prevE |-> s.curE, prev |-> s.cur,
             older |-> IF s.prevE = 0 THEN s.older ELSE older]
    BY <1>2 DEF SetAt
  <2>2. /\ DOMAIN older = DOMAIN s.older \cup {s.prevE}
        /\ older[s.prevE] = s.prev
        /\ \A x \in DOMAIN s.older : x # s.prevE => older[x] = s.older[x]
    OBVIOUS
  <2> HIDE DEF older
  <2>3. /\ t.curE = last /\ t.cur = v /\ t.prevE = s.curE /\ t.prev = s.cur
        /\ t.older = IF s.prevE = 0 THEN s.older ELSE older
    BY <2>1
  <2> HIDE DEF t
  <2>4. CASE e >= s.curE
    BY <1>2, <2>3, <2>4 DEF ValueAt, Points, t
  <2>5. CASE e < s.curE
    <3>1. ValueAt(t, e) = IF ArchivedTo(t, e) = {} THEN 0 ELSE t.older[Newest(ArchivedTo(t, e))]
      BY <1>2, <2>3, <2>5 DEF ValueAt, Points
    <3>2. CASE s.prevE = 0
      <4>1. ArchivedTo(t, e) = ArchivedTo(s, e) /\ t.older = s.older
        BY <2>3, <3>2 DEF ArchivedTo
      <4> QED
        BY <2>5, <3>1, <3>2, <4>1 DEF ValueAt, Points, t
    <3>3. CASE s.prevE # 0 /\ e >= s.prevE
      <4>1. t.older = older
        BY <2>3, <3>3
      <4>2. ArchivedTo(t, e) \in SUBSET Nat /\ s.prevE \in ArchivedTo(t, e) /\ \A x \in ArchivedTo(t, e) : x <= s.prevE
        BY <2>2, <3>3, <4>1 DEF ArchivedTo, Points
      <4>3. Newest(ArchivedTo(t, e)) \in ArchivedTo(t, e) /\ s.prevE <= Newest(ArchivedTo(t, e))
        <5>1. ArchivedTo(t, e) # {} /\ s.prevE \in Nat
          BY <4>2
        <5> QED
          BY <4>2, <5>1, NewestIn
      <4>4. Newest(ArchivedTo(t, e)) = s.prevE
        BY <4>2, <4>3
      <4>5. ValueAt(t, e) = s.prev
        BY <2>2, <3>1, <4>1, <4>2, <4>4
      <4>6. ValueAt(s, e) = s.prev
        BY <2>5, <3>3 DEF ValueAt, Points
      <4> QED
        BY <4>5, <4>6 DEF t
    <3>4. CASE s.prevE # 0 /\ e < s.prevE
      <4>1. t.older = older
        BY <2>3, <3>4
      <4>2. ArchivedTo(t, e) = ArchivedTo(s, e) /\ ArchivedTo(s, e) \in SUBSET Nat
            /\ \A x \in ArchivedTo(s, e) : x <= e /\ x \in DOMAIN s.older /\ x # s.prevE
        BY <2>2, <3>4, <4>1 DEF ArchivedTo, Points
      <4>3. ArchivedTo(s, e) # {} => Newest(ArchivedTo(s, e)) \in ArchivedTo(s, e)
        BY <4>2, NewestIn
      <4>4. ValueAt(s, e) = IF ArchivedTo(s, e) = {} THEN 0 ELSE s.older[Newest(ArchivedTo(s, e))]
        BY <2>5, <3>4 DEF ValueAt, Points
      <4> QED
        BY <2>2, <3>1, <4>1, <4>2, <4>3, <4>4 DEF t
    <3> QED
      BY <3>2, <3>3, <3>4 DEF Points
  <2> QED
    BY <2>4, <2>5 DEF Points
<1> QED
  BY <1>1, <1>2

-----------------------------------------------------------------------------
(* The invariant, of a store: what a handler makes of one is followed operator *)
(* by operator.                                                                *)

StoreFields == {"members", "power", "fees", "ballots", "proposals", "held", "ugnot", "pyth", "wallets", "ok"}

MemberOK(mb) ==
  /\ DOMAIN mb = DOMAIN NoMember /\ DOMAIN mb.fee = DOMAIN NoPosition
  /\ mb.known \in BOOLEAN
  /\ mb.staked \in Nat /\ mb.unbondAmount \in Nat /\ mb.pendingPyth \in Nat /\ mb.cursor \in Nat
  /\ mb.penaltyWindowAt \in Int /\ mb.penaltyInWindow \in Int
  /\ mb.fee.shares = mb.staked
  /\ mb.known = FALSE => mb.staked = 0 /\ mb.unbondAmount = 0 /\ mb.pendingPyth = 0

BallotFields ==
  {"dispute", "round", "majorRequested", "sealed", "obligated", "phase", "commitEnds", "revealEnds", "tally", "top",
   "commits", "reveals", "outcome", "tier", "coherentWeight", "expectedPool", "bondShare", "resolvedAt", "prev",
   "final", "appealed"}

BallotOK(b) ==
  /\ DOMAIN b = BallotFields
  /\ b.sealed \in 1 .. epoch
  /\ b.obligated \in Int /\ b.tally \in [BallotChoices -> Int]
  /\ b.coherentWeight \in Int /\ b.expectedPool \in Int /\ b.bondShare \in Int /\ b.resolvedAt \in Int
  /\ b.final \in BOOLEAN
  /\ \A m \in DOMAIN b.reveals : b.reveals[m].weight \in Int

BallotsOK(bs) ==
  IsSequence(bs) /\ \A seq \in DOMAIN bs : BallotOK(bs[seq]) /\ bs[seq].prev \in Nat /\ bs[seq].prev < seq

ProposalFields ==
  {"payload", "proposer", "sealed", "votingEnds", "executable", "expires", "quorumBps", "thresholdBps", "deposit",
   "status", "votes", "yes", "no", "abstain"}

ProposalsOK(ps) == IsSequence(ps) /\ \A id \in DOMAIN ps : DOMAIN ps[id] = ProposalFields /\ ps[id].payload \in Payloads

PowerOK(pw) ==
  /\ DOMAIN pw = {"series", "total"} /\ DOMAIN pw.series = Members
  /\ Points(pw.total, epoch + 1)
  /\ \A m \in Members : Points(pw.series[m], epoch + 1)

Shaped(st) ==
  /\ now \in Nat /\ epoch \in Nat \ {0}
  /\ DOMAIN st = StoreFields
  /\ DOMAIN st.members = Members /\ \A m \in Members : MemberOK(st.members[m])
  /\ PowerOK(st.power) /\ BallotsOK(st.ballots) /\ ProposalsOK(st.proposals)
  /\ DOMAIN st.fees = DOMAIN NoFees /\ DOMAIN st.held = DOMAIN NothingHeld
  /\ st.held.rewardPyth \in Nat /\ st.pyth \in Int /\ st.wallets \in [Members -> Int]

AllOf(ms, amount) == SumFunction([m \in Members |-> ms[m][amount]])

\* What is booked is the sum of what the members have, and the realm has it.
Booked(st) ==
  /\ \A m \in Members : st.power.series[m].cur = st.members[m].staked
  /\ st.held.stakedPyth = AllOf(st.members, "staked")
  /\ st.power.total.cur = st.held.stakedPyth /\ st.fees.totalShares = st.held.stakedPyth
  /\ st.held.unbondingPyth = AllOf(st.members, "unbondAmount")
  /\ st.held.pendingPyth = AllOf(st.members, "pendingPyth")
  /\ TreasuryPyth(st) >= 0

\* No member is past a ballot it weighs in whose outcome was not applied; who has not joined
\* weighs nothing.
Waited(st) ==
  \A m \in Members :
    /\ st.members[m].cursor \in 0 .. Len(st.ballots)
    /\ ~st.members[m].known => st.power.series[m] = NoPoints
    /\ st.members[m].known =>
         \A seq \in DOMAIN st.ballots :
           seq <= st.members[m].cursor /\ PowerAt(st, m, st.ballots[seq].sealed) > 0 => st.ballots[seq].final = TRUE

Sound(st) == Shaped(st) /\ Booked(st) /\ Waited(st)

\* t is sound and comes of st within a call: all past weights and all the PYTH there is are st's.
SameHistory(t, st) ==
  /\ \A m \in Members, e \in 1 .. epoch : PowerAt(t, m, e) = PowerAt(st, m, e)
  /\ \A e \in 1 .. epoch : TotalPowerAt(t, e) = TotalPowerAt(st, e)

Follows(t, st) ==
  /\ Sound(t) /\ SameHistory(t, st)
  /\ t.ballots = st.ballots /\ t.proposals = st.proposals
  /\ TotalSupply(t) = TotalSupply(st)

LEMMA FollowsOn ==
  ASSUME NEW st, NEW t, NEW u, Follows(t, st), Follows(u, t)
  PROVE  Follows(u, st)
BY DEF Follows, SameHistory

LEMMA FollowsItself ==
  ASSUME NEW st, Sound(st)
  PROVE  Follows(st, st)
BY DEF Follows, SameHistory

-----------------------------------------------------------------------------
(* Sums over the members.                                                      *)

LEMMA AllOfIsInt ==
  ASSUME NEW ms, NEW f, \A m \in Members : ms[m][f] \in Int
  PROVE  AllOf(ms, f) \in Int
<1>1. [m \in Members |-> ms[m][f]] \in [Members -> Int]
  OBVIOUS
<1> QED
  BY <1>1, SumType, MembersAssumption DEF AllOf

LEMMA AllOfSame ==
  ASSUME NEW ms, NEW ns, NEW f, \A m \in Members : ns[m][f] = ms[m][f]
  PROVE  AllOf(ns, f) = AllOf(ms, f)
BY DEF AllOf

LEMMA WalletMoved ==
  ASSUME NEW w \in [Members -> Int], NEW m \in Members, NEW d \in Int
  PROVE  /\ [w EXCEPT ![m] = @ + d] \in [Members -> Int]
         /\ SumFunction([w EXCEPT ![m] = @ + d]) = SumFunction(w) + d
         /\ SumFunction(w) \in Int
<1> DEFINE v == [w EXCEPT ![m] = @ + d]
<1>1. v \in [Members -> Int] /\ v[m] = w[m] + d /\ \A x \in Members \ {m} : v[x] = w[x]
  OBVIOUS
<1> HIDE DEF v
<1>2. SumFunction(v) = SumFunction(w) - w[m] + v[m] /\ SumFunction(w) \in Int
  BY <1>1, SumChange, SumType, MembersAssumption
<1> QED
  BY <1>1, <1>2 DEF v

LEMMA SupplyIs ==
  ASSUME NEW st, Shaped(st)
  PROVE  TotalSupply(st) = st.pyth + SumFunction(st.wallets) /\ TotalSupply(st) \in Int
<1>1. st.wallets = [m \in Members |-> st.wallets[m]]
  BY DEF Shaped
<1>2. SumFunction(st.wallets) \in Int
  BY SumType, MembersAssumption DEF Shaped
<1> QED
  BY <1>1, <1>2 DEF TotalSupply, Shaped

LEMMA BooksAreInt ==
  ASSUME NEW st, Shaped(st), Booked(st)
  PROVE  /\ st.held.stakedPyth \in Int /\ st.held.unbondingPyth \in Int /\ st.held.pendingPyth \in Int
         /\ TreasuryPyth(st) \in Int
<1>1. /\ \A m \in Members : st.members[m]["staked"] \in Int
      /\ \A m \in Members : st.members[m]["unbondAmount"] \in Int
      /\ \A m \in Members : st.members[m]["pendingPyth"] \in Int
  BY DEF Shaped, MemberOK
<1>2. /\ AllOf(st.members, "staked") \in Int /\ AllOf(st.members, "unbondAmount") \in Int
      /\ AllOf(st.members, "pendingPyth") \in Int
  BY <1>1, AllOfIsInt
<1> QED
  BY <1>2 DEF Booked, Shaped, TreasuryPyth

-----------------------------------------------------------------------------
(* What leaves stakes and rewards alone.                                       *)

SameMember(nb, mb) ==
  /\ MemberOK(nb)
  /\ nb.known = mb.known /\ nb.staked = mb.staked /\ nb.unbondAmount = mb.unbondAmount
  /\ nb.pendingPyth = mb.pendingPyth /\ nb.cursor = mb.cursor

SameHeld(h, g) ==
  /\ DOMAIN h = DOMAIN NothingHeld
  /\ h.stakedPyth = g.stakedPyth /\ h.unbondingPyth = g.unbondingPyth
  /\ h.rewardPyth = g.rewardPyth /\ h.pendingPyth = g.pendingPyth

SameFees(a, b) == DOMAIN a = DOMAIN NoFees /\ a.totalShares = b.totalShares

\* t differs from st in coins only.
CoinsOnly(t, st) ==
  /\ DOMAIN t = StoreFields
  /\ DOMAIN t.members = Members /\ \A m \in Members : SameMember(t.members[m], st.members[m])
  /\ t.power = st.power /\ t.ballots = st.ballots
  /\ SameFees(t.fees, st.fees) /\ SameHeld(t.held, st.held)
  /\ t.pyth = st.pyth /\ t.wallets = st.wallets

LEMMA CoinsAlone ==
  ASSUME NEW st, NEW t, Sound(st), CoinsOnly(t, st), ProposalsOK(t.proposals)
  PROVE  Sound(t) /\ SameHistory(t, st) /\ TotalSupply(t) = TotalSupply(st)
<1>1. Shaped(t)
  BY DEF Sound, Shaped, CoinsOnly, SameMember, SameHeld, SameFees
<1>2. /\ AllOf(t.members, "staked") = AllOf(st.members, "staked")
      /\ AllOf(t.members, "unbondAmount") = AllOf(st.members, "unbondAmount")
      /\ AllOf(t.members, "pendingPyth") = AllOf(st.members, "pendingPyth")
  <2>1. /\ \A m \in Members : t.members[m]["staked"] = st.members[m]["staked"]
        /\ \A m \in Members : t.members[m]["unbondAmount"] = st.members[m]["unbondAmount"]
        /\ \A m \in Members : t.members[m]["pendingPyth"] = st.members[m]["pendingPyth"]
    BY DEF CoinsOnly, SameMember
  <2> QED
    BY <2>1, AllOfSame
<1>3. Booked(t)
  BY <1>2 DEF Sound, Booked, CoinsOnly, SameMember, SameHeld, SameFees, TreasuryPyth
<1>4. Waited(t)
  BY DEF Sound, Waited, CoinsOnly, SameMember, PowerAt
<1>5. SameHistory(t, st)
  BY DEF SameHistory, CoinsOnly, PowerAt, TotalPowerAt
<1>6. TotalSupply(t) = TotalSupply(st)
  BY DEF TotalSupply, CoinsOnly
<1> QED
  BY <1>1, <1>3, <1>4, <1>5, <1>6 DEF Sound

LEMMA CoinsFollow ==
  ASSUME NEW st, NEW t, Sound(st), CoinsOnly(t, st), t.proposals = st.proposals
  PROVE  Follows(t, st)
BY CoinsAlone DEF Follows, Sound, Shaped, CoinsOnly

LEMMA CoinsOnlyItself ==
  ASSUME NEW st, Sound(st)
  PROVE  CoinsOnly(st, st)
BY DEF CoinsOnly, SameMember, SameHeld, SameFees, Sound, Shaped

LEMMA CoinsOnlyOn ==
  ASSUME NEW st, NEW t, NEW u, CoinsOnly(t, st), CoinsOnly(u, t)
  PROVE  CoinsOnly(u, st)
BY DEF CoinsOnly, SameMember, SameHeld, SameFees

LEMMA RequireCoins ==
  ASSUME NEW st, NEW cond, Sound(st)
  PROVE  CoinsOnly(Require(st, cond), st) /\ Require(st, cond).proposals = st.proposals
<1> DEFINE t == Require(st, cond)
<1>1. /\ DOMAIN t = StoreFields /\ t.members = st.members /\ t.power = st.power /\ t.ballots = st.ballots
      /\ t.fees = st.fees /\ t.held = st.held /\ t.pyth = st.pyth /\ t.wallets = st.wallets
      /\ t.proposals = st.proposals
  BY DEF Require, Sound, Shaped, StoreFields
<1> HIDE DEF t
<1>2. CoinsOnly(t, st)
  BY <1>1 DEF CoinsOnly, SameMember, SameHeld, SameFees, Sound, Shaped
<1> QED
  BY <1>1, <1>2 DEF t

LEMMA RequireOk ==
  ASSUME NEW st, NEW cond, Sound(st), Require(st, cond).ok
  PROVE  st.ok /\ cond
BY DEF Require, Sound, Shaped, StoreFields

LEMMA SendUgnotCoins ==
  ASSUME NEW st, NEW amount, Sound(st)
  PROVE  CoinsOnly(SendUgnot(st, amount), st) /\ SendUgnot(st, amount).proposals = st.proposals
<1> DEFINE t == SendUgnot(st, amount)
<1>1. /\ DOMAIN t = StoreFields /\ t.members = st.members /\ t.power = st.power /\ t.ballots = st.ballots
      /\ t.fees = st.fees /\ t.held = [st.held EXCEPT !.knownUgnot = @ - amount] /\ t.pyth = st.pyth
      /\ t.wallets = st.wallets /\ t.proposals = st.proposals
  BY DEF SendUgnot, Require, Sound, Shaped, StoreFields
<1> HIDE DEF t
<1>2. SameHeld(t.held, st.held)
  BY <1>1 DEF SameHeld, Sound, Shaped, NothingHeld
<1>3. CoinsOnly(t, st)
  BY <1>1, <1>2 DEF CoinsOnly, SameMember, SameFees, Sound, Shaped
<1> QED
  BY <1>1, <1>3 DEF t

LEMMA SendUgnotOk ==
  ASSUME NEW st, NEW amount, Sound(st), SendUgnot(st, amount).ok
  PROVE  st.ok
BY DEF SendUgnot, Require, Sound, Shaped, StoreFields

LEMMA FeesSyncCoins ==
  ASSUME NEW st, Sound(st)
  PROVE  CoinsOnly(FeesSync(st), st) /\ FeesSync(st).proposals = st.proposals /\ FeesSync(st).ok = st.ok
<1>1. ASSUME NEW delta, NEW share
      PROVE  LET t == FeesBumped(st, delta, share) IN
             CoinsOnly(t, st) /\ t.proposals = st.proposals /\ t.ok = st.ok
  <2> DEFINE t == FeesBumped(st, delta, share)
             bumped == Bump(st.fees, share)
  <2>1. SameFees(bumped, st.fees)
    BY DEF Bump, SameFees, Sound, Shaped, NoFees
  <2>2. t = [st EXCEPT !.fees = bumped, !.held.feeUgnot = @ + share, !.held.knownUgnot = @ + delta]
    BY DEF FeesBumped
  <2> HIDE DEF bumped
  <2>3. /\ DOMAIN t = StoreFields /\ t.members = st.members /\ t.power = st.power /\ t.ballots = st.ballots
        /\ t.fees = bumped /\ t.held = [st.held EXCEPT !.feeUgnot = @ + share, !.knownUgnot = @ + delta]
        /\ t.pyth = st.pyth /\ t.wallets = st.wallets /\ t.proposals = st.proposals /\ t.ok = st.ok
    BY <2>2 DEF Sound, Shaped, StoreFields
  <2> HIDE DEF t
  <2>4. SameHeld(t.held, st.held)
    BY <2>3 DEF SameHeld, Sound, Shaped, NothingHeld
  <2>5. CoinsOnly(t, st)
    BY <2>1, <2>3, <2>4 DEF CoinsOnly, SameMember, Sound, Shaped
  <2> QED
    BY <2>3, <2>5 DEF t
<1> QED
  BY <1>1, CoinsOnlyItself DEF FeesSync

LEMMA FeesSyncFollows ==
  ASSUME NEW st, Sound(st)
  PROVE  Follows(FeesSync(st), st) /\ FeesSync(st).ok = st.ok
BY FeesSyncCoins, CoinsFollow

-----------------------------------------------------------------------------
(* What moves the stake, the unbonding or the rewards of one member.           *)

\* In qw the power of m is v from the next epoch on, and else nothing changed since pw.
Raised(qw, pw, m, v) ==
  /\ PowerOK(qw)
  /\ qw.series[m].cur = v /\ qw.total.cur = pw.total.cur - pw.series[m].cur + v
  /\ \A x \in Members \ {m} : qw.series[x] = pw.series[x]
  /\ \A x \in Members, e \in 1 .. epoch : ValueAt(qw.series[x], e) = ValueAt(pw.series[x], e)
  /\ \A e \in 1 .. epoch : ValueAt(qw.total, e) = ValueAt(pw.total, e)

LEMMA BookSetPower ==
  ASSUME NEW pw, NEW m \in Members, NEW v \in Int, epoch \in Nat \ {0}, PowerOK(pw),
         NEW qw, qw = BookSet(pw, m, epoch + 1, v)
  PROVE  Raised(qw, pw, m, v)
<1> DEFINE s == SetAt(pw.series[m], epoch + 1, v)
           w == pw.total.cur - pw.series[m].cur + v
           u == SetAt(pw.total, epoch + 1, w)
<1>1. qw = [pw EXCEPT !.series[m] = s, !.total = u]
  BY DEF BookSet
<1>2. epoch + 1 \in Nat \ {0} /\ w \in Int
  BY DEF PowerOK, Points
<1>3. Points(pw.series[m], epoch + 1) /\ Points(pw.total, epoch + 1)
  BY DEF PowerOK
<1>4. Points(s, epoch + 1) /\ s.cur = v
  BY <1>2, <1>3, SetKeepsPoints
<1>5. Points(u, epoch + 1) /\ u.cur = w
  <2> HIDE DEF w
  <2> QED
    BY <1>2, <1>3, SetKeepsPoints
<1>6. \A e \in 1 .. epoch : ValueAt(s, e) = ValueAt(pw.series[m], e)
  BY <1>2, <1>3, SetKeepsHistory
<1>7. \A e \in 1 .. epoch : ValueAt(u, e) = ValueAt(pw.total, e)
  <2> HIDE DEF w
  <2> QED
    BY <1>2, <1>3, SetKeepsHistory
<1> HIDE DEF s, u
<1>8. /\ DOMAIN qw = {"series", "total"} /\ DOMAIN qw.series = Members
      /\ qw.total = u /\ qw.series[m] = s /\ \A x \in Members \ {m} : qw.series[x] = pw.series[x]
  BY <1>1 DEF PowerOK
<1>9. PowerOK(qw)
  BY <1>4, <1>5, <1>8 DEF PowerOK
<1>10. \A x \in Members, e \in 1 .. epoch : ValueAt(qw.series[x], e) = ValueAt(pw.series[x], e)
  BY <1>6, <1>8
<1> QED
  BY <1>4, <1>5, <1>7, <1>8, <1>9, <1>10 DEF Raised

\* Whether the power follows the stake, or neither changes.
PowerFollows(t, st, m, stake) ==
  \/ t.power = BookSet(st.power, m, epoch + 1, stake)
  \/ t.power = st.power /\ stake = st.members[m].staked

\* The books of t are those of st after stake, unbonding and rewards of a member changed.
Rebooked(t, st, a, b, c) ==
  /\ DOMAIN t = StoreFields /\ t.ballots = st.ballots /\ t.proposals = st.proposals
  /\ DOMAIN t.fees = DOMAIN NoFees /\ t.fees.totalShares = st.fees.totalShares + a
  /\ DOMAIN t.held = DOMAIN NothingHeld
  /\ t.held.stakedPyth = st.held.stakedPyth + a
  /\ t.held.unbondingPyth = st.held.unbondingPyth + b
  /\ t.held.pendingPyth = st.held.pendingPyth + c
  /\ t.held.rewardPyth \in Nat /\ t.pyth \in Int /\ t.wallets \in [Members -> Int]

\* Nobody's record but m's changed, and m's by these amounts.
MemberRebooked(t, st, m, a, b, c) ==
  LET nb == t.members[m]
      mb == st.members[m]
  IN /\ DOMAIN t.members = Members /\ \A x \in Members \ {m} : t.members[x] = st.members[x]
     /\ MemberOK(nb) /\ mb.known = TRUE /\ nb.known = TRUE /\ nb.cursor = mb.cursor
     /\ nb.staked = mb.staked + a /\ nb.unbondAmount = mb.unbondAmount + b /\ nb.pendingPyth = mb.pendingPyth + c

LEMMA MemberMoved ==
  ASSUME NEW st, NEW t, Sound(st), NEW m \in Members, NEW a \in Int, NEW b \in Int, NEW c \in Int,
         Rebooked(t, st, a, b, c), MemberRebooked(t, st, m, a, b, c),
         PowerFollows(t, st, m, t.members[m].staked), TreasuryPyth(t) >= 0
  PROVE  Sound(t) /\ SameHistory(t, st)
<1> DEFINE mb == t.members[m]
<1>1. /\ DOMAIN t.members = Members /\ t.members[m] = mb
      /\ \A x \in Members \ {m} : t.members[x] = st.members[x]
  BY DEF MemberRebooked
<1>0. /\ MemberOK(mb) /\ st.members[m].known = TRUE /\ mb.known = TRUE /\ mb.cursor = st.members[m].cursor
      /\ mb.staked = st.members[m].staked + a /\ mb.unbondAmount = st.members[m].unbondAmount + b
      /\ mb.pendingPyth = st.members[m].pendingPyth + c /\ PowerFollows(t, st, m, mb.staked)
  BY DEF MemberRebooked
<1> HIDE DEF mb
<1>2. /\ PowerOK(t.power)
      /\ t.power.series[m].cur = mb.staked /\ t.power.total.cur = st.power.total.cur + a
      /\ \A x \in Members \ {m} : t.power.series[x] = st.power.series[x]
      /\ SameHistory(t, st)
  <2>1. CASE t.power = BookSet(st.power, m, epoch + 1, mb.staked)
    <3>1. PowerOK(st.power) /\ epoch \in Nat \ {0} /\ mb.staked \in Int
      BY <1>0 DEF Sound, Shaped, MemberOK
    <3>2. /\ PowerOK(t.power)
          /\ t.power.series[m].cur = mb.staked
          /\ t.power.total.cur = st.power.total.cur - st.power.series[m].cur + mb.staked
          /\ \A x \in Members \ {m} : t.power.series[x] = st.power.series[x]
          /\ \A x \in Members, e \in 1 .. epoch : ValueAt(t.power.series[x], e) = ValueAt(st.power.series[x], e)
          /\ \A e \in 1 .. epoch : ValueAt(t.power.total, e) = ValueAt(st.power.total, e)
      <4> DEFINE v == mb.staked
                 pw == st.power
                 qw == t.power
      <4>1. v \in Int /\ epoch \in Nat \ {0} /\ PowerOK(pw) /\ qw = BookSet(pw, m, epoch + 1, v)
        BY ONLY <2>1, <3>1
      <4> HIDE DEF v, pw, qw
      <4>2. Raised(qw, pw, m, v)
        BY ONLY <4>1, BookSetPower
      <4> QED
        BY ONLY <4>2 DEF v, pw, qw, Raised
    <3>3. st.power.series[m].cur = st.members[m].staked /\ st.members[m].staked \in Int /\ st.power.total.cur \in Int
      BY <3>1 DEF Sound, Booked, Shaped, MemberOK, PowerOK, Points
    <3> QED
      BY <1>0, <3>2, <3>3 DEF SameHistory, PowerAt, TotalPowerAt
  <2>2. CASE t.power = st.power /\ mb.staked = st.members[m].staked
    <3>1. a = 0
      <4>1. st.members[m].staked \in Nat
        BY DEF Sound, Shaped, MemberOK
      <4> QED
        BY <1>0, <2>2, <4>1
    <3>2. st.power.total.cur \in Int
      BY DEF Sound, Shaped, PowerOK, Points
    <3> QED
      BY <1>0, <2>2, <3>1, <3>2 DEF Sound, Shaped, Booked, SameHistory, PowerAt, TotalPowerAt
  <2> QED
    BY <1>0, <2>1, <2>2 DEF PowerFollows
<1>3. Shaped(t)
  BY <1>0, <1>1, <1>2 DEF Sound, Shaped, Rebooked
<1>4. AllOf(t.members, "staked") = AllOf(st.members, "staked") + a
  <2> DEFINE F == [x \in Members |-> st.members[x]["staked"]]
             G == [x \in Members |-> t.members[x]["staked"]]
  <2>1. \A x \in Members : st.members[x].staked \in Int /\ t.members[x].staked \in Int
    BY <1>0, <1>1 DEF Sound, Shaped, MemberOK
  <2>2. F \in [Members -> Int] /\ G \in [Members -> Int]
    BY <2>1
  <2>3. G[m] = F[m] + a /\ \A x \in Members \ {m} : G[x] = F[x]
    BY <1>0, <1>1
  <2>4. AllOf(t.members, "staked") = SumFunction(G) /\ AllOf(st.members, "staked") = SumFunction(F)
    BY DEF AllOf
  <2> HIDE DEF F, G
  <2>5. SumFunction(G) = SumFunction(F) - F[m] + G[m] /\ SumFunction(F) \in Int
    BY <2>2, <2>3, SumChange, SumType, MembersAssumption
  <2> QED
    BY <2>2, <2>3, <2>4, <2>5
<1>5. AllOf(t.members, "unbondAmount") = AllOf(st.members, "unbondAmount") + b
  <2> DEFINE F == [x \in Members |-> st.members[x]["unbondAmount"]]
             G == [x \in Members |-> t.members[x]["unbondAmount"]]
  <2>1. \A x \in Members : st.members[x].unbondAmount \in Int /\ t.members[x].unbondAmount \in Int
    BY <1>0, <1>1 DEF Sound, Shaped, MemberOK
  <2>2. F \in [Members -> Int] /\ G \in [Members -> Int]
    BY <2>1
  <2>3. G[m] = F[m] + b /\ \A x \in Members \ {m} : G[x] = F[x]
    BY <1>0, <1>1
  <2>4. AllOf(t.members, "unbondAmount") = SumFunction(G) /\ AllOf(st.members, "unbondAmount") = SumFunction(F)
    BY DEF AllOf
  <2> HIDE DEF F, G
  <2>5. SumFunction(G) = SumFunction(F) - F[m] + G[m] /\ SumFunction(F) \in Int
    BY <2>2, <2>3, SumChange, SumType, MembersAssumption
  <2> QED
    BY <2>2, <2>3, <2>4, <2>5
<1>6. AllOf(t.members, "pendingPyth") = AllOf(st.members, "pendingPyth") + c
  <2> DEFINE F == [x \in Members |-> st.members[x]["pendingPyth"]]
             G == [x \in Members |-> t.members[x]["pendingPyth"]]
  <2>1. \A x \in Members : st.members[x].pendingPyth \in Int /\ t.members[x].pendingPyth \in Int
    BY <1>0, <1>1 DEF Sound, Shaped, MemberOK
  <2>2. F \in [Members -> Int] /\ G \in [Members -> Int]
    BY <2>1
  <2>3. G[m] = F[m] + c /\ \A x \in Members \ {m} : G[x] = F[x]
    BY <1>0, <1>1
  <2>4. AllOf(t.members, "pendingPyth") = SumFunction(G) /\ AllOf(st.members, "pendingPyth") = SumFunction(F)
    BY DEF AllOf
  <2> HIDE DEF F, G
  <2>5. SumFunction(G) = SumFunction(F) - F[m] + G[m] /\ SumFunction(F) \in Int
    BY <2>2, <2>3, SumChange, SumType, MembersAssumption
  <2> QED
    BY <2>2, <2>3, <2>4, <2>5
<1>7. Booked(t)
  <2>1. \A x \in Members : t.power.series[x].cur = t.members[x].staked
    BY <1>0, <1>1, <1>2 DEF Sound, Booked
  <2> QED
    BY <2>1, <1>2, <1>4, <1>5, <1>6 DEF Sound, Booked, Rebooked
<1>8. Waited(t)
  <2> SUFFICES ASSUME NEW x \in Members
               PROVE  /\ t.members[x].cursor \in 0 .. Len(t.ballots)
                      /\ ~t.members[x].known => t.power.series[x] = NoPoints
                      /\ t.members[x].known =>
                           \A seq \in DOMAIN t.ballots :
                             seq <= t.members[x].cursor /\ PowerAt(t, x, t.ballots[seq].sealed) > 0
                               => t.ballots[seq].final = TRUE
    BY DEF Waited
  <2>1. t.members[x].cursor = st.members[x].cursor /\ t.members[x].known = st.members[x].known /\ t.ballots = st.ballots
    BY <1>0, <1>1 DEF Rebooked
  <2>2. ~t.members[x].known => t.power.series[x] = st.power.series[x]
    BY <1>0, <1>1, <1>2
  <2>3. \A seq \in DOMAIN t.ballots : PowerAt(t, x, t.ballots[seq].sealed) = PowerAt(st, x, st.ballots[seq].sealed)
    BY <1>2, <2>1 DEF SameHistory, Sound, Shaped, BallotsOK, BallotOK
  <2> QED
    BY <2>1, <2>2, <2>3 DEF Sound, Waited
<1> QED
  BY <1>2, <1>3, <1>7, <1>8 DEF Sound

LEMMA PowerSetIs ==
  ASSUME NEW st, NEW m, DOMAIN st = StoreFields, NEW t, t = PowerSet(st, m)
  PROVE  /\ DOMAIN t = StoreFields
         /\ t.power = BookSet(st.power, m, epoch + 1, st.members[m].staked)
         /\ t.members = st.members /\ t.fees = st.fees /\ t.ballots = st.ballots /\ t.proposals = st.proposals
         /\ t.held = st.held /\ t.ugnot = st.ugnot /\ t.pyth = st.pyth /\ t.wallets = st.wallets
         /\ t.ok => st.ok
BY DEF PowerSet, Require, StoreFields, CanSet

\* What a change of shares leaves of a record, and of the tables.
SameButFee(nb, mb) ==
  /\ DOMAIN nb = DOMAIN NoMember /\ DOMAIN nb.fee = DOMAIN NoPosition
  /\ nb.known = mb.known /\ nb.staked = mb.staked /\ nb.unbondAmount = mb.unbondAmount
  /\ nb.pendingPyth = mb.pendingPyth /\ nb.cursor = mb.cursor
  /\ nb.penaltyWindowAt = mb.penaltyWindowAt /\ nb.penaltyInWindow = mb.penaltyInWindow

OtherTables(t, st) ==
  /\ DOMAIN t = StoreFields
  /\ t.ballots = st.ballots /\ t.proposals = st.proposals /\ t.pyth = st.pyth /\ t.wallets = st.wallets

OtherMembers(t, st, m) == DOMAIN t.members = Members /\ \A x \in Members \ {m} : t.members[x] = st.members[x]

LEMMA ResharedIs ==
  ASSUME NEW st, Shaped(st), NEW m \in Members, NEW shares, NEW r, r = Reshared(st, m, shares)
  PROVE  /\ OtherTables(r, st) /\ r.power = st.power /\ r.held = st.held /\ r.ok = st.ok
         /\ OtherMembers(r, st, m) /\ SameButFee(r.members[m], st.members[m]) /\ r.members[m].fee.shares = shares
         /\ DOMAIN r.fees = DOMAIN NoFees
         /\ r.fees.totalShares = st.fees.totalShares + shares - st.members[m].fee.shares
<1> DEFINE fee == Holding(st.fees, st.members[m].fee, shares)
           rebased == Rebased(st.fees, st.members[m].fee, shares)
<1>1. r = [st EXCEPT !.fees = rebased, !.members[m].fee = fee]
  BY DEF Reshared
<1>2. DOMAIN fee = DOMAIN NoPosition /\ fee.shares = shares
  BY DEF Holding, SettledPosition, Shaped, MemberOK, NoPosition
<1>3. /\ DOMAIN rebased = DOMAIN NoFees
      /\ rebased.totalShares = st.fees.totalShares + shares - st.members[m].fee.shares
  BY DEF Rebased, PaidTo, Shaped, NoFees
<1> HIDE DEF fee, rebased
<1>4. /\ DOMAIN r = StoreFields /\ r.fees = rebased /\ r.members = [st.members EXCEPT ![m].fee = fee]
      /\ r.ballots = st.ballots /\ r.proposals = st.proposals /\ r.pyth = st.pyth /\ r.wallets = st.wallets
      /\ r.power = st.power /\ r.held = st.held /\ r.ok = st.ok
  BY <1>1 DEF Shaped, StoreFields
<1>5. OtherMembers(r, st, m) /\ r.members[m] = [st.members[m] EXCEPT !.fee = fee]
  BY <1>4 DEF Shaped, OtherMembers
<1>6. SameButFee(r.members[m], st.members[m]) /\ r.members[m].fee = fee
  BY <1>2, <1>5 DEF SameButFee, Shaped, MemberOK, NoMember
<1> QED
  BY <1>2, <1>3, <1>4, <1>5, <1>6 DEF OtherTables

LEMMA JoinedFollows ==
  ASSUME NEW st, Sound(st), NEW m \in Members
  PROVE  /\ Follows(Joined(st, m), st) /\ Joined(st, m).members[m].known = TRUE
         /\ Joined(st, m).ok = st.ok
<1>1. CASE st.members[m].known
  <2>1. st.members[m].known \in BOOLEAN
    BY DEF Sound, Shaped, MemberOK
  <2> QED
    BY <1>1, <2>1, FollowsItself DEF Joined
<1>2. CASE ~st.members[m].known
  <2> DEFINE t == Joined(st, m)
             mb == [NoMember EXCEPT !.known = TRUE, !.penaltyWindowAt = now, !.cursor = Len(st.ballots)]
  <2>1. t = [st EXCEPT !.members[m] = mb]
    BY <1>2 DEF Joined
  <2>2. Len(st.ballots) \in Nat /\ DOMAIN st.ballots = 1 .. Len(st.ballots)
    BY SequenceDomain DEF Sound, Shaped, BallotsOK
  <2>3. /\ MemberOK(mb) /\ mb.known = TRUE /\ mb.staked = 0 /\ mb.unbondAmount = 0 /\ mb.pendingPyth = 0
        /\ mb.cursor = Len(st.ballots)
    BY <2>2 DEF MemberOK, NoMember, NoPosition, Sound, Shaped
  <2> HIDE DEF mb
  <2>4. /\ DOMAIN t = StoreFields /\ t.members = [st.members EXCEPT ![m] = mb]
        /\ t.power = st.power /\ t.fees = st.fees /\ t.ballots = st.ballots /\ t.proposals = st.proposals
        /\ t.held = st.held /\ t.pyth = st.pyth /\ t.wallets = st.wallets /\ t.ok = st.ok
    BY <2>1 DEF Sound, Shaped, StoreFields
  <2> HIDE DEF t
  <2>5. /\ DOMAIN t.members = Members /\ t.members[m] = mb /\ \A x \in Members \ {m} : t.members[x] = st.members[x]
    BY <2>4 DEF Sound, Shaped
  <2>6. st.members[m].staked = 0 /\ st.members[m].unbondAmount = 0 /\ st.members[m].pendingPyth = 0
    BY <1>2 DEF Sound, Shaped, MemberOK
  <2>7. Shaped(t)
    BY <2>3, <2>4, <2>5 DEF Sound, Shaped
  <2>8. Booked(t)
    <3>1. \A x \in Members : /\ t.members[x]["staked"] = st.members[x]["staked"]
                             /\ t.members[x]["unbondAmount"] = st.members[x]["unbondAmount"]
                             /\ t.members[x]["pendingPyth"] = st.members[x]["pendingPyth"]
      BY <2>3, <2>5, <2>6
    <3>2. /\ AllOf(t.members, "staked") = AllOf(st.members, "staked")
          /\ AllOf(t.members, "unbondAmount") = AllOf(st.members, "unbondAmount")
          /\ AllOf(t.members, "pendingPyth") = AllOf(st.members, "pendingPyth")
      BY <3>1 DEF AllOf
    <3> QED
      BY <2>4, <3>1, <3>2 DEF Sound, Booked, TreasuryPyth
  <2>9. Waited(t)
    <3>1. \A e \in Nat : PowerAt(st, m, e) = 0
      BY <1>2, NoPointsIn DEF Sound, Waited, PowerAt
    <3>2. \A x \in Members, e \in Nat : PowerAt(t, x, e) = PowerAt(st, x, e)
      BY <2>4 DEF PowerAt
    <3>3. \A seq \in DOMAIN st.ballots : st.ballots[seq].sealed \in Nat
      BY DEF Sound, Shaped, BallotsOK, BallotOK
    <3>4. ASSUME NEW x \in Members \ {m}
          PROVE  /\ t.members[x].cursor \in 0 .. Len(t.ballots)
                 /\ ~t.members[x].known => t.power.series[x] = NoPoints
                 /\ t.members[x].known =>
                      \A seq \in DOMAIN t.ballots :
                        seq <= t.members[x].cursor /\ PowerAt(t, x, t.ballots[seq].sealed) > 0
                          => t.ballots[seq].final = TRUE
      BY <2>4, <2>5, <3>2, <3>3 DEF Sound, Waited
    <3>5. /\ t.members[m].cursor \in 0 .. Len(t.ballots) /\ t.members[m].known = TRUE
          /\ \A seq \in DOMAIN t.ballots : PowerAt(t, m, t.ballots[seq].sealed) = 0
      BY <2>2, <2>3, <2>4, <2>5, <3>1, <3>2, <3>3
    <3>6. /\ t.members[m].cursor \in 0 .. Len(t.ballots)
          /\ ~t.members[m].known => t.power.series[m] = NoPoints
          /\ t.members[m].known =>
               \A seq \in DOMAIN t.ballots :
                 seq <= t.members[m].cursor /\ PowerAt(t, m, t.ballots[seq].sealed) > 0
                   => t.ballots[seq].final = TRUE
      BY <3>5
    <3> QED
      BY <3>4, <3>6 DEF Waited
  <2>10. SameHistory(t, st) /\ TotalSupply(t) = TotalSupply(st)
    BY <2>4 DEF SameHistory, PowerAt, TotalPowerAt, TotalSupply
  <2> QED
    BY <2>3, <2>4, <2>5, <2>7, <2>8, <2>9, <2>10 DEF Follows, Sound, t
<1> QED
  BY <1>1, <1>2

LEMMA MemberStakeFollows ==
  ASSUME NEW st, Sound(st), NEW m \in Members, NEW amount \in Nat, MemberStake(st, m, amount).ok
  PROVE  Follows(MemberStake(st, m, amount), st) /\ st.ok
<1> DEFINE j == Joined(FeesSync(st), m)
           w == PullPyth(j, m, amount)
           r == Reshared(w, m, w.members[m].fee.shares + amount)
           s == Staked(w, m, amount)
           t == PowerSet(s, m)
<1>1. t = MemberStake(st, m, amount)
  BY DEF MemberStake
<1>2. Follows(j, st) /\ j.members[m].known = TRUE /\ j.ok = st.ok
  <2> DEFINE f == FeesSync(st)
  <2>1. Follows(f, st) /\ f.ok = st.ok
    BY FeesSyncFollows
  <2> HIDE DEF f
  <2>2. Sound(f)
    BY <2>1 DEF Follows
  <2>3. Follows(Joined(f, m), f) /\ Joined(f, m).members[m].known = TRUE /\ Joined(f, m).ok = f.ok
    BY <2>2, JoinedFollows
  <2>4. j = Joined(f, m)
    BY DEF f
  <2> QED
    BY <2>1, <2>3, <2>4, FollowsOn
<1>3. Sound(j)
  BY <1>2 DEF Follows
<1> HIDE DEF j
<1>4. /\ DOMAIN w = StoreFields /\ w.members = j.members /\ w.power = j.power /\ w.fees = j.fees
      /\ w.ballots = j.ballots /\ w.proposals = j.proposals /\ w.held = j.held /\ w.pyth = j.pyth + amount
      /\ w.wallets = [j.wallets EXCEPT ![m] = @ - amount] /\ (w.ok => j.ok)
  BY <1>3 DEF PullPyth, Require, Sound, Shaped, StoreFields
<1>5. /\ w.pyth \in Int /\ w.wallets \in [Members -> Int] /\ SumFunction(w.wallets) = SumFunction(j.wallets) - amount
      /\ SumFunction(j.wallets) \in Int
  <2>1. j.wallets \in [Members -> Int] /\ -amount \in Int /\ j.pyth \in Int
    BY <1>3 DEF Sound, Shaped
  <2>2. w.wallets = [j.wallets EXCEPT ![m] = @ + -amount]
    BY <1>4, <2>1
  <2>3. /\ w.wallets \in [Members -> Int] /\ SumFunction(w.wallets) = SumFunction(j.wallets) + -amount
        /\ SumFunction(j.wallets) \in Int
    BY <2>1, <2>2, WalletMoved
  <2> QED
    BY <1>4, <2>1, <2>3
<1> HIDE DEF w
<1>6. Shaped(w)
  BY <1>3, <1>4, <1>5 DEF Sound, Shaped
<1>7. /\ OtherTables(r, w) /\ r.power = w.power /\ r.held = w.held /\ r.ok = w.ok
      /\ OtherMembers(r, w, m) /\ SameButFee(r.members[m], w.members[m])
      /\ r.members[m].fee.shares = w.members[m].fee.shares + amount
      /\ DOMAIN r.fees = DOMAIN NoFees
      /\ r.fees.totalShares = w.fees.totalShares + (w.members[m].fee.shares + amount) - w.members[m].fee.shares
  <2> DEFINE sh == w.members[m].fee.shares + amount
  <2>1. r = Reshared(w, m, sh)
    OBVIOUS
  <2> HIDE DEF sh, r
  <2>2. /\ OtherTables(r, w) /\ r.power = w.power /\ r.held = w.held /\ r.ok = w.ok
        /\ OtherMembers(r, w, m) /\ SameButFee(r.members[m], w.members[m])
        /\ r.members[m].fee.shares = sh
        /\ DOMAIN r.fees = DOMAIN NoFees
        /\ r.fees.totalShares = w.fees.totalShares + sh - w.members[m].fee.shares
    BY ONLY <1>6, <2>1, ResharedIs
  <2> QED
    BY ONLY <2>2 DEF sh
<1> HIDE DEF r
<1>8. /\ DOMAIN s = StoreFields /\ s.ballots = r.ballots /\ s.proposals = r.proposals /\ s.power = r.power
      /\ s.fees = r.fees /\ s.pyth = r.pyth /\ s.wallets = r.wallets /\ s.ok = r.ok
      /\ s.members = [r.members EXCEPT ![m].staked = @ + amount]
      /\ s.held = [r.held EXCEPT !.stakedPyth = @ + amount]
  <2>1. s = [r EXCEPT !.members[m].staked = @ + amount, !.held.stakedPyth = @ + amount]
    BY DEF Staked, r
  <2> QED
    BY <1>7, <2>1 DEF OtherTables, StoreFields
<1> HIDE DEF s
<1>9. /\ t.ok => s.ok
      /\ DOMAIN t = StoreFields
      /\ t.power = BookSet(s.power, m, epoch + 1, s.members[m].staked)
      /\ t.members = s.members /\ t.fees = s.fees /\ t.ballots = s.ballots /\ t.proposals = s.proposals
      /\ t.held = s.held /\ t.pyth = s.pyth /\ t.wallets = s.wallets
  <2>1. t.ok
    BY <1>1
  <2>2. t = PowerSet(s, m)
    OBVIOUS
  <2>3. DOMAIN s = StoreFields
    BY <1>8
  <2> HIDE DEF t
  <2> QED
    BY <2>1, <2>2, <2>3, PowerSetIs
<1> HIDE DEF t
<1>10. /\ OtherMembers(t, j, m)
       /\ t.members[m] = [r.members[m] EXCEPT !.staked = @ + amount]
  BY <1>4, <1>7, <1>8, <1>9 DEF OtherMembers
<1>11. MemberRebooked(t, j, m, amount, 0, 0)
  <2>1. MemberOK(j.members[m]) /\ j.members[m].known = TRUE
    BY <1>2, <1>3 DEF Sound, Shaped
  <2>2. SameButFee(r.members[m], j.members[m]) /\ r.members[m].fee.shares = j.members[m].fee.shares + amount
    BY <1>4, <1>7
  <2>3. MemberOK(t.members[m])
    BY <1>10, <2>1, <2>2 DEF MemberOK, SameButFee, NoMember
  <2>4. /\ t.members[m].known = TRUE /\ t.members[m].cursor = j.members[m].cursor
        /\ t.members[m].staked = j.members[m].staked + amount
        /\ t.members[m].unbondAmount = j.members[m].unbondAmount + 0
        /\ t.members[m].pendingPyth = j.members[m].pendingPyth + 0
    BY <1>10, <2>1, <2>2 DEF MemberOK, SameButFee, NoMember
  <2> QED
    BY <1>10, <2>1, <2>3, <2>4 DEF MemberRebooked, OtherMembers
<1>12. Rebooked(t, j, amount, 0, 0)
  <2>1. /\ DOMAIN t.held = DOMAIN NothingHeld /\ t.held.stakedPyth = j.held.stakedPyth + amount
        /\ t.held.unbondingPyth = j.held.unbondingPyth /\ t.held.pendingPyth = j.held.pendingPyth
        /\ t.held.rewardPyth = j.held.rewardPyth
    BY <1>3, <1>4, <1>7, <1>8, <1>9 DEF Sound, Shaped, NothingHeld
  <2>2. t.fees.totalShares = j.fees.totalShares + amount
    <3>1. j.members[m].fee.shares \in Int /\ j.fees.totalShares \in Int
      <4>1. Shaped(j) /\ Booked(j)
        BY <1>3 DEF Sound
      <4>2. j.held.stakedPyth \in Int
        BY <4>1, BooksAreInt
      <4>3. j.fees.totalShares = j.held.stakedPyth
        BY <4>1 DEF Booked
      <4>4. j.members[m].fee.shares \in Int
        BY <4>1 DEF Shaped, MemberOK
      <4> QED
        BY <4>2, <4>3, <4>4
    <3> QED
      BY <1>4, <1>7, <1>8, <1>9, <3>1
  <2>3. j.held.unbondingPyth \in Int /\ j.held.pendingPyth \in Int
    BY <1>3, BooksAreInt DEF Sound
  <2> QED
    BY <1>3, <1>4, <1>5, <1>7, <1>8, <1>9, <2>1, <2>2, <2>3 DEF Rebooked, OtherTables, Sound, Shaped
<1>13. TreasuryPyth(t) >= 0
  <2>1. /\ t.held.stakedPyth = j.held.stakedPyth + amount
        /\ t.held.unbondingPyth = j.held.unbondingPyth /\ t.held.rewardPyth = j.held.rewardPyth
        /\ t.pyth = j.pyth + amount
    BY <1>3, <1>4, <1>7, <1>8, <1>9 DEF Sound, Shaped, NothingHeld, OtherTables
  <2>2. TreasuryPyth(j) >= 0 /\ j.held.stakedPyth \in Int /\ j.held.unbondingPyth \in Int /\ j.held.rewardPyth \in Int
        /\ j.pyth \in Int
    BY <1>3, BooksAreInt DEF Sound, Booked, Shaped
  <2> QED
    BY <2>1, <2>2 DEF TreasuryPyth
<1>14. PowerFollows(t, j, m, t.members[m].staked)
  BY <1>4, <1>7, <1>8, <1>9 DEF PowerFollows
<1>15. Sound(t) /\ SameHistory(t, j)
  BY <1>3, <1>11, <1>12, <1>13, <1>14, MemberMoved
<1>16. TotalSupply(t) = TotalSupply(j)
  <2>1. TotalSupply(t) = t.pyth + SumFunction(t.wallets) /\ TotalSupply(j) = j.pyth + SumFunction(j.wallets)
    BY <1>3, <1>15, SupplyIs DEF Sound
  <2>2. j.pyth \in Int
    BY <1>3 DEF Sound, Shaped
  <2> QED
    BY <1>4, <1>5, <1>7, <1>8, <1>9, <2>1, <2>2 DEF OtherTables
<1>17. Follows(t, j)
  BY <1>12, <1>15, <1>16 DEF Follows, Rebooked
<1> QED
  BY <1>1, <1>2, <1>4, <1>7, <1>8, <1>9, <1>17, FollowsOn

\* Moved within the realm, the PYTH there is stays the same; so when d of it goes to a wallet.
LEMMA MovedFollows ==
  ASSUME NEW st, NEW t, Sound(st), NEW m \in Members, NEW a \in Int, NEW b \in Int, NEW c \in Int, NEW d \in Int,
         Rebooked(t, st, a, b, c), MemberRebooked(t, st, m, a, b, c),
         PowerFollows(t, st, m, t.members[m].staked), TreasuryPyth(t) >= 0,
         t.pyth = st.pyth - d, SumFunction(t.wallets) = SumFunction(st.wallets) + d
  PROVE  Follows(t, st)
<1>1. Sound(t) /\ SameHistory(t, st)
  BY MemberMoved
<1>2. TotalSupply(t) = TotalSupply(st)
  <2>1. TotalSupply(t) = t.pyth + SumFunction(t.wallets) /\ TotalSupply(st) = st.pyth + SumFunction(st.wallets)
    BY <1>1, SupplyIs DEF Sound
  <2>2. st.pyth \in Int /\ SumFunction(st.wallets) \in Int
    <3>1. st.pyth \in Int /\ st.wallets \in [Members -> Int]
      BY DEF Sound, Shaped
    <3> QED
      BY <3>1, SumType, MembersAssumption
  <2> QED
    BY <2>1, <2>2
<1> QED
  BY <1>1, <1>2 DEF Follows, Rebooked

LEMMA RequireFollows ==
  ASSUME NEW st, NEW cond, Sound(st)
  PROVE  Follows(Require(st, cond), st) /\ (Require(st, cond).ok => st.ok /\ cond)
BY RequireCoins, CoinsFollow, RequireOk

\* A call keeps who has joined.
KnownKept(t, st) == \A m \in Members : st.members[m].known = TRUE => t.members[m].known = TRUE

LEMMA CoinsKnown ==
  ASSUME NEW st, NEW t, CoinsOnly(t, st)
  PROVE  KnownKept(t, st) /\ \A m \in Members : /\ t.members[m].staked = st.members[m].staked
                                                /\ t.members[m].unbondAmount = st.members[m].unbondAmount
                                                /\ t.members[m].cursor = st.members[m].cursor
BY DEF CoinsOnly, SameMember, KnownKept

LEMMA UnstakedFollows ==
  ASSUME NEW st, Sound(st), NEW m \in Members, st.members[m].known = TRUE,
         NEW amount \in Nat, amount <= st.members[m].staked, NEW readyAt,
         NEW t, t = PowerSet(Unstaked(st, m, amount, readyAt), m), t.ok
  PROVE  Follows(t, st) /\ st.ok
<1> DEFINE r == Reshared(st, m, st.members[m].fee.shares - amount)
           u == Unstaked(st, m, amount, readyAt)
<1>1. /\ OtherTables(r, st) /\ r.power = st.power /\ r.held = st.held /\ r.ok = st.ok
      /\ OtherMembers(r, st, m) /\ SameButFee(r.members[m], st.members[m])
      /\ r.members[m].fee.shares = st.members[m].fee.shares - amount
      /\ DOMAIN r.fees = DOMAIN NoFees
      /\ r.fees.totalShares = st.fees.totalShares + (st.members[m].fee.shares - amount) - st.members[m].fee.shares
  <2> DEFINE sh == st.members[m].fee.shares - amount
  <2>1. r = Reshared(st, m, sh)
    OBVIOUS
  <2>2. Shaped(st)
    BY DEF Sound
  <2> HIDE DEF sh, r
  <2>3. /\ OtherTables(r, st) /\ r.power = st.power /\ r.held = st.held /\ r.ok = st.ok
        /\ OtherMembers(r, st, m) /\ SameButFee(r.members[m], st.members[m])
        /\ r.members[m].fee.shares = sh
        /\ DOMAIN r.fees = DOMAIN NoFees
        /\ r.fees.totalShares = st.fees.totalShares + sh - st.members[m].fee.shares
    BY ONLY <2>1, <2>2, ResharedIs
  <2> QED
    BY ONLY <2>3 DEF sh
<1>2. /\ DOMAIN u = StoreFields /\ u.ballots = r.ballots /\ u.proposals = r.proposals /\ u.power = r.power
      /\ u.fees = r.fees /\ u.pyth = r.pyth /\ u.wallets = r.wallets /\ u.ok = r.ok
      /\ u.members = [r.members EXCEPT ![m].staked = @ - amount, ![m].unbondAmount = @ + amount,
                                       ![m].unbondReadyAt = readyAt]
      /\ u.held = [r.held EXCEPT !.stakedPyth = @ - amount, !.unbondingPyth = @ + amount]
  <2>1. u = [r EXCEPT !.members[m].staked = @ - amount, !.members[m].unbondAmount = @ + amount,
                      !.members[m].unbondReadyAt = readyAt,
                      !.held.stakedPyth = @ - amount, !.held.unbondingPyth = @ + amount]
    BY DEF Unstaked, r
  <2> HIDE DEF r, u
  <2> QED
    BY <1>1, <2>1 DEF OtherTables, StoreFields
<1> HIDE DEF r
<1>3. /\ t.ok => u.ok
      /\ DOMAIN t = StoreFields
      /\ t.power = BookSet(u.power, m, epoch + 1, u.members[m].staked)
      /\ t.members = u.members /\ t.fees = u.fees /\ t.ballots = u.ballots /\ t.proposals = u.proposals
      /\ t.held = u.held /\ t.pyth = u.pyth /\ t.wallets = u.wallets
  <2>1. DOMAIN u = StoreFields
    BY <1>2
  <2>2. t = PowerSet(u, m)
    OBVIOUS
  <2> HIDE DEF u
  <2> QED
    BY <2>1, <2>2, PowerSetIs
<1> HIDE DEF u
<1>4. /\ OtherMembers(t, st, m)
      /\ t.members[m] = [r.members[m] EXCEPT !.staked = @ - amount, !.unbondAmount = @ + amount,
                                             !.unbondReadyAt = readyAt]
  <2> DEFINE mb == [r.members[m] EXCEPT !.staked = @ - amount, !.unbondAmount = @ + amount,
                                        !.unbondReadyAt = readyAt]
  <2>1. DOMAIN r.members = Members /\ \A x \in Members \ {m} : r.members[x] = st.members[x]
    BY <1>1 DEF OtherMembers
  <2>2. t.members = [r.members EXCEPT ![m].staked = @ - amount, ![m].unbondAmount = @ + amount,
                                      ![m].unbondReadyAt = readyAt]
    BY <1>2, <1>3
  <2>3. OtherMembers(t, st, m) /\ t.members[m] = mb
    BY <2>1, <2>2 DEF OtherMembers
  <2> QED
    BY <2>3 DEF mb
<1>5. MemberRebooked(t, st, m, -amount, amount, 0)
  <2>1. MemberOK(st.members[m])
    BY DEF Sound, Shaped
  <2>2. SameButFee(r.members[m], st.members[m]) /\ r.members[m].fee.shares = st.members[m].fee.shares - amount
    BY <1>1
  <2>3. MemberOK(t.members[m])
    BY <1>4, <2>1, <2>2 DEF MemberOK, SameButFee, NoMember
  <2>4. /\ t.members[m].known = TRUE /\ t.members[m].cursor = st.members[m].cursor
        /\ t.members[m].staked = st.members[m].staked + -amount
        /\ t.members[m].unbondAmount = st.members[m].unbondAmount + amount
        /\ t.members[m].pendingPyth = st.members[m].pendingPyth + 0
    BY <1>4, <2>1, <2>2 DEF MemberOK, SameButFee, NoMember
  <2> QED
    BY <1>4, <2>1, <2>3, <2>4 DEF MemberRebooked, OtherMembers
<1>6. /\ DOMAIN t.held = DOMAIN NothingHeld /\ t.held.stakedPyth = st.held.stakedPyth - amount
      /\ t.held.unbondingPyth = st.held.unbondingPyth + amount /\ t.held.pendingPyth = st.held.pendingPyth
      /\ t.held.rewardPyth = st.held.rewardPyth
  <2>1. DOMAIN st.held = DOMAIN NothingHeld
    BY DEF Sound, Shaped
  <2>2. t.held = [st.held EXCEPT !.stakedPyth = @ - amount, !.unbondingPyth = @ + amount]
    BY ONLY <1>1, <1>2, <1>3
  <2> QED
    BY ONLY <2>1, <2>2 DEF NothingHeld
<1>7. /\ st.held.stakedPyth \in Int /\ st.held.unbondingPyth \in Int /\ st.held.pendingPyth \in Int
      /\ st.held.rewardPyth \in Int /\ st.pyth \in Int /\ st.fees.totalShares \in Int
      /\ st.members[m].fee.shares \in Int
  <2>1. Shaped(st) /\ Booked(st)
    BY DEF Sound
  <2>2. st.held.stakedPyth \in Int /\ st.held.unbondingPyth \in Int /\ st.held.pendingPyth \in Int
    BY <2>1, BooksAreInt
  <2>3. st.fees.totalShares = st.held.stakedPyth
    BY <2>1 DEF Booked
  <2>4. st.held.rewardPyth \in Int /\ st.pyth \in Int /\ st.members[m].fee.shares \in Int
    BY <2>1 DEF Shaped, MemberOK
  <2> QED
    BY <2>2, <2>3, <2>4
<1>8. Rebooked(t, st, -amount, amount, 0)
  <2>1. t.fees.totalShares = st.fees.totalShares + -amount /\ DOMAIN t.fees = DOMAIN NoFees
    <3>1. t.fees = r.fees
      BY ONLY <1>2, <1>3
    <3> QED
      BY ONLY <1>1, <1>7, <3>1, amount \in Nat
  <2>2. /\ t.held.stakedPyth = st.held.stakedPyth + -amount
        /\ t.held.unbondingPyth = st.held.unbondingPyth + amount /\ t.held.pendingPyth = st.held.pendingPyth + 0
    BY <1>6, <1>7
  <2> QED
    <3>1. t.ballots = st.ballots /\ t.proposals = st.proposals /\ t.pyth = st.pyth /\ t.wallets = st.wallets
      BY ONLY <1>1, <1>2, <1>3 DEF OtherTables
    <3>2. st.held.rewardPyth \in Nat /\ st.pyth \in Int /\ st.wallets \in [Members -> Int]
      BY DEF Sound, Shaped
    <3> QED
      BY ONLY <1>3, <1>6, <2>1, <2>2, <3>1, <3>2 DEF Rebooked
<1>9. TreasuryPyth(t) >= 0
  <2>1. TreasuryPyth(st) >= 0 /\ t.pyth = st.pyth
    BY <1>1, <1>2, <1>3 DEF Sound, Booked, OtherTables
  <2> QED
    BY <1>6, <1>7, <2>1 DEF TreasuryPyth
<1>10. PowerFollows(t, st, m, t.members[m].staked)
  <2>1. t.power = BookSet(st.power, m, epoch + 1, t.members[m].staked)
    BY ONLY <1>1, <1>2, <1>3
  <2> QED
    BY ONLY <2>1 DEF PowerFollows
<1>11. t.pyth = st.pyth - 0 /\ SumFunction(t.wallets) = SumFunction(st.wallets) + 0
  <2>1. t.pyth = st.pyth /\ t.wallets = st.wallets
    BY <1>1, <1>2, <1>3 DEF OtherTables
  <2>2. SumFunction(st.wallets) \in Int
    BY SumType, MembersAssumption DEF Sound, Shaped
  <2> QED
    BY <1>7, <2>1, <2>2
<1>12. -amount \in Int /\ amount \in Int
  OBVIOUS
<1>13. Follows(t, st)
  <2> DEFINE n == -amount
  <2>1. n \in Int /\ Rebooked(t, st, n, amount, 0) /\ MemberRebooked(t, st, m, n, amount, 0)
    BY <1>5, <1>8, <1>12
  <2> HIDE DEF n
  <2> QED
    BY <1>9, <1>10, <1>11, <1>12, <2>1, MovedFollows
<1> QED
  BY <1>1, <1>2, <1>3, <1>13

LEMMA MemberUnstakeFollows ==
  ASSUME NEW st, Sound(st), NEW m \in Members, st.members[m].known = TRUE, NEW amount \in Nat, NEW readyAt,
         NEW t, t = MemberUnstake(st, m, amount, readyAt), t.ok
  PROVE  Follows(t, st) /\ st.ok
<1> DEFINE cond == amount <= st.members[m].staked /\ st.members[m].unbondAmount = 0
           q == Require(st, cond)
           f == FeesSync(q)
<1>1. t = PowerSet(Unstaked(f, m, amount, readyAt), m)
  BY DEF MemberUnstake
<1>2. Follows(q, st) /\ CoinsOnly(q, st) /\ (q.ok => st.ok /\ cond)
  BY RequireFollows, RequireCoins
<1>3. Sound(q)
  BY <1>2 DEF Follows
<1> HIDE DEF q
<1>4. Follows(f, q) /\ CoinsOnly(f, q) /\ f.ok = q.ok
  BY <1>3, FeesSyncFollows, FeesSyncCoins
<1>5. Sound(f)
  BY <1>4 DEF Follows
<1> HIDE DEF f
<1>6. f.members[m].known = TRUE /\ f.members[m].staked = st.members[m].staked
  <2>1. q.members[m].known = TRUE /\ q.members[m].staked = st.members[m].staked
    BY <1>2, CoinsKnown DEF KnownKept
  <2>2. f.members[m].known = TRUE /\ f.members[m].staked = q.members[m].staked
    BY <1>4, <2>1, CoinsKnown DEF KnownKept
  <2> QED
    BY <2>1, <2>2
<1>7. f.ok
  <2> DEFINE r == Reshared(f, m, f.members[m].fee.shares - amount)
             u == Unstaked(f, m, amount, readyAt)
  <2>1. Shaped(f) /\ t = PowerSet(u, m)
    BY <1>1, <1>5 DEF Sound
  <2>2. r.ok = f.ok /\ DOMAIN r = StoreFields
    BY <2>1, ResharedIs DEF OtherTables
  <2>3. u = [r EXCEPT !.members[m].staked = @ - amount, !.members[m].unbondAmount = @ + amount,
                      !.members[m].unbondReadyAt = readyAt,
                      !.held.stakedPyth = @ - amount, !.held.unbondingPyth = @ + amount]
    BY DEF Unstaked
  <2> HIDE DEF r, u
  <2>4. DOMAIN u = StoreFields /\ u.ok = r.ok
    BY <2>2, <2>3 DEF StoreFields
  <2>5. u.ok
    BY <2>1, <2>4, PowerSetIs
  <2> QED
    BY <2>2, <2>4, <2>5
<1>8. amount <= f.members[m].staked
  BY <1>2, <1>4, <1>6, <1>7
<1>9. Follows(t, f)
  BY <1>1, <1>5, <1>6, <1>8, UnstakedFollows
<1> QED
  BY <1>2, <1>4, <1>7, <1>9, FollowsOn

\* What every amount in the books of a sound store is.
LEMMA AmountsAre ==
  ASSUME NEW st, Sound(st), NEW m \in Members
  PROVE  /\ st.held.stakedPyth \in Int /\ st.held.unbondingPyth \in Int /\ st.held.pendingPyth \in Int
         /\ st.held.rewardPyth \in Nat /\ st.pyth \in Int /\ st.fees.totalShares \in Int
         /\ st.members[m].staked \in Nat /\ st.members[m].unbondAmount \in Nat /\ st.members[m].pendingPyth \in Nat
         /\ st.members[m].fee.shares = st.members[m].staked
         /\ st.wallets \in [Members -> Int] /\ SumFunction(st.wallets) \in Int
         /\ TreasuryPyth(st) \in Int /\ TreasuryPyth(st) >= 0
<1>1. Shaped(st) /\ Booked(st)
  BY DEF Sound
<1>2. st.held.stakedPyth \in Int /\ st.held.unbondingPyth \in Int /\ st.held.pendingPyth \in Int
      /\ TreasuryPyth(st) \in Int
  BY <1>1, BooksAreInt
<1>3. st.fees.totalShares = st.held.stakedPyth /\ TreasuryPyth(st) >= 0
  BY <1>1 DEF Booked
<1>4. st.held.rewardPyth \in Nat /\ st.pyth \in Int /\ st.wallets \in [Members -> Int]
      /\ MemberOK(st.members[m])
  BY <1>1 DEF Shaped
<1>5. SumFunction(st.wallets) \in Int
  BY <1>4, SumType, MembersAssumption
<1> QED
  BY <1>2, <1>3, <1>4, <1>5 DEF MemberOK

\* Coins sent to a member's wallet.
LEMMA SendPythIs ==
  ASSUME NEW st, NEW m, NEW amount, m \in Members, amount \in Int, DOMAIN st = StoreFields,
         st.wallets \in [Members -> Int], NEW t, t = SendPyth(st, m, amount), t.ok
  PROVE  /\ st.ok /\ DOMAIN t = StoreFields
         /\ t.members = st.members /\ t.power = st.power /\ t.fees = st.fees /\ t.ballots = st.ballots
         /\ t.proposals = st.proposals /\ t.held = st.held /\ t.pyth = st.pyth - amount
         /\ t.wallets \in [Members -> Int] /\ SumFunction(t.wallets) = SumFunction(st.wallets) + amount
<1>1. /\ st.ok /\ DOMAIN t = StoreFields
      /\ t.members = st.members /\ t.power = st.power /\ t.fees = st.fees /\ t.ballots = st.ballots
      /\ t.proposals = st.proposals /\ t.held = st.held /\ t.pyth = st.pyth - amount
      /\ t.wallets = [st.wallets EXCEPT ![m] = @ + amount]
  BY DEF SendPyth, Require, StoreFields
<1>2. t.wallets \in [Members -> Int] /\ SumFunction(t.wallets) = SumFunction(st.wallets) + amount
  BY <1>1, WalletMoved
<1> QED
  BY <1>1, <1>2

LEMMA MemberPayUnbondedFollows ==
  ASSUME NEW st, Sound(st), NEW m \in Members, st.members[m].known = TRUE,
         NEW t, t = MemberPayUnbonded(st, m), t.ok
  PROVE  Follows(t, st) /\ st.ok
<1> DEFINE amount == st.members[m].unbondAmount
           u == [st EXCEPT !.members[m].unbondAmount = 0, !.held.unbondingPyth = @ - amount]
<1>1. t = SendPyth(u, m, amount)
  BY DEF MemberPayUnbonded
<1>2. amount \in Nat
  BY AmountsAre
<1>3. /\ DOMAIN u = StoreFields /\ u.power = st.power /\ u.fees = st.fees /\ u.ballots = st.ballots
      /\ u.proposals = st.proposals /\ u.pyth = st.pyth /\ u.wallets = st.wallets /\ u.ok = st.ok
      /\ u.members = [st.members EXCEPT ![m].unbondAmount = 0]
      /\ u.held = [st.held EXCEPT !.unbondingPyth = @ - amount]
  BY DEF Sound, Shaped, StoreFields
<1> HIDE DEF u
<1>4. /\ u.ok /\ DOMAIN t = StoreFields
      /\ t.members = u.members /\ t.power = u.power /\ t.fees = u.fees /\ t.ballots = u.ballots
      /\ t.proposals = u.proposals /\ t.held = u.held /\ t.pyth = u.pyth - amount
      /\ t.wallets \in [Members -> Int] /\ SumFunction(t.wallets) = SumFunction(u.wallets) + amount
  <2> HIDE DEF amount
  <2>1. u.wallets \in [Members -> Int] /\ amount \in Int /\ DOMAIN u = StoreFields
    BY <1>2, <1>3, AmountsAre
  <2> QED
    BY <1>1, <2>1, SendPythIs
<1>5. /\ DOMAIN t.members = Members /\ \A x \in Members \ {m} : t.members[x] = st.members[x]
      /\ t.members[m] = [st.members[m] EXCEPT !.unbondAmount = 0]
  BY <1>3, <1>4 DEF Sound, Shaped
<1> DEFINE d == -amount
<1>6. MemberRebooked(t, st, m, 0, d, 0)
  <2>1. MemberOK(st.members[m])
    BY DEF Sound, Shaped
  <2>2. MemberOK(t.members[m])
    BY <1>5, <2>1 DEF MemberOK, NoMember
  <2>3. /\ t.members[m].known = TRUE /\ t.members[m].cursor = st.members[m].cursor
        /\ t.members[m].staked = st.members[m].staked + 0
        /\ t.members[m].unbondAmount = st.members[m].unbondAmount + d
        /\ t.members[m].pendingPyth = st.members[m].pendingPyth + 0
    BY <1>5, <2>1 DEF MemberOK, NoMember
  <2> QED
    BY <1>5, <2>2, <2>3 DEF MemberRebooked
<1>7. /\ DOMAIN t.held = DOMAIN NothingHeld /\ t.held.stakedPyth = st.held.stakedPyth
      /\ t.held.unbondingPyth = st.held.unbondingPyth - amount /\ t.held.pendingPyth = st.held.pendingPyth
      /\ t.held.rewardPyth = st.held.rewardPyth
  BY <1>3, <1>4 DEF Sound, Shaped, NothingHeld
<1>8. /\ st.held.stakedPyth \in Int /\ st.held.unbondingPyth \in Int /\ st.held.pendingPyth \in Int
      /\ st.held.rewardPyth \in Nat /\ st.pyth \in Int /\ st.fees.totalShares \in Int
      /\ TreasuryPyth(st) \in Int /\ TreasuryPyth(st) >= 0
  BY AmountsAre
<1>9. Rebooked(t, st, 0, d, 0)
  <2>1. t.fees = st.fees /\ DOMAIN t.fees = DOMAIN NoFees /\ t.pyth \in Int
    BY <1>2, <1>3, <1>4, <1>8 DEF Sound, Shaped
  <2>2. t.ballots = st.ballots /\ t.proposals = st.proposals
    BY <1>3, <1>4
  <2> QED
    BY <1>2, <1>4, <1>7, <1>8, <2>1, <2>2 DEF Rebooked
<1>10. TreasuryPyth(t) >= 0
  <2>1. t.pyth = st.pyth - amount
    BY <1>3, <1>4
  <2> QED
    BY <1>2, <1>7, <1>8, <2>1 DEF TreasuryPyth
<1>11. PowerFollows(t, st, m, t.members[m].staked)
  BY <1>3, <1>4, <1>5 DEF PowerFollows, Sound, Shaped, MemberOK, NoMember
<1>12. d \in Int /\ t.pyth = st.pyth - amount /\ SumFunction(t.wallets) = SumFunction(st.wallets) + amount
  BY <1>2, <1>3, <1>4
<1> HIDE DEF d, amount
<1>13. Follows(t, st)
  BY <1>2, <1>6, <1>9, <1>10, <1>11, <1>12, MovedFollows
<1> QED
  BY <1>3, <1>4, <1>13

-----------------------------------------------------------------------------
(* Penalties and rewards.                                                      *)

\* What settlement and payment leave of a member besides the sound books: who it is, and where
\* its cursor stands.
Keeps(t, st, m) ==
  Follows(t, st) /\ t.members[m].known = TRUE /\ t.members[m].cursor = st.members[m].cursor

LEMMA TakenKeeps ==
  ASSUME NEW st, Sound(st), NEW m, m \in Members, st.members[m].known = TRUE,
         NEW a, a \in Nat, a <= st.members[m].staked, NEW b, b \in Nat, b <= st.members[m].unbondAmount,
         NEW toTreasury, NEW t, t = Taken(st, m, a, b, toTreasury)
  PROVE  Keeps(t, st, m) /\ (t.ok => st.ok)
<1> DEFINE r == IF a > 0 THEN Reshared(st, m, st.members[m].fee.shares - a) ELSE st
           u == [r EXCEPT !.members[m].staked = @ - a, !.members[m].unbondAmount = @ - b,
                          !.held.stakedPyth = @ - a, !.held.unbondingPyth = @ - b,
                          !.held.rewardPyth = IF toTreasury THEN @ ELSE @ + a + b]
<1>1. /\ st.held.stakedPyth \in Int /\ st.held.unbondingPyth \in Int /\ st.held.pendingPyth \in Int
      /\ st.held.rewardPyth \in Nat /\ st.pyth \in Int /\ st.fees.totalShares \in Int
      /\ st.members[m].staked \in Nat /\ st.members[m].unbondAmount \in Nat
      /\ st.members[m].fee.shares = st.members[m].staked
      /\ st.wallets \in [Members -> Int] /\ SumFunction(st.wallets) \in Int
      /\ TreasuryPyth(st) \in Int /\ TreasuryPyth(st) >= 0
  BY AmountsAre
<1>2. Shaped(st)
  BY DEF Sound
<1>3. /\ OtherTables(r, st) /\ r.power = st.power /\ r.held = st.held /\ r.ok = st.ok
      /\ OtherMembers(r, st, m) /\ SameButFee(r.members[m], st.members[m])
      /\ r.members[m].fee.shares = st.members[m].fee.shares - a
      /\ DOMAIN r.fees = DOMAIN NoFees
      /\ r.fees.totalShares = st.fees.totalShares - a
  <2>1. CASE a > 0
    <3> DEFINE shares == st.members[m].fee.shares - a
    <3>1. r = Reshared(st, m, shares)
      BY <2>1
    <3>2. shares \in Int /\ st.fees.totalShares + shares - st.members[m].fee.shares = st.fees.totalShares - a
      BY <1>1
    <3> HIDE DEF r
    <3>3. /\ OtherTables(r, st) /\ r.power = st.power /\ r.held = st.held /\ r.ok = st.ok
          /\ OtherMembers(r, st, m) /\ SameButFee(r.members[m], st.members[m]) /\ r.members[m].fee.shares = shares
          /\ DOMAIN r.fees = DOMAIN NoFees
          /\ r.fees.totalShares = st.fees.totalShares + shares - st.members[m].fee.shares
      <4> HIDE DEF shares
      <4> QED
        BY <1>2, <3>1, ResharedIs
    <3> QED
      BY <3>2, <3>3
  <2>2. CASE ~(a > 0)
    <3>1. a = 0 /\ r = st
      BY <2>2
    <3>2. MemberOK(st.members[m])
      BY <1>2 DEF Shaped
    <3>3. SameButFee(st.members[m], st.members[m])
      BY <3>2 DEF SameButFee, MemberOK
    <3>4. OtherTables(st, st) /\ OtherMembers(st, st, m) /\ DOMAIN st.fees = DOMAIN NoFees
      BY <1>2 DEF Shaped, OtherTables, OtherMembers
    <3>5. st.members[m].fee.shares = st.members[m].fee.shares - a /\ st.fees.totalShares = st.fees.totalShares - a
      BY <1>1, <3>1
    <3> QED
      BY <3>1, <3>3, <3>4, <3>5
  <2> QED
    BY <2>1, <2>2
<1>4. t = PowerSet(u, m)
  BY DEF Taken
<1> HIDE DEF r
<1>5. /\ DOMAIN u = StoreFields /\ u.ballots = r.ballots /\ u.proposals = r.proposals /\ u.power = r.power
      /\ u.fees = r.fees /\ u.pyth = r.pyth /\ u.wallets = r.wallets /\ u.ok = r.ok
      /\ u.members = [r.members EXCEPT ![m].staked = @ - a, ![m].unbondAmount = @ - b]
      /\ u.held = [r.held EXCEPT !.stakedPyth = @ - a, !.unbondingPyth = @ - b,
                                 !.rewardPyth = IF toTreasury THEN @ ELSE @ + a + b]
  BY <1>3 DEF OtherTables, StoreFields
<1> HIDE DEF u
<1>6. /\ t.ok => u.ok
      /\ DOMAIN t = StoreFields
      /\ t.power = BookSet(u.power, m, epoch + 1, u.members[m].staked)
      /\ t.members = u.members /\ t.fees = u.fees /\ t.ballots = u.ballots /\ t.proposals = u.proposals
      /\ t.held = u.held /\ t.pyth = u.pyth /\ t.wallets = u.wallets
  <2>1. DOMAIN u = StoreFields
    BY <1>5
  <2> QED
    BY <1>4, <2>1, PowerSetIs
<1>7. OtherMembers(t, st, m) /\ t.members[m] = [r.members[m] EXCEPT !.staked = @ - a, !.unbondAmount = @ - b]
  <2>1. DOMAIN r.members = Members /\ \A x \in Members \ {m} : r.members[x] = st.members[x]
    BY <1>3 DEF OtherMembers
  <2>2. t.members = [r.members EXCEPT ![m].staked = @ - a, ![m].unbondAmount = @ - b]
    BY <1>5, <1>6
  <2> QED
    BY <2>1, <2>2 DEF OtherMembers
<1>8. /\ MemberOK(t.members[m]) /\ t.members[m].known = TRUE /\ t.members[m].cursor = st.members[m].cursor
      /\ t.members[m].staked = st.members[m].staked - a
      /\ t.members[m].unbondAmount = st.members[m].unbondAmount - b
      /\ t.members[m].pendingPyth = st.members[m].pendingPyth
  <2>1. MemberOK(st.members[m])
    BY <1>2 DEF Shaped
  <2>2. SameButFee(r.members[m], st.members[m]) /\ r.members[m].fee.shares = st.members[m].fee.shares - a
    BY <1>3
  <2> QED
    BY <1>1, <1>7, <2>1, <2>2 DEF MemberOK, SameButFee, NoMember
<1>9. /\ DOMAIN t.held = DOMAIN NothingHeld /\ t.held.stakedPyth = st.held.stakedPyth - a
      /\ t.held.unbondingPyth = st.held.unbondingPyth - b /\ t.held.pendingPyth = st.held.pendingPyth
      /\ t.held.rewardPyth = IF toTreasury THEN st.held.rewardPyth ELSE st.held.rewardPyth + a + b
  BY <1>2, <1>3, <1>5, <1>6 DEF Shaped, NothingHeld
<1> DEFINE c == -a
           d == -b
<1>10. MemberRebooked(t, st, m, c, d, 0)
  <2>1. st.members[m].pendingPyth \in Nat
    BY AmountsAre
  <2>2. /\ t.members[m].staked = st.members[m].staked + c
        /\ t.members[m].unbondAmount = st.members[m].unbondAmount + d
        /\ t.members[m].pendingPyth = st.members[m].pendingPyth + 0
    BY <1>1, <1>8, <2>1
  <2> QED
    BY <1>7, <1>8, <2>2 DEF MemberRebooked, OtherMembers
<1>11. Rebooked(t, st, c, d, 0)
  <2>1. t.fees.totalShares = st.fees.totalShares + c /\ DOMAIN t.fees = DOMAIN NoFees
    BY <1>1, <1>3, <1>5, <1>6
  <2>2. /\ t.held.stakedPyth = st.held.stakedPyth + c /\ t.held.rewardPyth \in Nat
        /\ t.held.unbondingPyth = st.held.unbondingPyth + d /\ t.held.pendingPyth = st.held.pendingPyth + 0
    BY <1>1, <1>9
  <2>3. t.ballots = st.ballots /\ t.proposals = st.proposals /\ t.pyth = st.pyth /\ t.wallets = st.wallets
    BY <1>3, <1>5, <1>6 DEF OtherTables
  <2> QED
    BY <1>1, <1>6, <1>9, <2>1, <2>2, <2>3 DEF Rebooked
<1>12. TreasuryPyth(t) >= 0
  <2>1. t.pyth = st.pyth
    BY <1>3, <1>5, <1>6 DEF OtherTables
  <2>2. t.held.rewardPyth \in Int /\ t.held.rewardPyth <= st.held.rewardPyth + a + b
    BY <1>1, <1>9
  <2> QED
    BY <1>1, <1>9, <2>1, <2>2 DEF TreasuryPyth
<1>13. PowerFollows(t, st, m, t.members[m].staked)
  BY <1>3, <1>5, <1>6 DEF PowerFollows
<1>14. t.pyth = st.pyth - 0 /\ SumFunction(t.wallets) = SumFunction(st.wallets) + 0
  <2>1. t.pyth = st.pyth /\ t.wallets = st.wallets
    BY <1>3, <1>5, <1>6 DEF OtherTables
  <2> QED
    BY <1>1, <2>1
<1>15. c \in Int /\ d \in Int
  OBVIOUS
<1> HIDE DEF c, d
<1>16. Follows(t, st)
  BY <1>10, <1>11, <1>12, <1>13, <1>14, <1>15, MovedFollows
<1> QED
  BY <1>3, <1>5, <1>6, <1>8, <1>16 DEF Keeps

LEMMA KeepsOn ==
  ASSUME NEW st, NEW t, NEW u, NEW m, Keeps(t, st, m), Keeps(u, t, m)
  PROVE  Keeps(u, st, m)
BY FollowsOn DEF Keeps

\* It does, and a call that had panicked still has.
Kept(t, st, m) == Keeps(t, st, m) /\ (t.ok => st.ok)

LEMMA FeesSyncKeeps ==
  ASSUME NEW st, Sound(st), NEW m, m \in Members, st.members[m].known = TRUE
  PROVE  Keeps(FeesSync(st), st, m) /\ FeesSync(st).ok = st.ok
         /\ FeesSync(st).members[m].staked = st.members[m].staked
         /\ FeesSync(st).members[m].unbondAmount = st.members[m].unbondAmount
<1> DEFINE f == FeesSync(st)
<1>1. Follows(f, st) /\ CoinsOnly(f, st) /\ f.ok = st.ok
  BY FeesSyncFollows, FeesSyncCoins
<1> HIDE DEF f
<1>2. f.members[m].known = TRUE /\ f.members[m].cursor = st.members[m].cursor
      /\ f.members[m].staked = st.members[m].staked /\ f.members[m].unbondAmount = st.members[m].unbondAmount
  <2>1. KnownKept(f, st) /\ \A x \in Members : /\ f.members[x].staked = st.members[x].staked
                                               /\ f.members[x].unbondAmount = st.members[x].unbondAmount
                                               /\ f.members[x].cursor = st.members[x].cursor
    BY ONLY <1>1, CoinsKnown
  <2>2. m \in Members /\ st.members[m].known = TRUE
    OBVIOUS
  <2> QED
    BY ONLY <2>1, <2>2 DEF KnownKept
<1> QED
  BY <1>1, <1>2 DEF Keeps, f

LEMMA MemberPenaliseKeeps ==
  ASSUME NEW st, Sound(st), NEW m, m \in Members, st.members[m].known = TRUE, NEW amount, amount \in Int,
         NEW toTreasury, NEW t, t = MemberPenalise(st, m, amount, toTreasury)
  PROVE  Kept(t, st, m)
<1> DEFINE a == Lesser(amount, st.members[m].staked)
           b == Lesser(amount - a, st.members[m].unbondAmount)
           f == FeesSync(st)
<1>1. st.members[m].staked \in Nat /\ st.members[m].unbondAmount \in Nat
  BY AmountsAre
<1>2. /\ Keeps(f, st, m) /\ f.ok = st.ok
      /\ f.members[m].staked = st.members[m].staked /\ f.members[m].unbondAmount = st.members[m].unbondAmount
  BY FeesSyncKeeps
<1>3. CASE amount <= 0
  BY <1>3, FollowsItself DEF MemberPenalise, Keeps, Kept
<1>4. CASE amount > 0 /\ a + b = 0
  <2>1. t = f
    BY <1>4 DEF MemberPenalise
  <2> QED
    BY <1>2, <2>1 DEF Kept
<1>5. CASE amount > 0 /\ a + b # 0
  <2>1. t = Taken(f, m, a, b, toTreasury)
    BY <1>5 DEF MemberPenalise
  <2>2. a \in Nat /\ a <= st.members[m].staked /\ b \in Nat /\ b <= st.members[m].unbondAmount
    BY <1>1, <1>5 DEF Lesser
  <2> HIDE DEF a, b, f
  <2>3. Sound(f) /\ f.members[m].known = TRUE
    BY <1>2 DEF Keeps, Follows
  <2>4. a <= f.members[m].staked /\ b <= f.members[m].unbondAmount
    BY <1>2, <2>2
  <2>5. Keeps(t, f, m) /\ (t.ok => f.ok)
    BY <2>1, <2>2, <2>3, <2>4, TakenKeeps
  <2> QED
    BY <1>2, <2>5, KeepsOn DEF Kept
<1> QED
  BY <1>3, <1>4, <1>5

LEMMA MemberCreditRewardKeeps ==
  ASSUME NEW st, Sound(st), NEW m, m \in Members, st.members[m].known = TRUE, NEW inPyth, inPyth \in Nat, NEW inUgnot,
         NEW t, t = MemberCreditReward(st, m, inPyth, inUgnot)
  PROVE  Kept(t, st, m)
<1>1. /\ DOMAIN t = StoreFields /\ t.power = st.power /\ t.fees = st.fees /\ t.ballots = st.ballots
      /\ t.proposals = st.proposals /\ t.pyth = st.pyth /\ t.wallets = st.wallets /\ t.ok = st.ok
      /\ t.members = [st.members EXCEPT ![m].pendingPyth = @ + inPyth, ![m].pendingUgnot = @ + inUgnot]
      /\ t.held = [st.held EXCEPT !.pendingPyth = @ + inPyth]
  BY DEF MemberCreditReward, Sound, Shaped, StoreFields
<1>2. /\ st.held.stakedPyth \in Int /\ st.held.unbondingPyth \in Int /\ st.held.pendingPyth \in Int
      /\ st.held.rewardPyth \in Nat /\ st.pyth \in Int /\ st.fees.totalShares \in Int
      /\ st.members[m].staked \in Nat /\ st.members[m].unbondAmount \in Nat /\ st.members[m].pendingPyth \in Nat
      /\ st.wallets \in [Members -> Int] /\ SumFunction(st.wallets) \in Int
      /\ TreasuryPyth(st) \in Int /\ TreasuryPyth(st) >= 0
  BY AmountsAre
<1>3. /\ DOMAIN t.members = Members /\ \A x \in Members \ {m} : t.members[x] = st.members[x]
      /\ t.members[m] = [st.members[m] EXCEPT !.pendingPyth = @ + inPyth, !.pendingUgnot = @ + inUgnot]
  BY <1>1 DEF Sound, Shaped
<1>4. MemberOK(st.members[m])
  BY DEF Sound, Shaped
<1>5. MemberRebooked(t, st, m, 0, 0, inPyth)
  <2>1. MemberOK(t.members[m])
    BY <1>3, <1>4 DEF MemberOK, NoMember
  <2>2. /\ t.members[m].known = TRUE /\ t.members[m].cursor = st.members[m].cursor
        /\ t.members[m].staked = st.members[m].staked + 0
        /\ t.members[m].unbondAmount = st.members[m].unbondAmount + 0
        /\ t.members[m].pendingPyth = st.members[m].pendingPyth + inPyth
    BY <1>3, <1>4 DEF MemberOK, NoMember
  <2> QED
    BY <1>3, <2>1, <2>2 DEF MemberRebooked
<1>6. /\ DOMAIN t.held = DOMAIN NothingHeld /\ t.held.stakedPyth = st.held.stakedPyth
      /\ t.held.unbondingPyth = st.held.unbondingPyth /\ t.held.pendingPyth = st.held.pendingPyth + inPyth
      /\ t.held.rewardPyth = st.held.rewardPyth
  BY <1>1 DEF Sound, Shaped, NothingHeld
<1>7. Rebooked(t, st, 0, 0, inPyth)
  <2>1. t.fees = st.fees /\ DOMAIN t.fees = DOMAIN NoFees
    BY <1>1 DEF Sound, Shaped
  <2> QED
    BY <1>1, <1>2, <1>6, <2>1 DEF Rebooked
<1>8. TreasuryPyth(t) >= 0
  BY <1>1, <1>2, <1>6 DEF TreasuryPyth
<1>9. PowerFollows(t, st, m, t.members[m].staked)
  BY <1>1, <1>3, <1>4 DEF PowerFollows, MemberOK, NoMember
<1>10. t.pyth = st.pyth - 0 /\ SumFunction(t.wallets) = SumFunction(st.wallets) + 0
  BY <1>1, <1>2
<1>11. Follows(t, st)
  BY <1>5, <1>7, <1>8, <1>9, <1>10, MovedFollows
<1>12. t.members[m].known = TRUE /\ t.members[m].cursor = st.members[m].cursor
  BY <1>5 DEF MemberRebooked
<1> QED
  BY <1>1, <1>11, <1>12 DEF Keeps, Kept

LEMMA PayPythKeeps ==
  ASSUME NEW st, Sound(st), NEW m, m \in Members, st.members[m].known = TRUE, NEW amount, amount \in Nat,
         amount <= st.members[m].pendingPyth, amount <= st.held.rewardPyth + TreasuryPyth(st),
         NEW t, t = PayPyth(st, m, amount), t.ok
  PROVE  Keeps(t, st, m) /\ st.ok
<1> DEFINE pool == Lesser(amount, st.held.rewardPyth)
           u == [st EXCEPT !.held.rewardPyth = @ - pool,
                           !.members[m].pendingPyth = @ - amount, !.held.pendingPyth = @ - amount]
<1>1. t = SendPyth(u, m, amount)
  BY DEF PayPyth
<1>2. /\ st.held.stakedPyth \in Int /\ st.held.unbondingPyth \in Int /\ st.held.pendingPyth \in Int
      /\ st.held.rewardPyth \in Nat /\ st.pyth \in Int /\ st.fees.totalShares \in Int
      /\ st.members[m].staked \in Nat /\ st.members[m].unbondAmount \in Nat /\ st.members[m].pendingPyth \in Nat
      /\ st.wallets \in [Members -> Int] /\ SumFunction(st.wallets) \in Int
      /\ TreasuryPyth(st) \in Int /\ TreasuryPyth(st) >= 0
  BY AmountsAre
<1>3. pool \in Nat /\ pool <= amount /\ st.held.rewardPyth - pool \in Nat /\ amount <= pool + TreasuryPyth(st)
  BY <1>2 DEF Lesser
<1> HIDE DEF pool
<1>4. /\ DOMAIN u = StoreFields /\ u.power = st.power /\ u.fees = st.fees /\ u.ballots = st.ballots
      /\ u.proposals = st.proposals /\ u.pyth = st.pyth /\ u.wallets = st.wallets /\ u.ok = st.ok
      /\ u.members = [st.members EXCEPT ![m].pendingPyth = @ - amount]
      /\ u.held = [st.held EXCEPT !.rewardPyth = @ - pool, !.pendingPyth = @ - amount]
  BY DEF Sound, Shaped, StoreFields
<1> HIDE DEF u
<1>5. /\ u.ok /\ DOMAIN t = StoreFields
      /\ t.members = u.members /\ t.power = u.power /\ t.fees = u.fees /\ t.ballots = u.ballots
      /\ t.proposals = u.proposals /\ t.held = u.held /\ t.pyth = u.pyth - amount
      /\ t.wallets \in [Members -> Int] /\ SumFunction(t.wallets) = SumFunction(u.wallets) + amount
  <2>1. u.wallets \in [Members -> Int] /\ amount \in Int /\ DOMAIN u = StoreFields
    BY <1>2, <1>4
  <2> QED
    BY <1>1, <2>1, SendPythIs
<1>6. /\ DOMAIN t.members = Members /\ \A x \in Members \ {m} : t.members[x] = st.members[x]
      /\ t.members[m] = [st.members[m] EXCEPT !.pendingPyth = @ - amount]
  BY <1>4, <1>5 DEF Sound, Shaped
<1>7. MemberOK(st.members[m])
  BY DEF Sound, Shaped
<1> DEFINE c == -amount
<1>8. MemberRebooked(t, st, m, 0, 0, c)
  <2>1. MemberOK(t.members[m])
    BY <1>6, <1>7 DEF MemberOK, NoMember
  <2>2. /\ t.members[m].known = TRUE /\ t.members[m].cursor = st.members[m].cursor
        /\ t.members[m].staked = st.members[m].staked + 0
        /\ t.members[m].unbondAmount = st.members[m].unbondAmount + 0
        /\ t.members[m].pendingPyth = st.members[m].pendingPyth + c
    BY <1>6, <1>7 DEF MemberOK, NoMember
  <2> QED
    BY <1>6, <2>1, <2>2 DEF MemberRebooked
<1>9. /\ DOMAIN t.held = DOMAIN NothingHeld /\ t.held.stakedPyth = st.held.stakedPyth
      /\ t.held.unbondingPyth = st.held.unbondingPyth /\ t.held.pendingPyth = st.held.pendingPyth - amount
      /\ t.held.rewardPyth = st.held.rewardPyth - pool
  BY <1>4, <1>5 DEF Sound, Shaped, NothingHeld
<1>10. Rebooked(t, st, 0, 0, c)
  <2>1. t.fees = st.fees /\ DOMAIN t.fees = DOMAIN NoFees
    BY <1>4, <1>5 DEF Sound, Shaped
  <2>2. t.pyth \in Int /\ t.ballots = st.ballots /\ t.proposals = st.proposals
    BY <1>2, <1>4, <1>5
  <2> QED
    BY <1>2, <1>3, <1>5, <1>9, <2>1, <2>2 DEF Rebooked
<1>11. TreasuryPyth(t) >= 0
  <2>1. t.pyth = st.pyth - amount
    BY <1>4, <1>5
  <2> QED
    BY <1>2, <1>3, <1>9, <2>1 DEF TreasuryPyth
<1>12. PowerFollows(t, st, m, t.members[m].staked)
  BY <1>4, <1>5, <1>6, <1>7 DEF PowerFollows, MemberOK, NoMember
<1>13. c \in Int /\ t.pyth = st.pyth - amount /\ SumFunction(t.wallets) = SumFunction(st.wallets) + amount
  BY <1>2, <1>4, <1>5
<1> HIDE DEF c
<1>14. Follows(t, st)
  <2> DEFINE d == amount
  <2>1. d \in Int /\ t.pyth = st.pyth - d /\ SumFunction(t.wallets) = SumFunction(st.wallets) + d
    BY <1>13
  <2> HIDE DEF d
  <2> QED
    BY <1>8, <1>10, <1>11, <1>12, <1>13, <2>1, MovedFollows
<1>15. t.members[m].known = TRUE /\ t.members[m].cursor = st.members[m].cursor
  BY <1>8 DEF MemberRebooked
<1> QED
  BY <1>4, <1>5, <1>14, <1>15 DEF Keeps

\* t is st but for coins, and the same proposals.
LEMMA CoinsKeep ==
  ASSUME NEW st, NEW t, Sound(st), CoinsOnly(t, st), t.proposals = st.proposals, NEW m, m \in Members,
         st.members[m].known = TRUE
  PROVE  Keeps(t, st, m)
BY CoinsFollow, CoinsKnown DEF Keeps, KnownKept

\* What a payment of rewards in coins writes before it sends them.
UgnotTaken(st, m, amount) == [st EXCEPT !.members[m].pendingUgnot = 0, !.held.rewardUgnot = @ - amount]

LEMMA PaidUgnotCoins ==
  ASSUME NEW st, Sound(st), NEW m, m \in Members, NEW amount,
         NEW t, t = UgnotTaken(st, m, amount)
  PROVE  CoinsOnly(t, st) /\ t.proposals = st.proposals /\ t.ok = st.ok
<1>1. /\ DOMAIN t = StoreFields /\ t.power = st.power /\ t.fees = st.fees /\ t.ballots = st.ballots
      /\ t.proposals = st.proposals /\ t.pyth = st.pyth /\ t.wallets = st.wallets /\ t.ok = st.ok
      /\ t.members = [st.members EXCEPT ![m].pendingUgnot = 0]
      /\ t.held = [st.held EXCEPT !.rewardUgnot = @ - amount]
  BY DEF UgnotTaken, Sound, Shaped, StoreFields
<1>2. SameHeld(t.held, st.held)
  BY <1>1 DEF SameHeld, Sound, Shaped, NothingHeld
<1>3. SameFees(t.fees, st.fees)
  BY <1>1 DEF SameFees, Sound, Shaped
<1>4. DOMAIN t.members = Members /\ \A x \in Members : SameMember(t.members[x], st.members[x])
  <2>1. DOMAIN t.members = Members /\ \A x \in Members \ {m} : t.members[x] = st.members[x]
    BY <1>1 DEF Sound, Shaped
  <2>2. t.members[m] = [st.members[m] EXCEPT !.pendingUgnot = 0]
    BY <1>1 DEF Sound, Shaped
  <2>3. \A x \in Members : MemberOK(st.members[x])
    BY DEF Sound, Shaped
  <2>4. SameMember(t.members[m], st.members[m])
    BY <2>2, <2>3 DEF SameMember, MemberOK, NoMember
  <2>5. \A x \in Members \ {m} : SameMember(t.members[x], st.members[x])
    BY <2>1, <2>3 DEF SameMember
  <2> QED
    BY <2>1, <2>4, <2>5
<1> QED
  BY <1>1, <1>2, <1>3, <1>4 DEF CoinsOnly

LEMMA PayUgnotKeeps ==
  ASSUME NEW st, Sound(st), NEW m, m \in Members, st.members[m].known = TRUE, NEW amount,
         NEW t, t = PayUgnot(st, m, amount), t.ok
  PROVE  Keeps(t, st, m) /\ st.ok
<1>1. CASE amount = 0
  BY <1>1, FollowsItself DEF PayUgnot, Keeps
<1>2. CASE amount # 0
  <2> DEFINE u == [st EXCEPT !.members[m].pendingUgnot = 0, !.held.rewardUgnot = @ - amount]
  <2>1. t = SendUgnot(u, amount)
    BY <1>2 DEF PayUgnot
  <2>2. CoinsOnly(u, st) /\ u.proposals = st.proposals /\ u.ok = st.ok
    <3>1. u = UgnotTaken(st, m, amount)
      BY DEF UgnotTaken
    <3> HIDE DEF u
    <3> QED
      BY <3>1, PaidUgnotCoins
  <2> HIDE DEF u
  <2>3. Keeps(u, st, m)
    BY <2>2, CoinsKeep
  <2>4. Sound(u) /\ u.members[m].known = TRUE
    BY <2>3 DEF Keeps, Follows
  <2>5. CoinsOnly(t, u) /\ t.proposals = u.proposals
    BY <2>1, <2>4, SendUgnotCoins
  <2>6. Keeps(t, u, m)
    BY <2>4, <2>5, CoinsKeep
  <2>7. u.ok
    BY <2>1, <2>4, SendUgnotOk
  <2> QED
    BY <2>2, <2>3, <2>6, <2>7, KeepsOn
<1> QED
  BY <1>1, <1>2

LEMMA MemberPayRewardsKeeps ==
  ASSUME NEW st, Sound(st), NEW m, m \in Members, st.members[m].known = TRUE,
         NEW t, t = MemberPayRewards(st, m), t.ok
  PROVE  Keeps(t, st, m) /\ st.ok
<1> DEFINE amount == Lesser(st.members[m].pendingPyth, st.held.rewardPyth + TreasuryPyth(st))
           p == IF amount > 0 THEN PayPyth(st, m, amount) ELSE st
<1>1. t = PayUgnot(p, m, st.members[m].pendingUgnot)
  BY DEF MemberPayRewards
<1>2. /\ st.held.rewardPyth \in Nat /\ st.members[m].pendingPyth \in Nat
      /\ TreasuryPyth(st) \in Int /\ TreasuryPyth(st) >= 0
  BY AmountsAre
<1>3. amount \in Nat /\ amount <= st.members[m].pendingPyth /\ amount <= st.held.rewardPyth + TreasuryPyth(st)
  BY <1>2 DEF Lesser
<1> HIDE DEF amount
<1>4. p.ok => Keeps(p, st, m) /\ st.ok
  <2>1. CASE amount > 0
    <3>1. p = PayPyth(st, m, amount)
      BY <2>1
    <3> HIDE DEF p
    <3> QED
      BY <1>3, <3>1, PayPythKeeps
  <2>2. CASE ~(amount > 0)
    BY <2>2, FollowsItself DEF Keeps
  <2> QED
    BY <2>1, <2>2
<1>5. p.ok
  <2>1. CASE st.members[m].pendingUgnot = 0
    BY <1>1, <2>1 DEF PayUgnot
  <2>2. CASE st.members[m].pendingUgnot # 0
    <3>1. DOMAIN p = StoreFields
      BY DEF PayPyth, SendPyth, Require, Sound, Shaped, StoreFields
    <3> HIDE DEF p
    <3> QED
      BY <1>1, <2>2, <3>1 DEF PayUgnot, SendUgnot, Require, StoreFields
  <2> QED
    BY <2>1, <2>2
<1> HIDE DEF p
<1>6. Sound(p) /\ p.members[m].known = TRUE
  BY <1>4, <1>5 DEF Keeps, Follows
<1>7. Keeps(t, p, m)
  <2> DEFINE coins == st.members[m].pendingUgnot
  <2> HIDE DEF coins
  <2>1. t = PayUgnot(p, m, coins)
    BY <1>1 DEF coins
  <2> QED
    BY <1>6, <2>1, PayUgnotKeeps
<1> QED
  BY <1>4, <1>5, <1>7, KeepsOn

LEMMA MemberPayFeesKeeps ==
  ASSUME NEW st, Sound(st), NEW m, m \in Members, st.members[m].known = TRUE,
         NEW t, t = MemberPayFees(st, m), t.ok
  PROVE  Keeps(t, st, m) /\ st.ok
<1> DEFINE fee == Claimed(st.fees, st.members[m].fee)
           paid == PaidTo(st.fees, st.members[m].fee)
           claimed == [st EXCEPT !.fees = paid, !.members[m].fee = fee]
           amount == Owed(st.fees, st.members[m].fee)
           u == [claimed EXCEPT !.held.feeUgnot = @ - amount]
<1>1. t = IF amount = 0 THEN claimed ELSE SendUgnot(u, amount)
  BY DEF MemberPayFees, PaidFees
<1>2. DOMAIN fee = DOMAIN NoPosition /\ fee.shares = st.members[m].fee.shares
  BY DEF Claimed, SettledPosition, Sound, Shaped, MemberOK, NoPosition
<1>3. DOMAIN paid = DOMAIN NoFees /\ paid.totalShares = st.fees.totalShares
  BY DEF PaidTo, Sound, Shaped, NoFees
<1> HIDE DEF fee, paid, amount
<1>4. /\ DOMAIN claimed = StoreFields /\ claimed.power = st.power /\ claimed.fees = paid
      /\ claimed.ballots = st.ballots /\ claimed.proposals = st.proposals /\ claimed.pyth = st.pyth
      /\ claimed.wallets = st.wallets /\ claimed.ok = st.ok /\ claimed.held = st.held
      /\ claimed.members = [st.members EXCEPT ![m].fee = fee]
  BY DEF Sound, Shaped, StoreFields
<1> HIDE DEF claimed
<1>5. DOMAIN claimed.members = Members /\ \A x \in Members : SameMember(claimed.members[x], st.members[x])
  <2>1. DOMAIN claimed.members = Members /\ \A x \in Members \ {m} : claimed.members[x] = st.members[x]
    BY <1>4 DEF Sound, Shaped
  <2>2. claimed.members[m] = [st.members[m] EXCEPT !.fee = fee]
    BY <1>4 DEF Sound, Shaped
  <2>3. \A x \in Members : MemberOK(st.members[x])
    BY DEF Sound, Shaped
  <2>4. SameMember(claimed.members[m], st.members[m])
    BY <1>2, <2>2, <2>3 DEF SameMember, MemberOK, NoMember
  <2>5. \A x \in Members \ {m} : SameMember(claimed.members[x], st.members[x])
    BY <2>1, <2>3 DEF SameMember
  <2> QED
    BY <2>1, <2>4, <2>5
<1>6. SameHeld(claimed.held, st.held) /\ SameFees(claimed.fees, st.fees)
  BY <1>3, <1>4 DEF SameHeld, SameFees, Sound, Shaped
<1>7. CoinsOnly(claimed, st)
  BY <1>4, <1>5, <1>6 DEF CoinsOnly
<1>8. Keeps(claimed, st, m)
  BY <1>4, <1>7, CoinsKeep
<1>9. Sound(claimed) /\ claimed.members[m].known = TRUE
  BY <1>8 DEF Keeps, Follows
<1>10. CASE amount = 0
  BY <1>1, <1>4, <1>8, <1>10
<1>11. CASE amount # 0
  <2>1. t = SendUgnot(u, amount)
    BY <1>1, <1>11
  <2>2. /\ DOMAIN u = StoreFields /\ u.power = claimed.power /\ u.fees = claimed.fees
        /\ u.ballots = claimed.ballots /\ u.proposals = claimed.proposals /\ u.pyth = claimed.pyth
        /\ u.wallets = claimed.wallets /\ u.ok = claimed.ok /\ u.members = claimed.members
        /\ u.held = [claimed.held EXCEPT !.feeUgnot = @ - amount]
    BY <1>4 DEF StoreFields
  <2> HIDE DEF u
  <2>3. SameHeld(u.held, claimed.held)
    BY <1>9, <2>2 DEF SameHeld, Sound, Shaped, NothingHeld
  <2>4. CoinsOnly(u, claimed)
    BY <1>9, <2>2, <2>3 DEF CoinsOnly, SameMember, SameFees, Sound, Shaped
  <2>5. Keeps(u, claimed, m)
    BY <1>9, <2>2, <2>4, CoinsKeep
  <2>6. Sound(u) /\ u.members[m].known = TRUE
    BY <2>5 DEF Keeps, Follows
  <2>7. CoinsOnly(t, u) /\ t.proposals = u.proposals
    BY <2>1, <2>6, SendUgnotCoins
  <2>8. Keeps(t, u, m)
    BY <2>6, <2>7, CoinsKeep
  <2>9. u.ok
    BY <2>1, <2>6, SendUgnotOk
  <2>10. Keeps(t, claimed, m)
    BY <2>5, <2>8, KeepsOn
  <2> QED
    BY <1>4, <1>8, <2>2, <2>9, <2>10, KeepsOn
<1> QED
  BY <1>10, <1>11

-----------------------------------------------------------------------------
(* Settlement.                                                                 *)

\* Shares of a pool, and penalties, are whole numbers.
LEMMA RewardShareIsNat ==
  ASSUME NEW pool, pool \in Int, NEW weight, weight \in Int, NEW coherent, coherent \in Int
  PROVE  RewardShare(pool, weight, coherent) \in Nat
<1>1. CASE coherent <= 0 \/ weight <= 0 \/ pool <= 0
  BY <1>1 DEF RewardShare
<1>2. CASE coherent > 0 /\ weight > 0 /\ pool > 0
  <2> DEFINE w == IF weight > coherent THEN coherent ELSE weight
  <2>1. w \in Nat /\ pool \in Nat /\ coherent \in Nat /\ coherent > 0
    BY <1>2
  <2>2. RewardShare(pool, weight, coherent) = (pool * w) \div coherent
    BY <1>2 DEF RewardShare, MulDiv
  <2> HIDE DEF w
  <2>3. pool * w \in Nat
    BY <2>1
  <2> DEFINE p == pool * w
  <2> HIDE DEF p
  <2>4. p \in Nat
    BY <2>3 DEF p
  <2>5. p \div coherent \in Nat
    BY <2>1, <2>4
  <2> QED
    BY <2>2, <2>5 DEF p
<1> QED
  BY <1>1, <1>2

LEMMA PenaltyIsInt ==
  ASSUME NEW w, w \in Int, NEW class
  PROVE  Penalty(w, class, Rates) \in Int
<1>1. CASE class \in DOMAIN Rates
  <2>1. class \in {"absent", "abstained", "incoherent"}
    BY <1>1 DEF Rates
  <2>2. Rates[class] \in Int
    BY <2>1, StakesAssumption DEF Rates
  <2> DEFINE r == Rates[class]
  <2> HIDE DEF r
  <2>3. r \in Int
    BY <2>2 DEF r
  <2>4. w * r \in Int
    BY <2>3
  <2> DEFINE p == w * r
  <2> HIDE DEF p
  <2>5. p \in Int
    BY <2>4 DEF p
  <2>6. p \div 10000 \in Int
    BY <2>5
  <2> QED
    BY <1>1, <2>6 DEF Penalty, MulDiv, Bps, p, r
<1>2. CASE class \notin DOMAIN Rates
  BY <1>2 DEF Penalty
<1> QED
  BY <1>1, <1>2

\* The penalty that the window allows, and what the window has taken with it.
LEMMA CapPenaltyIsInt ==
  ASSUME NEW st, Sound(st), NEW m, m \in Members, NEW penalty, penalty \in Int, NEW at, at \in Int,
         NEW cap, cap = CapPenalty(st, m, penalty, at)
  PROVE  cap.penalty \in Int /\ cap.at \in Int /\ cap.inWindow \in Int
<1> DEFINE mb == st.members[m]
           turned == at - mb.penaltyWindowAt >= Param.penaltyWindow
           before == IF turned THEN 0 ELSE mb.penaltyInWindow
           allowed == ((Live(mb) + before) * Param.maxPenaltyPerWindowBps) \div Bps
           room == allowed - before
           capped == Lesser(penalty, IF room < 0 THEN 0 ELSE room)
<1>1. mb.staked \in Nat /\ mb.unbondAmount \in Nat /\ mb.penaltyWindowAt \in Int /\ mb.penaltyInWindow \in Int
  BY DEF Sound, Shaped, MemberOK
<1>2. cap = [at |-> IF turned THEN at ELSE mb.penaltyWindowAt, inWindow |-> before + capped, penalty |-> capped]
  BY DEF CapPenalty
<1>3. before \in Int
  BY <1>1
<1>4. Live(mb) \in Int
  BY <1>1 DEF Live
<1> HIDE DEF before
<1>5. allowed \in Int
  <2> DEFINE x == Live(mb) + before
             y == Param.maxPenaltyPerWindowBps
  <2>1. x \in Int /\ y \in Int
    BY <1>3, <1>4, StakesAssumption
  <2>2. allowed = (x * y) \div 10000
    BY DEF Bps
  <2> HIDE DEF x, y
  <2> DEFINE p == x * y
  <2>3. p \in Int
    BY <2>1
  <2>4. allowed = p \div 10000
    BY <2>2
  <2> HIDE DEF p, allowed
  <2> QED
    BY <2>3, <2>4
<1> HIDE DEF allowed
<1>6. capped \in Int
  BY <1>3, <1>5 DEF Lesser
<1> HIDE DEF capped
<1> QED
  BY <1>1, <1>2, <1>3, <1>6

\* What a charge writes of its window before it takes anything.
WindowMoved(st, m, at, inWindow) ==
  [st EXCEPT !.members[m].penaltyWindowAt = at, !.members[m].penaltyInWindow = inWindow]

LEMMA WindowMovedKeeps ==
  ASSUME NEW st, Sound(st), NEW m, m \in Members, st.members[m].known = TRUE,
         NEW at, at \in Int, NEW inWindow, inWindow \in Int, NEW t, t = WindowMoved(st, m, at, inWindow)
  PROVE  Kept(t, st, m)
<1>1. /\ DOMAIN t = StoreFields /\ t.power = st.power /\ t.fees = st.fees /\ t.ballots = st.ballots
      /\ t.proposals = st.proposals /\ t.pyth = st.pyth /\ t.wallets = st.wallets /\ t.ok = st.ok
      /\ t.held = st.held
      /\ t.members = [st.members EXCEPT ![m].penaltyWindowAt = at, ![m].penaltyInWindow = inWindow]
  BY DEF WindowMoved, Sound, Shaped, StoreFields
<1>2. SameHeld(t.held, st.held) /\ SameFees(t.fees, st.fees)
  BY <1>1 DEF SameHeld, SameFees, Sound, Shaped
<1>3. DOMAIN t.members = Members /\ \A x \in Members : SameMember(t.members[x], st.members[x])
  <2>1. DOMAIN t.members = Members /\ \A x \in Members \ {m} : t.members[x] = st.members[x]
    BY <1>1 DEF Sound, Shaped
  <2>2. t.members[m] = [st.members[m] EXCEPT !.penaltyWindowAt = at, !.penaltyInWindow = inWindow]
    BY <1>1 DEF Sound, Shaped
  <2>3. \A x \in Members : MemberOK(st.members[x])
    BY DEF Sound, Shaped
  <2>4. SameMember(t.members[m], st.members[m])
    BY <2>2, <2>3 DEF SameMember, MemberOK, NoMember
  <2>5. \A x \in Members \ {m} : SameMember(t.members[x], st.members[x])
    BY <2>1, <2>3 DEF SameMember
  <2> QED
    BY <2>1, <2>4, <2>5
<1>4. CoinsOnly(t, st)
  BY <1>1, <1>2, <1>3 DEF CoinsOnly
<1> QED
  BY <1>1, <1>4, CoinsKeep DEF Kept

LEMMA ChargedKeeps ==
  ASSUME NEW st, Sound(st), NEW m, m \in Members, st.members[m].known = TRUE, NEW b,
         NEW cap, cap.at \in Int, cap.inWindow \in Int, cap.penalty \in Int, NEW t, t = Charged(st, m, b, cap)
  PROVE  Kept(t, st, m)
<1> DEFINE u == WindowMoved(st, m, cap.at, cap.inWindow)
           amount == cap.penalty
           toTreasury == b.coherentWeight = 0
<1>1. t = MemberPenalise(u, m, amount, toTreasury)
  BY DEF Charged, WindowMoved
<1>2. Kept(u, st, m)
  <2> DEFINE at == cap.at
             inWindow == cap.inWindow
  <2>1. at \in Int /\ inWindow \in Int /\ u = WindowMoved(st, m, at, inWindow)
    OBVIOUS
  <2> HIDE DEF u, at, inWindow
  <2> QED
    BY <2>1, WindowMovedKeeps
<1>3. amount \in Int
  OBVIOUS
<1> HIDE DEF u, amount, toTreasury
<1>4. Sound(u) /\ u.members[m].known = TRUE
  BY <1>2 DEF Kept, Keeps, Follows
<1>5. Kept(t, u, m)
  BY <1>1, <1>3, <1>4, MemberPenaliseKeeps
<1> QED
  BY <1>2, <1>5, KeepsOn DEF Kept

LEMMA RewardedKeeps ==
  ASSUME NEW st, Sound(st), NEW m, m \in Members, st.members[m].known = TRUE,
         NEW b, BallotOK(b), m \in DOMAIN b.reveals, NEW w, w \in Int, NEW t, t = Rewarded(st, m, b, w)
  PROVE  Kept(t, st, m)
<1> DEFINE weight == Lesser(w, b.reveals[m].weight)
           inPyth == RewardShare(b.expectedPool, weight, b.coherentWeight)
           inUgnot == RewardShare(b.bondShare, weight, b.coherentWeight)
<1>1. t = MemberCreditReward(st, m, inPyth, inUgnot)
  BY DEF Rewarded
<1>2. inPyth \in Nat
  <2> DEFINE pool == b.expectedPool
             coherent == b.coherentWeight
  <2>1. weight \in Int /\ pool \in Int /\ coherent \in Int
    BY DEF Lesser, BallotOK
  <2>2. inPyth = RewardShare(pool, weight, coherent)
    OBVIOUS
  <2> HIDE DEF weight, pool, coherent, inPyth
  <2> QED
    BY <2>1, <2>2, RewardShareIsNat
<1> HIDE DEF inPyth, inUgnot
<1> QED
  BY <1>1, <1>2, MemberCreditRewardKeeps

LEMMA SettledWithKeeps ==
  ASSUME NEW st, Sound(st), NEW m, m \in Members, st.members[m].known = TRUE,
         NEW b, BallotOK(b), NEW w, w \in Int, NEW t, t = SettledWith(st, m, b, w, ClassOf(b, m))
  PROVE  Kept(t, st, m)
<1> DEFINE class == ClassOf(b, m)
<1>1. Kept(st, st, m)
  BY FollowsItself DEF Keeps, Kept
<1>2. CASE w <= 0
  BY <1>1, <1>2 DEF SettledWith
<1>3. CASE w > 0 /\ class = "coherent"
  <2>1. t = Rewarded(st, m, b, w)
    BY <1>3 DEF SettledWith, Rates
  <2>2. m \in DOMAIN b.reveals
    BY <1>3 DEF ClassOf, Classify
  <2> QED
    BY <2>1, <2>2, RewardedKeeps
<1>4. CASE w > 0 /\ class # "coherent" /\ class \in DOMAIN Rates
  <2> DEFINE penalty == Penalty(w, class, Rates)
             cap == CapPenalty(st, m, penalty, b.resolvedAt)
  <2>1. t = Charged(st, m, b, cap)
    BY <1>4 DEF SettledWith
  <2>2. penalty \in Int
    BY PenaltyIsInt
  <2> HIDE DEF penalty
  <2>3. cap.penalty \in Int /\ cap.at \in Int /\ cap.inWindow \in Int
    <3> DEFINE at == b.resolvedAt
    <3>1. at \in Int /\ cap = CapPenalty(st, m, penalty, at)
      BY DEF BallotOK
    <3> HIDE DEF at, cap
    <3> QED
      BY <2>2, <3>1, CapPenaltyIsInt
  <2> HIDE DEF cap
  <2> QED
    BY <2>1, <2>3, ChargedKeeps
<1>5. CASE w > 0 /\ class # "coherent" /\ class \notin DOMAIN Rates
  BY <1>1, <1>5 DEF SettledWith
<1> QED
  BY <1>2, <1>3, <1>4, <1>5

LEMMA PowerIsInt ==
  ASSUME NEW st, Sound(st), NEW e, e \in Nat
  PROVE  TotalPowerAt(st, e) \in Int /\ \A m \in Members : PowerAt(st, m, e) \in Int
<1> DEFINE u == st.power.total
           last == epoch + 1
<1>1. Points(u, last) /\ last \in Nat /\ \A m \in Members : Points(st.power.series[m], last)
  BY DEF Sound, Shaped, PowerOK
<1>2. TotalPowerAt(st, e) = ValueAt(u, e)
  BY DEF TotalPowerAt
<1> HIDE DEF u, last
<1>3. ASSUME NEW m \in Members
      PROVE  PowerAt(st, m, e) \in Int
  <2> DEFINE s == st.power.series[m]
  <2>1. Points(s, last) /\ PowerAt(st, m, e) = ValueAt(s, e)
    BY <1>1 DEF PowerAt
  <2> HIDE DEF s
  <2> QED
    BY <1>1, <2>1, ValueIsInt
<1> QED
  BY <1>1, <1>2, <1>3, ValueIsInt

\* What a call makes of a store in which a member settles.
Settled(t, st, m) == Follows(t, st) /\ t.members[m].known = TRUE /\ (t.ok => st.ok)

LEMMA SettleNextSettles ==
  ASSUME NEW st, Sound(st), NEW m, m \in Members, st.members[m].known = TRUE, NEW t, t = SettleNext(st, m)
  PROVE  Settled(t, st, m)
<1> DEFINE seq == st.members[m].cursor + 1
           b == st.ballots[seq]
           w == Lesser(PowerAt(st, m, b.sealed), Live(st.members[m]))
           u == SettledWith(st, m, b, w, ClassOf(b, m))
<1>1. CASE ~Settleable(st, seq)
  <2>1. t = st
    BY <1>1 DEF SettleNext
  <2> QED
    BY <2>1, FollowsItself DEF Settled
<1>2. CASE Settleable(st, seq)
  <2>1. t = [u EXCEPT !.members[m].cursor = @ + 1]
    BY <1>2 DEF SettleNext, SettleOne
  <2>2. seq \in DOMAIN st.ballots /\ st.ballots[seq].final
    BY <1>2 DEF Settleable
  <2>3. BallotOK(b) /\ IsSequence(st.ballots) /\ epoch \in Nat
    BY <2>2 DEF Sound, Shaped, BallotsOK
  <2>4. PowerAt(st, m, b.sealed) \in Int
    <3> DEFINE e == b.sealed
    <3>1. e \in Nat
      <4>1. b.sealed \in 1 .. epoch
        BY <2>3, Zenon DEF BallotOK
      <4> QED
        BY <2>3, <4>1
    <3> HIDE DEF e
    <3>2. PowerAt(st, m, e) \in Int
      BY <3>1, PowerIsInt
    <3> QED
      BY <3>2 DEF e
  <2>5. w \in Int
    BY <2>4, AmountsAre DEF Lesser, Live
  <2>6. Kept(u, st, m)
    <3>1. u = SettledWith(st, m, b, w, ClassOf(b, m))
      OBVIOUS
    <3> HIDE DEF b, w, u
    <3> QED
      BY <2>3, <2>5, <3>1, SettledWithKeeps
  <2> HIDE DEF u, w
  <2>7. /\ Sound(u) /\ u.members[m].known = TRUE /\ u.members[m].cursor = st.members[m].cursor
        /\ u.ballots = st.ballots
    BY <2>6 DEF Kept, Keeps, Follows
  <2>8. /\ DOMAIN t = StoreFields /\ t.power = u.power /\ t.fees = u.fees /\ t.ballots = u.ballots
        /\ t.proposals = u.proposals /\ t.pyth = u.pyth /\ t.wallets = u.wallets /\ t.ok = u.ok
        /\ t.held = u.held /\ t.members = [u.members EXCEPT ![m].cursor = @ + 1]
    BY <2>1, <2>7 DEF Sound, Shaped, StoreFields
  <2>9. /\ DOMAIN t.members = Members /\ \A x \in Members \ {m} : t.members[x] = u.members[x]
        /\ t.members[m] = [u.members[m] EXCEPT !.cursor = @ + 1]
    BY <2>7, <2>8 DEF Sound, Shaped
  <2>10. MemberOK(u.members[m])
    BY <2>7 DEF Sound, Shaped
  <2>11. /\ MemberOK(t.members[m]) /\ t.members[m].known = TRUE /\ t.members[m].cursor = seq
         /\ t.members[m].staked = u.members[m].staked /\ t.members[m].unbondAmount = u.members[m].unbondAmount
         /\ t.members[m].pendingPyth = u.members[m].pendingPyth
    BY <2>7, <2>9, <2>10 DEF MemberOK, NoMember
  <2>12. Shaped(t)
    BY <2>7, <2>8, <2>9, <2>11 DEF Sound, Shaped
  <2>13. Booked(t)
    <3>1. \A x \in Members : /\ t.members[x]["staked"] = u.members[x]["staked"]
                             /\ t.members[x]["unbondAmount"] = u.members[x]["unbondAmount"]
                             /\ t.members[x]["pendingPyth"] = u.members[x]["pendingPyth"]
      BY <2>9, <2>11
    <3>2. /\ AllOf(t.members, "staked") = AllOf(u.members, "staked")
          /\ AllOf(t.members, "unbondAmount") = AllOf(u.members, "unbondAmount")
          /\ AllOf(t.members, "pendingPyth") = AllOf(u.members, "pendingPyth")
      BY <3>1 DEF AllOf
    <3> QED
      BY <2>7, <2>8, <3>1, <3>2 DEF Sound, Booked, TreasuryPyth
  <2>14. Waited(t)
    <3>1. \A x \in Members, e \in Nat : PowerAt(t, x, e) = PowerAt(u, x, e)
      BY <2>8 DEF PowerAt
    <3>2. DOMAIN u.ballots = 1 .. Len(u.ballots) /\ Len(u.ballots) \in Nat
      BY <2>3, <2>7, SequenceDomain
    <3>3. \A q \in DOMAIN u.ballots : u.ballots[q].sealed \in Nat
      BY <2>7 DEF Sound, Shaped, BallotsOK, BallotOK
    <3>4. ASSUME NEW x \in Members \ {m}
          PROVE  /\ t.members[x].cursor \in 0 .. Len(t.ballots)
                 /\ ~t.members[x].known => t.power.series[x] = NoPoints
                 /\ t.members[x].known =>
                      \A q \in DOMAIN t.ballots :
                        q <= t.members[x].cursor /\ PowerAt(t, x, t.ballots[q].sealed) > 0 => t.ballots[q].final = TRUE
      BY <2>7, <2>8, <2>9, <3>1, <3>3 DEF Sound, Waited
    <3>5. t.members[m].cursor \in 0 .. Len(t.ballots)
      BY <2>2, <2>7, <2>8, <2>10, <2>11, <3>2 DEF MemberOK
    <3>6. \A q \in DOMAIN t.ballots :
            q <= t.members[m].cursor /\ PowerAt(t, m, t.ballots[q].sealed) > 0 => t.ballots[q].final = TRUE
      <4> SUFFICES ASSUME NEW q \in DOMAIN t.ballots,
                          q <= t.members[m].cursor, PowerAt(t, m, t.ballots[q].sealed) > 0
                   PROVE  t.ballots[q].final = TRUE
        OBVIOUS
      <4>1. q \in DOMAIN u.ballots /\ PowerAt(u, m, u.ballots[q].sealed) > 0 /\ q <= seq /\ q \in Int
        BY <2>8, <2>11, <3>1, <3>2, <3>3
      <4>2. CASE q = seq
        BY <2>2, <2>7, <2>8, <4>2
      <4>3. CASE q # seq
        <5>1. q <= u.members[m].cursor
          BY <2>7, <2>10, <4>1, <4>3 DEF MemberOK
        <5>2. u.ballots[q].final = TRUE
          BY <2>7, <4>1, <5>1 DEF Sound, Waited
        <5> QED
          BY <2>8, <5>2
      <4> QED
        BY <4>2, <4>3
    <3> QED
      BY <2>11, <3>4, <3>5, <3>6 DEF Waited
  <2>15. SameHistory(t, u) /\ TotalSupply(t) = TotalSupply(u)
    BY <2>8 DEF SameHistory, PowerAt, TotalPowerAt, TotalSupply
  <2>16. Follows(t, u)
    BY <2>8, <2>12, <2>13, <2>14, <2>15 DEF Follows, Sound
  <2> QED
    BY <2>6, <2>8, <2>11, <2>16, FollowsOn DEF Settled, Kept, Keeps
<1> QED
  BY <1>1, <1>2

\* The first n ballots, one after the other.
Walks(f, st, m, last) ==
  f = [n \in 0 .. last |-> IF n = 0 THEN st ELSE SettleNext(f[n - 1], m)]

LEMMA WalksExist ==
  ASSUME NEW st, NEW m, NEW last, last \in Nat
  PROVE  \E f : Walks(f, st, m, last)
<1> DEFINE T == { k \in Nat : \E f : Walks(f, st, m, k) }
<1>1. 0 \in T
  <2> DEFINE f == [n \in 0 .. 0 |-> st]
  <2>1. Walks(f, st, m, 0)
    BY DEF Walks
  <2> QED
    BY <2>1
<1>2. ASSUME NEW k \in T
      PROVE  k + 1 \in T
  <2>1. k \in Nat
    OBVIOUS
  <2>2. PICK f : Walks(f, st, m, k)
    OBVIOUS
  <2> DEFINE g == [n \in 0 .. k + 1 |-> IF n = k + 1 THEN SettleNext(f[k], m) ELSE f[n]]
             h == [n \in 0 .. k + 1 |-> IF n = 0 THEN st ELSE SettleNext(g[n - 1], m)]
  <2>3. DOMAIN f = 0 .. k /\ \A n \in 0 .. k : f[n] = IF n = 0 THEN st ELSE SettleNext(f[n - 1], m)
    BY <2>2 DEF Walks
  <2>4. \A n \in 0 .. k : g[n] = f[n]
    BY <2>1
  <2>5. g[k + 1] = SettleNext(f[k], m)
    BY <2>1
  <2>6. ASSUME NEW n \in 0 .. k + 1
        PROVE  g[n] = h[n]
    <3>1. h[n] = IF n = 0 THEN st ELSE SettleNext(g[n - 1], m)
      OBVIOUS
    <3> HIDE DEF g, h
    <3>2. CASE n = k + 1
      <4>1. n # 0 /\ n - 1 = k /\ k \in 0 .. k
        BY <2>1, <3>2
      <4> QED
        BY <2>4, <2>5, <3>1, <3>2, <4>1
    <3>3. CASE n # k + 1
      <4>1. n \in 0 .. k /\ (n # 0 => n - 1 \in 0 .. k)
        BY <2>1, <3>3
      <4> QED
        BY <2>3, <2>4, <3>1, <4>1
    <3> QED
      BY <3>2, <3>3
  <2>7. g = h
    BY <2>6
  <2>8. Walks(g, st, m, k + 1)
    BY <2>7 DEF Walks
  <2> QED
    BY <2>1, <2>8
<1>3. last \in T
  <2>1. T \in SUBSET Nat
    OBVIOUS
  <2> HIDE DEF T
  <2> QED
    BY <1>1, <1>2, <2>1, NaturalsFromZero
<1> QED
  BY <1>3

LEMMA SettledOn ==
  ASSUME NEW st, NEW t, NEW u, NEW m, Settled(t, st, m), Settled(u, t, m)
  PROVE  Settled(u, st, m)
BY FollowsOn DEF Settled

LEMMA SettledItself ==
  ASSUME NEW st, Sound(st), NEW m, st.members[m].known = TRUE
  PROVE  Settled(st, st, m)
BY FollowsItself DEF Settled

LEMMA SettleSettles ==
  ASSUME NEW st, Sound(st), NEW m, m \in Members, st.members[m].known = TRUE, NEW maxN, maxN \in Nat,
         NEW t, t = Settle(st, m, maxN)
  PROVE  Settled(t, st, m)
<1> DEFINE f == CHOOSE g : Walks(g, st, m, maxN)
<1>1. t = f[maxN]
  BY DEF Settle, Walks
<1>2. Walks(f, st, m, maxN)
  BY WalksExist
<1> HIDE DEF f
<1>3. \A n \in 0 .. maxN : f[n] = IF n = 0 THEN st ELSE SettleNext(f[n - 1], m)
  BY <1>2 DEF Walks
<1> DEFINE T == { n \in Nat : n <= maxN => Settled(f[n], st, m) }
<1>4. 0 \in T
  <2>1. f[0] = st
    BY <1>3
  <2> QED
    BY <2>1, SettledItself
<1>5. ASSUME NEW n \in T
      PROVE  n + 1 \in T
  <2> SUFFICES ASSUME n + 1 <= maxN
               PROVE  Settled(f[n + 1], st, m)
    OBVIOUS
  <2>1. n \in Nat /\ n <= maxN /\ Settled(f[n], st, m)
    OBVIOUS
  <2> DEFINE u == f[n]
             v == f[n + 1]
  <2>2. v = SettleNext(u, m)
    <3>1. n + 1 \in 0 .. maxN /\ n + 1 # 0 /\ (n + 1) - 1 = n
      BY <2>1
    <3> QED
      BY <1>3, <3>1
  <2>3. Sound(u) /\ u.members[m].known = TRUE /\ Settled(u, st, m)
    BY <2>1 DEF Settled, Follows
  <2> HIDE DEF u, v
  <2>4. Settled(v, u, m)
    BY <2>2, <2>3, SettleNextSettles
  <2>5. Settled(v, st, m)
    BY <2>3, <2>4, SettledOn
  <2> QED
    BY <2>5 DEF v
<1>6. maxN \in T
  <2>1. T \in SUBSET Nat
    OBVIOUS
  <2> HIDE DEF T
  <2> QED
    BY <1>4, <1>5, <2>1, NaturalsFromZero
<1> QED
  BY <1>1, <1>6

LEMMA SettleStrictlySettles ==
  ASSUME NEW st, Sound(st), NEW m, m \in Members, st.members[m].known = TRUE, NEW t, t = SettleStrictly(st, m)
  PROVE  Settled(t, st, m)
<1> DEFINE maxN == Param.settleMaxN
           u == Settle(st, m, maxN)
           cond == ~Settleable(u, u.members[m].cursor + 1)
<1>1. t = Require(u, cond)
  BY DEF SettleStrictly, NothingLeftToSettle
<1>2. Settled(u, st, m)
  <2>1. maxN \in Nat /\ u = Settle(st, m, maxN)
    BY StakesAssumption
  <2> HIDE DEF u, maxN
  <2> QED
    BY <2>1, SettleSettles
<1> HIDE DEF u, cond
<1>3. Sound(u) /\ u.members[m].known = TRUE
  BY <1>2 DEF Settled, Follows
<1>4. Follows(t, u) /\ CoinsOnly(t, u) /\ (t.ok => u.ok)
  BY <1>1, <1>3, RequireFollows, RequireCoins
<1>5. t.members[m].known = TRUE
  BY <1>3, <1>4, CoinsKnown DEF KnownKept
<1> QED
  BY <1>2, <1>4, <1>5, SettledOn DEF Settled

-----------------------------------------------------------------------------
(* Ballots.                                                                    *)

\* t comes of st within a step, mints aside.
Goes(t, st) == Sound(t) /\ SameHistory(t, st) /\ TotalSupply(t) = TotalSupply(st)

LEMMA FollowsGoes ==
  ASSUME NEW st, NEW t, Follows(t, st)
  PROVE  Goes(t, st)
BY DEF Follows, Goes

LEMMA GoesOn ==
  ASSUME NEW st, NEW t, NEW u, Goes(t, st), Goes(u, t)
  PROVE  Goes(u, st)
BY DEF Goes, SameHistory

\* What a later record of a ballot keeps.
Kin(c, b) == c.sealed = b.sealed /\ c.prev = b.prev /\ (b.final = TRUE => c.final = TRUE)

BallotsGrow(cs, bs) ==
  IsSequence(cs) /\ Len(bs) <= Len(cs) /\ \A seq \in DOMAIN bs : Kin(cs[seq], bs[seq])

\* t is st but for ballots and coins.
BallotsOnly(t, st) ==
  /\ DOMAIN t = StoreFields
  /\ t.members = st.members /\ t.power = st.power /\ t.proposals = st.proposals
  /\ SameFees(t.fees, st.fees) /\ SameHeld(t.held, st.held)
  /\ t.pyth = st.pyth /\ t.wallets = st.wallets

LEMMA BallotsGo ==
  ASSUME NEW st, Sound(st), NEW t, BallotsOnly(t, st), BallotsOK(t.ballots), BallotsGrow(t.ballots, st.ballots)
  PROVE  Goes(t, st)
<1>1. Shaped(t)
  BY DEF Sound, Shaped, BallotsOnly, SameHeld, SameFees
<1>2. Booked(t)
  BY DEF Sound, Booked, BallotsOnly, SameHeld, SameFees, TreasuryPyth
<1>3. Waited(t)
  <2> SUFFICES ASSUME NEW m \in Members
               PROVE  /\ t.members[m].cursor \in 0 .. Len(t.ballots)
                      /\ ~t.members[m].known => t.power.series[m] = NoPoints
                      /\ t.members[m].known =>
                           \A seq \in DOMAIN t.ballots :
                             seq <= t.members[m].cursor /\ PowerAt(t, m, t.ballots[seq].sealed) > 0
                               => t.ballots[seq].final = TRUE
    BY DEF Waited
  <2>1. /\ Len(st.ballots) \in Nat /\ DOMAIN st.ballots = 1 .. Len(st.ballots)
        /\ Len(t.ballots) \in Nat /\ DOMAIN t.ballots = 1 .. Len(t.ballots) /\ Len(st.ballots) <= Len(t.ballots)
    BY SequenceDomain DEF Sound, Shaped, BallotsOK, BallotsGrow
  <2>2. t.members[m] = st.members[m] /\ t.power = st.power
    BY DEF BallotsOnly
  <2>3. st.members[m].cursor \in 0 .. Len(st.ballots)
    BY DEF Sound, Waited
  <2>4. t.members[m].cursor \in 0 .. Len(t.ballots)
    BY <2>1, <2>2, <2>3
  <2>5. ASSUME t.members[m].known, NEW seq \in DOMAIN t.ballots,
               seq <= t.members[m].cursor, PowerAt(t, m, t.ballots[seq].sealed) > 0
        PROVE  t.ballots[seq].final = TRUE
    <3>1. seq \in DOMAIN st.ballots
      BY <2>1, <2>2, <2>3, <2>5
    <3>2. t.ballots[seq].sealed = st.ballots[seq].sealed
          /\ (st.ballots[seq].final = TRUE => t.ballots[seq].final = TRUE)
      BY <3>1 DEF BallotsGrow, Kin
    <3>3. PowerAt(t, m, t.ballots[seq].sealed) = PowerAt(st, m, st.ballots[seq].sealed)
      BY <2>2, <3>2 DEF PowerAt
    <3>4. st.ballots[seq].final = TRUE
      BY <2>2, <2>5, <3>1, <3>3 DEF Sound, Waited
    <3> QED
      BY <3>2, <3>4
  <2>6. ~t.members[m].known => t.power.series[m] = NoPoints
    BY <2>2 DEF Sound, Waited
  <2> QED
    BY <2>4, <2>5, <2>6
<1>4. SameHistory(t, st) /\ TotalSupply(t) = TotalSupply(st)
  BY DEF SameHistory, PowerAt, TotalPowerAt, TotalSupply, BallotsOnly
<1> QED
  BY <1>1, <1>2, <1>3, <1>4 DEF Goes, Sound

\* One more ballot, and another record of one there is.
LEMMA OneMoreGrows ==
  ASSUME NEW bs, BallotsOK(bs), NEW b, BallotOK(b), b.prev \in 0 .. Len(bs), NEW cs, cs = Append(bs, b)
  PROVE  BallotsOK(cs) /\ BallotsGrow(cs, bs)
<1>1. IsSequence(bs)
  BY DEF BallotsOK
<1>2. /\ IsSequence(cs)
      /\ DOMAIN cs = DOMAIN bs \cup {Len(bs) + 1} /\ Len(bs) + 1 \notin DOMAIN bs
      /\ cs[Len(bs) + 1] = b
      /\ \A i \in DOMAIN bs : cs[i] = bs[i]
  BY <1>1, Appended
<1>3. Len(bs) \in Nat /\ Len(cs) \in Nat /\ DOMAIN cs = 1 .. Len(cs)
  BY <1>1, <1>2, SequenceDomain
<1>4. Len(bs) <= Len(cs)
  <2>1. Len(bs) + 1 \in 1 .. Len(cs)
    BY <1>2, <1>3
  <2> QED
    BY <1>3, <2>1
<1>5. \A i \in DOMAIN cs : BallotOK(cs[i]) /\ cs[i].prev \in Nat /\ cs[i].prev < i
  <2>1. b.prev \in Nat /\ b.prev < Len(bs) + 1
    BY <1>3
  <2> QED
    BY <1>2, <2>1 DEF BallotsOK
<1>6. BallotsGrow(cs, bs)
  BY <1>2, <1>4 DEF BallotsGrow, Kin
<1> QED
  BY <1>2, <1>5, <1>6 DEF BallotsOK

LEMMA OtherRecordGrows ==
  ASSUME NEW bs, BallotsOK(bs), NEW seq, NEW c, seq \in DOMAIN bs => BallotOK(c) /\ Kin(c, bs[seq]),
         NEW cs, cs = [bs EXCEPT ![seq] = c]
  PROVE  BallotsOK(cs) /\ BallotsGrow(cs, bs)
<1>1. IsSequence(bs)
  BY DEF BallotsOK
<1>2. Len(bs) \in Nat
  BY <1>1, SequenceDomain
<1>3. CASE seq \in DOMAIN bs
  <2>1. IsSequence(cs) /\ DOMAIN cs = DOMAIN bs /\ cs[seq] = c /\ \A i \in DOMAIN bs \ {seq} : cs[i] = bs[i]
    BY <1>1, <1>3, Amended
  <2>2. Len(bs) = Len(cs)
    <3>1. DOMAIN bs = 1 .. Len(bs) /\ DOMAIN cs = 1 .. Len(cs) /\ Len(cs) \in Nat
      BY <1>1, <2>1, SequenceDomain
    <3> QED
      BY <1>2, <2>1, <3>1
  <2>3. BallotsOK(cs)
    BY <1>3, <2>1 DEF BallotsOK, Kin
  <2>4. \A i \in DOMAIN bs : Kin(cs[i], bs[i])
    BY <1>3, <2>1 DEF Kin
  <2> QED
    BY <1>2, <2>1, <2>2, <2>3, <2>4 DEF BallotsGrow
<1>4. CASE seq \notin DOMAIN bs
  <2>1. cs = bs
    <3>1. bs = [i \in DOMAIN bs |-> bs[i]]
      BY <1>1, SequenceDomain DEF IsSequence
    <3> QED
      BY <1>4, <3>1
  <2> QED
    BY <1>1, <1>2, <2>1 DEF BallotsGrow, Kin
<1> QED
  BY <1>3, <1>4

LEMMA BallotsOnlyOn ==
  ASSUME NEW st, NEW t, NEW u, BallotsOnly(t, st), BallotsOnly(u, t)
  PROVE  BallotsOnly(u, st)
BY DEF BallotsOnly, SameFees, SameHeld

\* What a sound store has of another shape than its tables.
LEMMA SoundShape ==
  ASSUME NEW st, Sound(st)
  PROVE  /\ DOMAIN st = StoreFields /\ DOMAIN st.fees = DOMAIN NoFees /\ DOMAIN st.held = DOMAIN NothingHeld
         /\ BallotsOK(st.ballots) /\ ProposalsOK(st.proposals) /\ epoch \in Nat \ {0} /\ now \in Nat
BY DEF Sound, Shaped

\* The record a ballot is opened with.
Opening(st, d, round, major, obligated, commitEnds, revealEnds, prev) ==
  [dispute |-> d, round |-> round, majorRequested |-> major, sealed |-> epoch,
   obligated |-> obligated, phase |-> "commit", commitEnds |-> commitEnds, revealEnds |-> revealEnds,
   tally |-> NoWeights, top |-> << >>, commits |-> << >>, reveals |-> << >>,
   outcome |-> "", tier |-> "", coherentWeight |-> 0, expectedPool |-> 0, bondShare |-> 0,
   resolvedAt |-> 0, prev |-> prev, final |-> FALSE, appealed |-> FALSE]

\* t has one ballot more than st.
Opens(t, st, d, round, prev) ==
  /\ BallotsOnly(t, st) /\ t.ok = st.ok
  /\ \E b : /\ BallotOK(b) /\ b.prev \in 0 .. Len(st.ballots) /\ t.ballots = Append(st.ballots, b)
            /\ b.dispute = d /\ b.round = round /\ b.phase = "commit" /\ b.outcome = "" /\ b.final = FALSE
            /\ b.prev = prev

LEMMA OpenBallotIs ==
  ASSUME NEW st, Sound(st), NEW d, NEW round, NEW major, NEW prev, prev \in 0 .. Len(st.ballots),
         NEW t, t = OpenBallot(st, d, round, major, prev)
  PROVE  Opens(t, st, d, round, prev)
<1> DEFINE obligated == TotalPowerAt(st, epoch)
           commitEnds == now + Param.commitPeriod[round]
           revealEnds == commitEnds + Param.revealPeriod[round]
           b == Opening(st, d, round, major, obligated, commitEnds, revealEnds, prev)
<1>1. t = NewBallot(st, d, round, major, obligated, commitEnds, revealEnds, prev)
  BY DEF OpenBallot
<1>2. obligated \in Int
  <2> DEFINE e == epoch
  <2>1. e \in Nat
    BY SoundShape
  <2>2. TotalPowerAt(st, e) \in Int
    <3> HIDE DEF e
    <3> QED
      BY <2>1, PowerIsInt
  <2> QED
    BY <2>2
<1> HIDE DEF obligated, commitEnds, revealEnds
<1>3. NoWeights \in [BallotChoices -> Int]
  BY DEF NoWeights
<1>4. /\ DOMAIN b = BallotFields /\ b.sealed = epoch /\ b.obligated = obligated /\ b.tally = NoWeights
      /\ b.coherentWeight = 0 /\ b.expectedPool = 0 /\ b.bondShare = 0 /\ b.resolvedAt = 0 /\ b.reveals = << >>
      /\ b.dispute = d /\ b.round = round /\ b.phase = "commit" /\ b.outcome = "" /\ b.final = FALSE /\ b.prev = prev
  BY DEF Opening, BallotFields
<1>5. t = [st EXCEPT !.ballots = Append(@, b)]
  BY <1>1 DEF NewBallot, Opening
<1> HIDE DEF b
<1>6. BallotOK(b)
  <2>1. epoch \in 1 .. epoch
    BY SoundShape
  <2>2. DOMAIN b.reveals = {}
    <3>1. b.reveals = << >>
      BY <1>4
    <3> QED
      BY <3>1
  <2>3. /\ DOMAIN b = BallotFields /\ b.sealed \in 1 .. epoch /\ b.obligated \in Int
        /\ b.tally \in [BallotChoices -> Int] /\ b.coherentWeight \in Int /\ b.expectedPool \in Int
        /\ b.bondShare \in Int /\ b.resolvedAt \in Int /\ b.final \in BOOLEAN
    <3>1. b.sealed \in 1 .. epoch
      BY <1>4, <2>1
    <3>2. b.obligated \in Int /\ b.tally \in [BallotChoices -> Int]
      BY <1>2, <1>3, <1>4
    <3>3. DOMAIN b = BallotFields /\ b.coherentWeight = 0 /\ b.expectedPool = 0 /\ b.bondShare = 0 /\ b.resolvedAt = 0
          /\ b.final = FALSE
      BY <1>4
    <3>4. 0 \in Int /\ FALSE \in BOOLEAN
      OBVIOUS
    <3> QED
      BY <3>1, <3>2, <3>3, <3>4
  <2>4. \A m \in DOMAIN b.reveals : b.reveals[m].weight \in Int
    BY <2>2
  <2> QED
    BY <2>3, <2>4 DEF BallotOK
<1>7. /\ DOMAIN t = StoreFields /\ t.power = st.power /\ t.fees = st.fees /\ t.members = st.members
      /\ t.proposals = st.proposals /\ t.pyth = st.pyth /\ t.wallets = st.wallets /\ t.ok = st.ok
      /\ t.held = st.held /\ t.ballots = Append(st.ballots, b)
  BY <1>5, SoundShape DEF StoreFields
<1>8. BallotsOnly(t, st)
  BY <1>7, SoundShape DEF BallotsOnly, SameFees, SameHeld
<1> QED
  BY <1>4, <1>6, <1>7, <1>8 DEF Opens

LEMMA OpensGoes ==
  ASSUME NEW st, Sound(st), NEW t, NEW d, NEW round, NEW prev, Opens(t, st, d, round, prev)
  PROVE  Goes(t, st)
<1>1. BallotsOnly(t, st)
  BY DEF Opens
<1>2. PICK b : BallotOK(b) /\ b.prev \in 0 .. Len(st.ballots) /\ t.ballots = Append(st.ballots, b)
  BY DEF Opens
<1> DEFINE bs == st.ballots
           cs == t.ballots
<1>3. BallotsOK(bs) /\ b.prev \in 0 .. Len(bs) /\ cs = Append(bs, b)
  BY <1>2, SoundShape
<1> HIDE DEF bs, cs
<1>4. BallotsOK(cs) /\ BallotsGrow(cs, bs)
  BY <1>2, <1>3, OneMoreGrows
<1> QED
  BY <1>1, <1>4, BallotsGo DEF bs, cs

\* c is a later record of the same ballot as b, now of this phase, outcome and finality.
LaterOf(c, b, phase, outcome, final) ==
  /\ BallotOK(c) /\ Kin(c, b)
  /\ c.dispute = b.dispute /\ c.round = b.round /\ c.prev = b.prev
  /\ c.phase = phase /\ c.outcome = outcome /\ c.final = final

\* t has the record of one ballot changed to this phase, outcome and finality.
Becomes(t, st, seq, phase, outcome, final) ==
  /\ BallotsOnly(t, st)
  /\ \E c : /\ t.ballots = [st.ballots EXCEPT ![seq] = c]
            /\ seq \in DOMAIN st.ballots => LaterOf(c, st.ballots[seq], phase, outcome, final)

LEMMA BecomesGoes ==
  ASSUME NEW st, Sound(st), NEW t, NEW seq, NEW phase, NEW outcome, NEW final,
         Becomes(t, st, seq, phase, outcome, final)
  PROVE  Goes(t, st)
<1>1. BallotsOnly(t, st)
  BY DEF Becomes
<1>2. PICK c : /\ t.ballots = [st.ballots EXCEPT ![seq] = c]
               /\ seq \in DOMAIN st.ballots => BallotOK(c) /\ Kin(c, st.ballots[seq])
  BY DEF Becomes, LaterOf
<1> DEFINE bs == st.ballots
           cs == t.ballots
<1>3. BallotsOK(bs) /\ cs = [bs EXCEPT ![seq] = c] /\ (seq \in DOMAIN bs => BallotOK(c) /\ Kin(c, bs[seq]))
  BY <1>2, SoundShape
<1> HIDE DEF bs, cs
<1>4. BallotsOK(cs) /\ BallotsGrow(cs, bs)
  BY <1>3, OtherRecordGrows
<1> QED
  BY <1>1, <1>4, BallotsGo DEF bs, cs

\* t is st with another record of this ballot.
Wrote(t, st, seq, c) ==
  /\ DOMAIN t = StoreFields
  /\ t.members = st.members /\ t.power = st.power /\ t.fees = st.fees /\ t.proposals = st.proposals
  /\ t.held = st.held /\ t.ugnot = st.ugnot /\ t.pyth = st.pyth /\ t.wallets = st.wallets /\ t.ok = st.ok
  /\ t.ballots = [st.ballots EXCEPT ![seq] = c]

Rewritten(st, seq, c) == [st EXCEPT !.ballots[seq] = c]

LEMMA RewrittenWrote ==
  ASSUME NEW st, DOMAIN st = StoreFields, NEW seq, NEW c, NEW t, t = Rewritten(st, seq, c)
  PROVE  Wrote(t, st, seq, c)
BY DEF Rewritten, StoreFields, Wrote

LEMMA WrittenTwice ==
  ASSUME NEW f, IsSequence(f), NEW seq, NEW a, NEW c
  PROVE  [[f EXCEPT ![seq] = a] EXCEPT ![seq] = c] = [f EXCEPT ![seq] = c]
OBVIOUS

LEMMA WroteOn ==
  ASSUME NEW st, NEW t, NEW u, IsSequence(st.ballots), NEW seq, NEW a, NEW c, Wrote(t, st, seq, a), Wrote(u, t, seq, c)
  PROVE  Wrote(u, st, seq, c)
<1>1. u.ballots = [[st.ballots EXCEPT ![seq] = a] EXCEPT ![seq] = c]
  BY DEF Wrote
<1>2. u.ballots = [st.ballots EXCEPT ![seq] = c]
  BY <1>1, WrittenTwice
<1> QED
  BY <1>2 DEF Wrote

LEMMA WroteBecomes ==
  ASSUME NEW st, Sound(st), NEW seq, NEW c, NEW t, Wrote(t, st, seq, c),
         NEW phase, NEW outcome, NEW final,
         seq \in DOMAIN st.ballots => LaterOf(c, st.ballots[seq], phase, outcome, final)
  PROVE  Becomes(t, st, seq, phase, outcome, final)
<1>1. BallotsOnly(t, st)
  BY SoundShape DEF BallotsOnly, SameFees, SameHeld, Wrote
<1> QED
  BY <1>1 DEF Becomes, Wrote

\* What happens after a change of coins only.
LEMMA BecomesAfter ==
  ASSUME NEW st, NEW q, NEW t, BallotsOnly(q, st), q.ballots = st.ballots,
         NEW seq, NEW phase, NEW outcome, NEW final, Becomes(t, q, seq, phase, outcome, final)
  PROVE  Becomes(t, st, seq, phase, outcome, final)
BY BallotsOnlyOn DEF Becomes

LEMMA BecomesBefore ==
  ASSUME NEW st, NEW q, NEW t, NEW seq, NEW phase, NEW outcome, NEW final, Becomes(q, st, seq, phase, outcome, final),
         BallotsOnly(t, q), t.ballots = q.ballots
  PROVE  Becomes(t, st, seq, phase, outcome, final)
BY BallotsOnlyOn DEF Becomes

LEMMA RequireBallots ==
  ASSUME NEW st, Sound(st), NEW cond, NEW t, t = Require(st, cond)
  PROVE  /\ Sound(t) /\ BallotsOnly(t, st) /\ DOMAIN t = StoreFields
         /\ t.ballots = st.ballots /\ t.held = st.held /\ t.ugnot = st.ugnot /\ (t.ok => st.ok /\ cond)
<1>1. Sound(t) /\ (t.ok => st.ok /\ cond)
  BY RequireFollows DEF Follows
<1>2. /\ DOMAIN t = StoreFields /\ t.power = st.power /\ t.fees = st.fees /\ t.members = st.members
      /\ t.proposals = st.proposals /\ t.pyth = st.pyth /\ t.wallets = st.wallets
      /\ t.held = st.held /\ t.ballots = st.ballots /\ t.ugnot = st.ugnot
  BY SoundShape DEF Require, StoreFields
<1> QED
  BY <1>1, <1>2, SoundShape DEF BallotsOnly, SameFees, SameHeld

\* The record of a ballot with one commit more.
CommittedBallot(b, m, choice) ==
  [b EXCEPT !.commits = [x \in DOMAIN b.commits \cup {m} |-> IF x = m THEN choice ELSE b.commits[x]]]

LEMMA BallotCommitWrites ==
  ASSUME NEW st, DOMAIN st = StoreFields, NEW seq, NEW m, NEW choice, NEW t, t = BallotCommit(st, seq, m, choice)
  PROVE  Wrote(t, st, seq, CommittedBallot(st.ballots[seq], m, choice))
<1> DEFINE b == st.ballots[seq]
           commits == [x \in DOMAIN b.commits \cup {m} |-> IF x = m THEN choice ELSE b.commits[x]]
           c == [b EXCEPT !.commits = commits]
<1>1. t = Rewritten(st, seq, c)
  BY DEF BallotCommit, Rewritten
<1>2. c = CommittedBallot(b, m, choice)
  BY DEF CommittedBallot
<1> HIDE DEF b, c
<1>3. Wrote(t, st, seq, c)
  BY <1>1, RewrittenWrote
<1> QED
  BY <1>2, <1>3 DEF b

LEMMA BallotCommitIs ==
  ASSUME NEW st, Sound(st), NEW seq, NEW m, NEW choice, NEW t, t = BallotCommit(st, seq, m, choice)
  PROVE  Becomes(t, st, seq, st.ballots[seq].phase, st.ballots[seq].outcome, st.ballots[seq].final) /\ t.ok = st.ok
<1> DEFINE b == st.ballots[seq]
           c == CommittedBallot(b, m, choice)
<1>1. Wrote(t, st, seq, c)
  BY SoundShape, BallotCommitWrites
<1>2. seq \in DOMAIN st.ballots => LaterOf(c, b, b.phase, b.outcome, b.final)
  <2> SUFFICES ASSUME seq \in DOMAIN st.ballots
               PROVE  LaterOf(c, b, b.phase, b.outcome, b.final)
    OBVIOUS
  <2>1. BallotOK(b)
    BY SoundShape DEF BallotsOK
  <2> HIDE DEF b
  <2> QED
    BY <2>1 DEF BallotOK, Kin, BallotFields, LaterOf, CommittedBallot
<1> HIDE DEF c
<1>3. t.ok = st.ok
  BY <1>1 DEF Wrote
<1>4. Becomes(t, st, seq, b.phase, b.outcome, b.final)
  BY <1>1, <1>2, WroteBecomes
<1> QED
  BY <1>3, <1>4

\* The record of a ballot with one reveal more.
RevealedBallot(b, m, choice, weight, top) ==
  [b EXCEPT !.reveals = [x \in DOMAIN b.reveals \cup {m} |->
                           IF x = m THEN [choice |-> choice, weight |-> weight] ELSE b.reveals[x]],
            !.tally = [b.tally EXCEPT ![choice] = @ + weight], !.top = top, !.phase = "reveal"]

LEMMA BallotRevealWrites ==
  ASSUME NEW st, Sound(st), NEW seq, seq \in DOMAIN st.ballots, NEW m, NEW choice,
         NEW weight, NEW top, NEW t, t = BallotReveal(st, seq, m, choice, weight, top)
  PROVE  LET b == st.ballots[seq]
             q == Require(st, m \notin DOMAIN b.reveals)
         IN Wrote(t, q, seq, RevealedBallot(b, m, choice, weight, top))
<1> DEFINE b == st.ballots[seq]
           reveals == [x \in DOMAIN b.reveals \cup {m} |->
                         IF x = m THEN [choice |-> choice, weight |-> weight] ELSE b.reveals[x]]
           tally == [b.tally EXCEPT ![choice] = @ + weight]
           b1 == [b EXCEPT !.reveals = reveals]
           b2 == [b1 EXCEPT !.tally = tally]
           b3 == [b2 EXCEPT !.top = top]
           c == [b3 EXCEPT !.phase = "reveal"]
           cond == m \notin DOMAIN b.reveals
           q == Require(st, cond)
           q1 == Rewritten(q, seq, b1)
           q2 == Rewritten(q1, seq, b2)
           q3 == Rewritten(q2, seq, b3)
<1>1. /\ Sound(q) /\ BallotsOnly(q, st) /\ DOMAIN q = StoreFields /\ q.ballots = st.ballots
      /\ (q.ok => st.ok)
  <2> HIDE DEF cond
  <2> QED
    BY RequireBallots
<1>2. t = [q EXCEPT !.ballots[seq].reveals = reveals, !.ballots[seq].tally[choice] = @ + weight,
                    !.ballots[seq].top = top, !.ballots[seq].phase = "reveal"]
  BY <1>1 DEF BallotReveal
<1> HIDE DEF q
<1>3. BallotOK(b)
  BY SoundShape DEF BallotsOK
<1>4. IsSequence(q.ballots)
  BY <1>1, SoundShape DEF BallotsOK
<1>5. t = Rewritten(q3, seq, c)
  <2> HIDE DEF reveals
  <2> QED
    BY <1>1, <1>2, <1>3 DEF Rewritten, StoreFields, BallotOK, BallotFields
<1>6. Wrote(t, q, seq, c)
  <2> HIDE DEF b1, b2, b3, c
  <2>1. Wrote(q1, q, seq, b1)
    BY <1>1, RewrittenWrote
  <2>2. Wrote(q2, q1, seq, b2)
    <3>1. DOMAIN q1 = StoreFields
      BY <2>1 DEF Wrote
    <3> HIDE DEF q1
    <3> QED
      BY <3>1, RewrittenWrote
  <2>3. Wrote(q3, q2, seq, b3)
    <3>1. DOMAIN q2 = StoreFields
      BY <2>2 DEF Wrote
    <3> HIDE DEF q2
    <3> QED
      BY <3>1, RewrittenWrote
  <2>4. Wrote(t, q3, seq, c)
    <3>1. DOMAIN q3 = StoreFields
      BY <2>3 DEF Wrote
    <3> HIDE DEF q3
    <3> QED
      BY <1>5, <3>1, RewrittenWrote
  <2> HIDE DEF q1, q2, q3
  <2>5. Wrote(q2, q, seq, b2)
    BY <1>4, <2>1, <2>2, WroteOn
  <2>6. Wrote(q3, q, seq, b3)
    BY <1>4, <2>3, <2>5, WroteOn
  <2> QED
    BY <1>4, <2>4, <2>6, WroteOn
<1>7. c = RevealedBallot(b, m, choice, weight, top)
  BY DEF RevealedBallot
<1> HIDE DEF b, c
<1>8. Wrote(t, q, seq, RevealedBallot(b, m, choice, weight, top))
  BY <1>6, <1>7
<1> QED
  BY <1>8 DEF b, q, cond

LEMMA BallotRevealIs ==
  ASSUME NEW st, Sound(st), NEW seq, seq \in DOMAIN st.ballots, NEW m, NEW choice, choice \in BallotChoices,
         NEW weight, weight \in Int, NEW top, NEW t, t = BallotReveal(st, seq, m, choice, weight, top)
  PROVE  Becomes(t, st, seq, "reveal", st.ballots[seq].outcome, st.ballots[seq].final) /\ (t.ok => st.ok)
<1> DEFINE b == st.ballots[seq]
           cond == m \notin DOMAIN b.reveals
           q == Require(st, cond)
           reveals == [x \in DOMAIN b.reveals \cup {m} |->
                         IF x = m THEN [choice |-> choice, weight |-> weight] ELSE b.reveals[x]]
           tally == [b.tally EXCEPT ![choice] = @ + weight]
           c == RevealedBallot(b, m, choice, weight, top)
<1>1. Sound(q) /\ BallotsOnly(q, st) /\ q.ballots = st.ballots /\ (q.ok => st.ok)
  <2> HIDE DEF cond
  <2> QED
    BY RequireBallots
<1>2. BallotOK(b)
  BY SoundShape DEF BallotsOK
<1>3. Wrote(t, q, seq, c)
  BY BallotRevealWrites
<1> HIDE DEF q
<1>4. LaterOf(c, b, "reveal", b.outcome, b.final)
  <2>1. tally \in [BallotChoices -> Int]
    BY <1>2 DEF BallotOK
  <2>2. \A x \in DOMAIN reveals : reveals[x].weight \in Int
    BY <1>2 DEF BallotOK
  <2> HIDE DEF b
  <2>3. /\ DOMAIN c = BallotFields /\ c.reveals = reveals /\ c.tally = tally /\ c.phase = "reveal"
        /\ c.sealed = b.sealed /\ c.obligated = b.obligated /\ c.coherentWeight = b.coherentWeight
        /\ c.expectedPool = b.expectedPool /\ c.bondShare = b.bondShare /\ c.resolvedAt = b.resolvedAt
        /\ c.dispute = b.dispute /\ c.round = b.round /\ c.prev = b.prev
        /\ c.outcome = b.outcome /\ c.final = b.final
    BY <1>2 DEF BallotOK, BallotFields, RevealedBallot
  <2> HIDE DEF c, reveals, tally
  <2>4. BallotOK(c)
    BY <1>2, <2>1, <2>2, <2>3 DEF BallotOK
  <2> QED
    BY <2>3, <2>4 DEF LaterOf, Kin
<1>5. t.ok => st.ok
  BY <1>1, <1>3 DEF Wrote
<1> HIDE DEF c
<1>6. Becomes(t, q, seq, "reveal", b.outcome, b.final)
  BY <1>1, <1>3, <1>4, WroteBecomes
<1>7. Becomes(t, st, seq, "reveal", b.outcome, b.final)
  BY <1>1, <1>6, BecomesAfter
<1> QED
  BY <1>5, <1>7

\* Writing one field after the other.
FieldSet(st, seq, f, v) == [st EXCEPT !.ballots[seq][f] = v]

LEMMA FieldSetWrote ==
  ASSUME NEW st, DOMAIN st = StoreFields, NEW seq, NEW f, NEW v, NEW t, t = FieldSet(st, seq, f, v)
  PROVE  Wrote(t, st, seq, [st.ballots[seq] EXCEPT ![f] = v])
<1>1. t = Rewritten(st, seq, [st.ballots[seq] EXCEPT ![f] = v])
  BY DEF FieldSet, Rewritten
<1> QED
  BY <1>1, RewrittenWrote

LEMMA FieldSetOn ==
  ASSUME NEW st, IsSequence(st.ballots), NEW seq, seq \in DOMAIN st.ballots, NEW c, NEW t, Wrote(t, st, seq, c),
         NEW f, NEW v, NEW u, u = FieldSet(t, seq, f, v)
  PROVE  Wrote(u, st, seq, [c EXCEPT ![f] = v])
<1>1. DOMAIN t = StoreFields /\ t.ballots = [st.ballots EXCEPT ![seq] = c]
  BY DEF Wrote
<1>2. t.ballots[seq] = c
  BY <1>1
<1>3. Wrote(u, t, seq, [c EXCEPT ![f] = v])
  BY <1>1, <1>2, FieldSetWrote
<1> QED
  BY <1>3, WroteOn

LEMMA ResolvedByFields ==
  ASSUME NEW st, NEW seq, NEW outcome, NEW tier, NEW coherent, NEW pool
  PROVE  BallotResolve(st, seq, outcome, tier, coherent, pool) =
           LET phased   == FieldSet(st, seq, "phase", "resolved")
               decided  == FieldSet(phased, seq, "outcome", outcome)
               tiered   == FieldSet(decided, seq, "tier", tier)
               weighed  == FieldSet(tiered, seq, "coherentWeight", coherent)
               pooled   == FieldSet(weighed, seq, "expectedPool", pool)
               dated    == FieldSet(pooled, seq, "resolvedAt", now)
           IN FieldSet(dated, seq, "final", st.ballots[seq].final \/ outcome = "ROLL")
BY Zenon DEF FieldSet, BallotResolve

\* The record of a ballot that is decided.
ResolvedBallot(b, outcome, tier, coherent, pool) ==
  LET phased  == [b EXCEPT !["phase"] = "resolved"]
      decided == [phased EXCEPT !["outcome"] = outcome]
      tiered  == [decided EXCEPT !["tier"] = tier]
      weighed == [tiered EXCEPT !["coherentWeight"] = coherent]
      pooled  == [weighed EXCEPT !["expectedPool"] = pool]
      dated   == [pooled EXCEPT !["resolvedAt"] = now]
  IN [dated EXCEPT !["final"] = b.final \/ outcome = "ROLL"]

LEMMA BallotResolveWrites ==
  ASSUME NEW st, Sound(st), NEW seq, seq \in DOMAIN st.ballots, NEW outcome, NEW tier, NEW coherent, NEW pool,
         NEW t, t = BallotResolve(st, seq, outcome, tier, coherent, pool)
  PROVE  Wrote(t, st, seq, ResolvedBallot(st.ballots[seq], outcome, tier, coherent, pool))
<1> DEFINE b == st.ballots[seq]
           final == b.final \/ outcome = "ROLL"
           u1 == FieldSet(st, seq, "phase", "resolved")
           u2 == FieldSet(u1, seq, "outcome", outcome)
           u3 == FieldSet(u2, seq, "tier", tier)
           u4 == FieldSet(u3, seq, "coherentWeight", coherent)
           u5 == FieldSet(u4, seq, "expectedPool", pool)
           u6 == FieldSet(u5, seq, "resolvedAt", now)
           c1 == [b EXCEPT !["phase"] = "resolved"]
           c2 == [c1 EXCEPT !["outcome"] = outcome]
           c3 == [c2 EXCEPT !["tier"] = tier]
           c4 == [c3 EXCEPT !["coherentWeight"] = coherent]
           c5 == [c4 EXCEPT !["expectedPool"] = pool]
           c6 == [c5 EXCEPT !["resolvedAt"] = now]
           c == [c6 EXCEPT !["final"] = final]
<1>1. IsSequence(st.ballots) /\ DOMAIN st = StoreFields
  BY SoundShape DEF BallotsOK
<1>2. t = FieldSet(u6, seq, "final", final)
  BY ResolvedByFields
<1> HIDE DEF final
<1>3. Wrote(t, st, seq, c)
  <2>1. Wrote(u1, st, seq, c1)
    BY <1>1, FieldSetWrote
  <2> HIDE DEF u1, c1
  <2>2. Wrote(u2, st, seq, c2)
    BY <1>1, <2>1, FieldSetOn
  <2> HIDE DEF u2, c2
  <2>3. Wrote(u3, st, seq, c3)
    BY <1>1, <2>2, FieldSetOn
  <2> HIDE DEF u3, c3
  <2>4. Wrote(u4, st, seq, c4)
    BY <1>1, <2>3, FieldSetOn
  <2> HIDE DEF u4, c4
  <2>5. Wrote(u5, st, seq, c5)
    BY <1>1, <2>4, FieldSetOn
  <2> HIDE DEF u5, c5
  <2>6. Wrote(u6, st, seq, c6)
    BY <1>1, <2>5, FieldSetOn
  <2> HIDE DEF u6, c6
  <2> QED
    BY <1>1, <1>2, <2>6, FieldSetOn
<1>4. c = ResolvedBallot(b, outcome, tier, coherent, pool)
  BY DEF ResolvedBallot, final
<1> HIDE DEF b, c
<1>5. Wrote(t, st, seq, ResolvedBallot(b, outcome, tier, coherent, pool))
  BY <1>3, <1>4
<1> QED
  BY <1>5 DEF b

LEMMA BallotResolveIs ==
  ASSUME NEW st, Sound(st), NEW seq, seq \in DOMAIN st.ballots, NEW outcome, NEW tier,
         NEW coherent, coherent \in Int, NEW pool, pool \in Int,
         NEW t, t = BallotResolve(st, seq, outcome, tier, coherent, pool)
  PROVE  Becomes(t, st, seq, "resolved", outcome, st.ballots[seq].final \/ outcome = "ROLL") /\ t.ok = st.ok
<1> DEFINE b == st.ballots[seq]
           final == b.final \/ outcome = "ROLL"
           c == ResolvedBallot(b, outcome, tier, coherent, pool)
<1>1. BallotOK(b) /\ now \in Nat
  BY SoundShape DEF BallotsOK
<1>2. Wrote(t, st, seq, c)
  BY BallotResolveWrites
<1>3. LaterOf(c, b, "resolved", outcome, final)
  <2>1. final \in BOOLEAN
    OBVIOUS
  <2>2. b.final = TRUE => final = TRUE
    OBVIOUS
  <2> HIDE DEF b
  <2>3. /\ DOMAIN c = BallotFields /\ c.reveals = b.reveals /\ c.tally = b.tally /\ c.phase = "resolved"
        /\ c.sealed = b.sealed /\ c.obligated = b.obligated /\ c.coherentWeight = coherent
        /\ c.expectedPool = pool /\ c.bondShare = b.bondShare /\ c.resolvedAt = now
        /\ c.dispute = b.dispute /\ c.round = b.round /\ c.prev = b.prev
        /\ c.outcome = outcome /\ c.final = final
    BY <1>1 DEF BallotOK, BallotFields, ResolvedBallot
  <2> HIDE DEF c, final
  <2>4. BallotOK(c)
    BY <1>1, <2>1, <2>3 DEF BallotOK
  <2> QED
    BY <2>2, <2>3, <2>4 DEF LaterOf, Kin
<1>4. t.ok = st.ok
  BY <1>2 DEF Wrote
<1> HIDE DEF c, final
<1>5. Becomes(t, st, seq, "resolved", outcome, final)
  BY <1>2, <1>3, WroteBecomes
<1> QED
  BY <1>4, <1>5 DEF final

\* A change of what the realm holds in coins, one amount after the other.
HeldSet(st, f, v) == [st EXCEPT !.held[f] = v]

LEMMA HeldSetIs ==
  ASSUME NEW st, Sound(st), NEW f, f \in {"rewardUgnot", "knownUgnot", "depositUgnot", "feeUgnot"}, NEW v,
         NEW t, t = HeldSet(st, f, v)
  PROVE  CoinsOnly(t, st) /\ BallotsOnly(t, st) /\ t.ballots = st.ballots /\ t.ok = st.ok
<1>1. /\ DOMAIN t = StoreFields /\ t.power = st.power /\ t.fees = st.fees /\ t.members = st.members
      /\ t.proposals = st.proposals /\ t.pyth = st.pyth /\ t.wallets = st.wallets
      /\ t.held = [st.held EXCEPT ![f] = v] /\ t.ballots = st.ballots /\ t.ok = st.ok
  BY SoundShape DEF HeldSet, StoreFields
<1>2. SameHeld(t.held, st.held)
  BY <1>1, SoundShape DEF SameHeld, NothingHeld
<1>3. \A m \in Members : SameMember(t.members[m], st.members[m])
  BY <1>1 DEF SameMember, Sound, Shaped
<1>4. DOMAIN t.members = Members
  BY <1>1 DEF Sound, Shaped
<1> QED
  BY <1>1, <1>2, <1>3, <1>4, SoundShape DEF CoinsOnly, BallotsOnly, SameFees

LEMMA FundedByFields ==
  ASSUME NEW st, NEW seq, NEW amount
  PROVE  BallotFund(st, seq, amount) =
           LET q == Require(st, amount = 0 \/ st.held.knownUgnot + amount <= st.ugnot)
               settled == FieldSet(q, seq, "final", TRUE)
               funded  == FieldSet(settled, seq, "bondShare", q.ballots[seq].bondShare + amount)
               booked  == HeldSet(funded, "rewardUgnot", q.held.rewardUgnot + amount)
           IN HeldSet(booked, "knownUgnot", q.held.knownUgnot + amount)
BY Zenon DEF FieldSet, HeldSet, BallotFund

\* The record of a ballot that got its coins.
FundedBallot(b, share) ==
  LET closed == [b EXCEPT !["final"] = TRUE] IN [closed EXCEPT !["bondShare"] = share]

\* What a ballot gets is owed as rewards, and known of.
LEMMA BallotFundWrites ==
  ASSUME NEW st, Sound(st), NEW seq, seq \in DOMAIN st.ballots, NEW amount,
         NEW t, t = BallotFund(st, seq, amount)
  PROVE  LET q == Require(st, amount = 0 \/ st.held.knownUgnot + amount <= st.ugnot) IN
         \E u : /\ Wrote(u, q, seq, FundedBallot(q.ballots[seq], q.ballots[seq].bondShare + amount))
                /\ t = HeldSet(HeldSet(u, "rewardUgnot", q.held.rewardUgnot + amount),
                               "knownUgnot", q.held.knownUgnot + amount)
<1> DEFINE cond == amount = 0 \/ st.held.knownUgnot + amount <= st.ugnot
           q == Require(st, cond)
           b == q.ballots[seq]
           share == b.bondShare + amount
           u1 == FieldSet(q, seq, "final", TRUE)
           u2 == FieldSet(u1, seq, "bondShare", share)
           reward == q.held.rewardUgnot + amount
           known == q.held.knownUgnot + amount
           c1 == [b EXCEPT !["final"] = TRUE]
           c == [c1 EXCEPT !["bondShare"] = share]
<1>1. Sound(q) /\ DOMAIN q = StoreFields /\ q.ballots = st.ballots
  <2> HIDE DEF cond
  <2> QED
    BY RequireBallots
<1>2. t = HeldSet(HeldSet(u2, "rewardUgnot", reward), "knownUgnot", known)
  BY FundedByFields
<1> HIDE DEF q
<1>3. IsSequence(q.ballots)
  BY <1>1, SoundShape DEF BallotsOK
<1>4. c = FundedBallot(b, share)
  BY DEF FundedBallot
<1> HIDE DEF b, share, known, reward
<1>5. Wrote(u2, q, seq, c)
  <2>1. Wrote(u1, q, seq, c1)
    BY <1>1, FieldSetWrote DEF b
  <2> HIDE DEF u1, c1
  <2> QED
    BY <1>1, <1>3, <2>1, FieldSetOn
<1> HIDE DEF c, u2
<1>6. Wrote(u2, q, seq, FundedBallot(b, share))
  BY <1>4, <1>5
<1> QED
  BY <1>2, <1>6 DEF b, share, known, reward, q, cond

LEMMA BallotFundIs ==
  ASSUME NEW st, Sound(st), NEW seq, seq \in DOMAIN st.ballots, NEW amount, amount \in Nat,
         NEW t, t = BallotFund(st, seq, amount)
  PROVE  Becomes(t, st, seq, st.ballots[seq].phase, st.ballots[seq].outcome, TRUE) /\ (t.ok => st.ok)
<1> DEFINE cond == amount = 0 \/ st.held.knownUgnot + amount <= st.ugnot
           q == Require(st, cond)
           b == st.ballots[seq]
           share == q.ballots[seq].bondShare + amount
           reward == q.held.rewardUgnot + amount
           known == q.held.knownUgnot + amount
           c == FundedBallot(q.ballots[seq], share)
<1>1. /\ Sound(q) /\ BallotsOnly(q, st) /\ DOMAIN q = StoreFields /\ q.ballots = st.ballots
      /\ (q.ok => st.ok)
  <2> HIDE DEF cond
  <2> QED
    BY RequireBallots
<1>2. PICK u2 : Wrote(u2, q, seq, c) /\ t = HeldSet(HeldSet(u2, "rewardUgnot", reward), "knownUgnot", known)
  <2> HIDE DEF c, reward, known
  <2> QED
    BY BallotFundWrites DEF c, reward, known, share
<1> DEFINE u3 == HeldSet(u2, "rewardUgnot", reward)
<1> HIDE DEF q
<1>3. BallotOK(b)
  BY <1>1, SoundShape DEF BallotsOK
<1>4. share \in Int
  BY <1>1, <1>3 DEF BallotOK
<1>5. c = FundedBallot(b, share)
  BY <1>1
<1> HIDE DEF share, known, reward, c
<1>6. LaterOf(c, b, b.phase, b.outcome, TRUE)
  <2> HIDE DEF b
  <2>1. /\ DOMAIN c = BallotFields /\ c.reveals = b.reveals /\ c.tally = b.tally /\ c.phase = b.phase
        /\ c.sealed = b.sealed /\ c.obligated = b.obligated /\ c.coherentWeight = b.coherentWeight
        /\ c.expectedPool = b.expectedPool /\ c.bondShare = share /\ c.resolvedAt = b.resolvedAt
        /\ c.dispute = b.dispute /\ c.round = b.round /\ c.prev = b.prev
        /\ c.outcome = b.outcome /\ c.final = TRUE
    BY <1>3, <1>5 DEF BallotOK, BallotFields, FundedBallot
  <2>2. BallotOK(c)
    BY <1>3, <1>4, <2>1 DEF BallotOK
  <2> QED
    BY <2>1, <2>2 DEF LaterOf, Kin
<1>7. Becomes(u2, st, seq, b.phase, b.outcome, TRUE)
  <2>1. Becomes(u2, q, seq, b.phase, b.outcome, TRUE)
    BY <1>1, <1>2, <1>6, WroteBecomes
  <2> QED
    BY <1>1, <2>1, BecomesAfter
<1>8. Sound(u2)
  BY <1>7, BecomesGoes DEF Goes
<1>9. CoinsOnly(u3, u2) /\ BallotsOnly(u3, u2) /\ u3.ballots = u2.ballots /\ u3.ok = u2.ok
  BY <1>8, HeldSetIs
<1>10. Sound(u3)
  <2>1. u3.proposals = u2.proposals
    BY <1>9 DEF BallotsOnly
  <2> QED
    BY <1>8, <1>9, <2>1, CoinsFollow DEF Follows
<1>11. t = HeldSet(u3, "knownUgnot", known)
  BY <1>2
<1> HIDE DEF u3
<1>12. BallotsOnly(t, u3) /\ t.ballots = u3.ballots /\ t.ok = u3.ok
  BY <1>11, <1>10, HeldSetIs
<1>13. BallotsOnly(t, u2) /\ t.ballots = u2.ballots
  BY <1>9, <1>12, BallotsOnlyOn
<1>14. Becomes(t, st, seq, b.phase, b.outcome, TRUE)
  BY <1>7, <1>13, BecomesBefore
<1>15. t.ok => st.ok
  BY <1>1, <1>2, <1>9, <1>12 DEF Wrote
<1> QED
  BY <1>14, <1>15

LEMMA SupersededByFields ==
  ASSUME NEW st, NEW seq, NEW pool
  PROVE  BallotSupersede(st, seq, pool) =
           LET q == Require(st, st.ballots[seq].phase = "resolved" /\ ~st.ballots[seq].final)
               marked  == FieldSet(q, seq, "appealed", TRUE)
               weighed == FieldSet(marked, seq, "coherentWeight", 0)
               pooled  == FieldSet(weighed, seq, "expectedPool", pool)
           IN FieldSet(pooled, seq, "final", TRUE)
BY Zenon DEF FieldSet, BallotSupersede

\* The record of a ballot that was appealed.
SupersededBallot(b, pool) ==
  LET marked  == [b EXCEPT !["appealed"] = TRUE]
      weighed == [marked EXCEPT !["coherentWeight"] = 0]
      pooled  == [weighed EXCEPT !["expectedPool"] = pool]
  IN [pooled EXCEPT !["final"] = TRUE]

LEMMA BallotSupersedeWrites ==
  ASSUME NEW st, Sound(st), NEW seq, seq \in DOMAIN st.ballots, NEW pool, NEW t, t = BallotSupersede(st, seq, pool)
  PROVE  LET b == st.ballots[seq]
             q == Require(st, b.phase = "resolved" /\ ~b.final)
         IN Wrote(t, q, seq, SupersededBallot(b, pool))
<1> DEFINE b == st.ballots[seq]
           cond == b.phase = "resolved" /\ ~b.final
           q == Require(st, cond)
           u1 == FieldSet(q, seq, "appealed", TRUE)
           u2 == FieldSet(u1, seq, "coherentWeight", 0)
           u3 == FieldSet(u2, seq, "expectedPool", pool)
           c1 == [b EXCEPT !["appealed"] = TRUE]
           c2 == [c1 EXCEPT !["coherentWeight"] = 0]
           c3 == [c2 EXCEPT !["expectedPool"] = pool]
           c == [c3 EXCEPT !["final"] = TRUE]
<1>1. Sound(q) /\ DOMAIN q = StoreFields /\ q.ballots = st.ballots
  <2> HIDE DEF cond
  <2> QED
    BY RequireBallots
<1>2. t = FieldSet(u3, seq, "final", TRUE)
  BY SupersededByFields
<1> HIDE DEF q
<1>3. IsSequence(q.ballots)
  BY <1>1, SoundShape DEF BallotsOK
<1>4. Wrote(t, q, seq, c)
  <2>1. Wrote(u1, q, seq, c1)
    BY <1>1, FieldSetWrote
  <2> HIDE DEF u1, c1
  <2>2. Wrote(u2, q, seq, c2)
    BY <1>1, <1>3, <2>1, FieldSetOn
  <2> HIDE DEF u2, c2
  <2>3. Wrote(u3, q, seq, c3)
    BY <1>1, <1>3, <2>2, FieldSetOn
  <2> HIDE DEF u3, c3
  <2> QED
    BY <1>1, <1>2, <1>3, <2>3, FieldSetOn
<1>5. c = SupersededBallot(b, pool)
  BY DEF SupersededBallot
<1> HIDE DEF b, c
<1>6. Wrote(t, q, seq, SupersededBallot(b, pool))
  BY <1>4, <1>5
<1> QED
  BY <1>6 DEF b, q, cond

LEMMA BallotSupersedeIs ==
  ASSUME NEW st, Sound(st), NEW seq, seq \in DOMAIN st.ballots, NEW pool, pool \in Int,
         NEW t, t = BallotSupersede(st, seq, pool)
  PROVE  Becomes(t, st, seq, st.ballots[seq].phase, st.ballots[seq].outcome, TRUE)
         /\ (t.ok => st.ok /\ st.ballots[seq].phase = "resolved" /\ ~st.ballots[seq].final)
<1> DEFINE b == st.ballots[seq]
           cond == b.phase = "resolved" /\ ~b.final
           q == Require(st, cond)
           c == SupersededBallot(b, pool)
<1>1. /\ Sound(q) /\ BallotsOnly(q, st) /\ q.ballots = st.ballots
      /\ (q.ok => st.ok /\ cond)
  <2> HIDE DEF cond
  <2> QED
    BY RequireBallots
<1>2. BallotOK(b)
  BY <1>1, SoundShape DEF BallotsOK
<1>3. Wrote(t, q, seq, c)
  BY BallotSupersedeWrites
<1> HIDE DEF q
<1>4. LaterOf(c, b, b.phase, b.outcome, TRUE)
  <2> HIDE DEF b
  <2>1. /\ DOMAIN c = BallotFields /\ c.reveals = b.reveals /\ c.tally = b.tally /\ c.phase = b.phase
        /\ c.sealed = b.sealed /\ c.obligated = b.obligated /\ c.coherentWeight = 0
        /\ c.expectedPool = pool /\ c.bondShare = b.bondShare /\ c.resolvedAt = b.resolvedAt
        /\ c.dispute = b.dispute /\ c.round = b.round /\ c.prev = b.prev
        /\ c.outcome = b.outcome /\ c.final = TRUE
    BY <1>2 DEF BallotOK, BallotFields, SupersededBallot
  <2> HIDE DEF c
  <2>2. BallotOK(c)
    <3>1. c.coherentWeight \in Int
      BY <2>1
    <3>2. c.final \in BOOLEAN
      BY <2>1
    <3> QED
      BY <1>2, <2>1, <3>1, <3>2 DEF BallotOK
  <2> QED
    BY <2>1, <2>2 DEF LaterOf, Kin
<1>5. t.ok => st.ok /\ cond
  BY <1>1, <1>3 DEF Wrote
<1> HIDE DEF c
<1>6. Becomes(t, st, seq, b.phase, b.outcome, TRUE)
  <2>1. Becomes(t, q, seq, b.phase, b.outcome, TRUE)
    BY <1>1, <1>3, <1>4, WroteBecomes
  <2> QED
    BY <1>1, <2>1, BecomesAfter
<1> QED
  BY <1>5, <1>6

\* The weights of choices add up to whole numbers, and so do the parts of a pool.
LEMMA WeightIsInt ==
  ASSUME NEW w, w \in [BallotChoices -> Int], NEW S, S \subseteq BallotChoices
  PROVE  WeightOf(w, S) \in Int
<1>1. IsFiniteSet({"UPHOLD"}) /\ IsFiniteSet({"UPHOLD", "OVERTURN"}) /\ IsFiniteSet({"UPHOLD", "OVERTURN", "OVERTURN_MINOR"})
  <2>1. IsFiniteSet({})
    BY FS_EmptySet
  <2>2. IsFiniteSet({} \cup {"UPHOLD"})
    BY <2>1, FS_AddElement
  <2>3. IsFiniteSet({"UPHOLD"} \cup {"OVERTURN"})
    BY <2>2, FS_AddElement
  <2>4. IsFiniteSet(({"UPHOLD"} \cup {"OVERTURN"}) \cup {"OVERTURN_MINOR"})
    BY <2>3, FS_AddElement
  <2> QED
    BY <2>2, <2>3, <2>4
<1>2. IsFiniteSet(BallotChoices)
  <2>1. IsFiniteSet({"UPHOLD", "OVERTURN", "OVERTURN_MINOR"} \cup {"VOID"})
    BY <1>1, FS_AddElement
  <2>2. IsFiniteSet(({"UPHOLD", "OVERTURN", "OVERTURN_MINOR"} \cup {"VOID"}) \cup {"ABSTAIN"})
    BY <2>1, FS_AddElement
  <2>3. BallotChoices = ({"UPHOLD", "OVERTURN", "OVERTURN_MINOR"} \cup {"VOID"}) \cup {"ABSTAIN"}
    BY DEF BallotChoices
  <2> QED
    BY <2>2, <2>3
<1>3. IsFiniteSet(S)
  BY <1>2, FS_Subset
<1>4. \A x \in S : w[x] \in Int
  OBVIOUS
<1> QED
  BY <1>3, <1>4, SumIsInt DEF WeightOf

LEMMA PartIsInt ==
  ASSUME NEW a, a \in Int, NEW r, r \in Int
  PROVE  MulDiv(a, r, Bps) \in Int
<1> DEFINE p == a * r
<1>1. p \in Int
  OBVIOUS
<1> HIDE DEF p
<1>2. p \div 10000 \in Int
  BY <1>1
<1> QED
  BY <1>2 DEF MulDiv, Bps, p

LEMMA PoolIsInt ==
  ASSUME NEW b, BallotOK(b), NEW outcome
  PROVE  CoherentWeight(b.tally, outcome) \in Int /\ ExpectedPenaltyPool(b.tally, outcome, b.obligated, Rates) \in Int
<1> DEFINE w == b.tally
           all == Total(w)
           absent == IF b.obligated > all THEN b.obligated - all ELSE 0
           against == WeightOf(w, IncoherentChoices(outcome))
           x == MulDiv(absent, Rates.absent, Bps)
           y == MulDiv(w["ABSTAIN"], Rates.abstained, Bps)
           z == MulDiv(against, Rates.incoherent, Bps)
<1>1. w \in [BallotChoices -> Int] /\ b.obligated \in Int
  BY DEF BallotOK
<1>2. CoherentChoices(outcome) \subseteq BallotChoices
  BY DEF CoherentChoices, BallotChoices, Overturns
<1>3. IncoherentChoices(outcome) \subseteq BallotChoices
  BY DEF IncoherentChoices
<1>4. CoherentWeight(w, outcome) \in Int
  BY <1>1, <1>2, WeightIsInt DEF CoherentWeight
<1>5. against \in Int
  BY <1>1, <1>3, WeightIsInt
<1>6. all \in Int
  BY <1>1, WeightIsInt DEF Total
<1>7. w["ABSTAIN"] \in Int
  BY <1>1 DEF BallotChoices
<1>8. Rates.absent \in Int /\ Rates.abstained \in Int /\ Rates.incoherent \in Int
  BY StakesAssumption DEF Rates
<1> HIDE DEF all
<1>9. absent \in Int
  BY <1>1, <1>6
<1> HIDE DEF absent, against
<1>10. x \in Int /\ y \in Int /\ z \in Int
  BY <1>5, <1>7, <1>8, <1>9, PartIsInt
<1>11. ExpectedPenaltyPool(w, outcome, b.obligated, Rates) = x + y + z
  BY DEF ExpectedPenaltyPool, absent, against, all
<1> HIDE DEF x, y, z
<1>12. x + y + z \in Int
  BY <1>10
<1> QED
  BY <1>4, <1>11, <1>12

\* A vote that ends is resolved, and followed by another when it decided nothing.
Ends(t, st, seq, outcome) ==
  \E u : /\ Becomes(u, st, seq, "resolved", outcome, st.ballots[seq].final \/ outcome = "ROLL")
         /\ outcome = "ROLL" => Opens(t, u, st.ballots[seq].dispute, 2, seq)
         /\ outcome # "ROLL" => t = u

LEMMA SameLength ==
  ASSUME NEW st, Sound(st), NEW u, NEW seq, NEW phase, NEW outcome, NEW final, Becomes(u, st, seq, phase, outcome, final)
  PROVE  Sound(u) /\ DOMAIN u.ballots = DOMAIN st.ballots /\ Len(u.ballots) = Len(st.ballots)
<1>1. Sound(u)
  BY BecomesGoes DEF Goes
<1>2. DOMAIN u.ballots = DOMAIN st.ballots
  BY DEF Becomes
<1>3. IsSequence(u.ballots) /\ IsSequence(st.ballots)
  BY <1>1, SoundShape DEF BallotsOK
<1>4. /\ Len(u.ballots) \in Nat /\ DOMAIN u.ballots = 1 .. Len(u.ballots)
      /\ Len(st.ballots) \in Nat /\ DOMAIN st.ballots = 1 .. Len(st.ballots)
  BY <1>3, SequenceDomain
<1>5. Len(u.ballots) = Len(st.ballots)
  <2> DEFINE n == Len(u.ballots)
             k == Len(st.ballots)
  <2>1. n \in Nat /\ k \in Nat /\ 1 .. n = 1 .. k
    BY <1>2, <1>4
  <2> HIDE DEF n, k
  <2>2. ~(n < k)
    <3>1. SUFFICES ASSUME n < k PROVE FALSE
      OBVIOUS
    <3>2. k \in 1 .. k
      BY <2>1, <3>1
    <3> QED
      BY <2>1, <3>1, <3>2
  <2>3. ~(k < n)
    <3>1. SUFFICES ASSUME k < n PROVE FALSE
      OBVIOUS
    <3>2. n \in 1 .. n
      BY <2>1, <3>1
    <3> QED
      BY <2>1, <3>1, <3>2
  <2>4. n = k
    BY <2>1, <2>2, <2>3
  <2> QED
    BY <2>4 DEF n, k
<1> QED
  BY <1>1, <1>2, <1>5

LEMMA OpensAfter ==
  ASSUME NEW st, Sound(st), NEW seq, seq \in DOMAIN st.ballots, NEW phase, NEW outcome, NEW final,
         NEW u, Becomes(u, st, seq, phase, outcome, final),
         NEW d, NEW major, NEW t, t = OpenBallot(u, d, 2, major, seq)
  PROVE  Opens(t, u, d, 2, seq)
<1>1. Sound(u) /\ Len(u.ballots) = Len(st.ballots)
  BY SameLength
<1>2. seq \in 0 .. Len(u.ballots)
  <2>1. Len(st.ballots) \in Nat /\ DOMAIN st.ballots = 1 .. Len(st.ballots)
    BY SoundShape, SequenceDomain DEF BallotsOK
  <2> QED
    BY <1>1, <2>1
<1> QED
  BY <1>1, <1>2, OpenBallotIs

LEMMA FinishedEnds ==
  ASSUME NEW st, Sound(st), NEW seq, seq \in DOMAIN st.ballots, NEW b, b = st.ballots[seq], NEW res,
         NEW t, t = Finished(st, seq, b, res)
  PROVE  Ends(t, st, seq, res.outcome)
<1> DEFINE u == ResolveAs(st, seq, b, res)
           outcome == res.outcome
           coherent == CoherentWeight(b.tally, outcome)
           pool == ExpectedPenaltyPool(b.tally, outcome, b.obligated, Rates)
           final == st.ballots[seq].final \/ outcome = "ROLL"
<1>1. BallotOK(b)
  BY SoundShape DEF BallotsOK
<1>2. coherent \in Int /\ pool \in Int
  BY <1>1, PoolIsInt
<1>3. u = BallotResolve(st, seq, outcome, res.tier, coherent, pool)
  BY DEF ResolveAs
<1>4. t = IF outcome = "ROLL" THEN OpenBallot(u, b.dispute, 2, b.majorRequested, seq) ELSE u
  BY DEF Finished
<1> HIDE DEF coherent, pool, u, outcome
<1>5. Becomes(u, st, seq, "resolved", outcome, final)
  BY <1>2, <1>3, BallotResolveIs
<1> HIDE DEF final
<1>6. ASSUME outcome = "ROLL"
      PROVE  Opens(t, u, st.ballots[seq].dispute, 2, seq)
  BY <1>4, <1>5, <1>6, OpensAfter
<1>7. Ends(t, st, seq, outcome)
  BY <1>4, <1>5, <1>6 DEF Ends, final
<1> QED
  BY <1>7 DEF outcome

LEMMA EndsGoes ==
  ASSUME NEW st, Sound(st), NEW seq, NEW outcome, NEW t, Ends(t, st, seq, outcome)
  PROVE  Goes(t, st)
<1> DEFINE final == st.ballots[seq].final \/ outcome = "ROLL"
           d == st.ballots[seq].dispute
<1>1. PICK u : /\ Becomes(u, st, seq, "resolved", outcome, final)
               /\ outcome = "ROLL" => Opens(t, u, d, 2, seq)
               /\ outcome # "ROLL" => t = u
  BY DEF Ends
<1> HIDE DEF final, d
<1>2. Goes(u, st)
  BY <1>1, BecomesGoes
<1>3. CASE outcome = "ROLL"
  <2>1. Goes(t, u)
    BY <1>1, <1>2, <1>3, OpensGoes DEF Goes
  <2> QED
    BY <1>2, <2>1, GoesOn
<1> QED
  BY <1>1, <1>2, <1>3

\* A ballot that is funded is final, and so is the first one of its dispute.
Funds(t, st, seq) ==
  \E u : /\ Becomes(u, st, seq, st.ballots[seq].phase, st.ballots[seq].outcome, TRUE)
         /\ LET prev == st.ballots[seq].prev IN
            \/ t = u
            \/ /\ prev # 0 /\ st.ballots[prev].final # TRUE
               /\ Becomes(t, u, prev, u.ballots[prev].phase, u.ballots[prev].outcome, TRUE)

LEMMA UgnotArrived ==
  ASSUME NEW st, Sound(st), NEW amount, NEW t, t = [st EXCEPT !.ugnot = @ + amount]
  PROVE  CoinsOnly(t, st) /\ BallotsOnly(t, st) /\ t.ballots = st.ballots /\ t.proposals = st.proposals
         /\ t.ok = st.ok /\ t.held = st.held /\ Sound(t)
<1>1. /\ DOMAIN t = StoreFields /\ t.power = st.power /\ t.fees = st.fees /\ t.members = st.members
      /\ t.proposals = st.proposals /\ t.pyth = st.pyth /\ t.wallets = st.wallets
      /\ t.held = st.held /\ t.ballots = st.ballots /\ t.ok = st.ok
  BY SoundShape DEF StoreFields
<1>2. BallotsOnly(t, st)
  BY <1>1, SoundShape DEF BallotsOnly, SameFees, SameHeld
<1>3. \A m \in Members : SameMember(t.members[m], st.members[m])
  BY <1>1 DEF SameMember, Sound, Shaped
<1>4. DOMAIN t.members = Members
  BY <1>1 DEF Sound, Shaped
<1>5. CoinsOnly(t, st)
  BY <1>1, <1>3, <1>4, SoundShape DEF CoinsOnly, SameFees, SameHeld
<1>6. Sound(t)
  BY <1>1, <1>5, CoinsFollow DEF Follows
<1> QED
  BY <1>1, <1>2, <1>5, <1>6

LEMMA FundVotersFunds ==
  ASSUME NEW st, Sound(st), NEW seq, seq \in DOMAIN st.ballots, NEW amount, amount \in Nat,
         NEW t, t = FundVoters(st, seq, amount)
  PROVE  Funds(t, st, seq)
<1> DEFINE b == st.ballots[seq]
           a == [st EXCEPT !.ugnot = @ + amount]
           cond == b.phase = "resolved"
           q == Require(a, cond)
           u == BallotFund(q, seq, amount)
           prev == b.prev
           waits == prev # 0 /\ ~st.ballots[prev].final
<1>1. Sound(a) /\ BallotsOnly(a, st) /\ a.ballots = st.ballots
  BY UgnotArrived
<1>2. t = IF waits THEN BallotFund(u, prev, 0) ELSE u
  BY DEF FundVoters
<1> HIDE DEF a
<1>3. Sound(q) /\ BallotsOnly(q, st) /\ q.ballots = st.ballots
  <2>1. Sound(q) /\ BallotsOnly(q, a) /\ q.ballots = a.ballots
    <3> HIDE DEF cond
    <3> QED
      BY <1>1, RequireBallots
  <2> HIDE DEF q
  <2> QED
    BY <1>1, <2>1, BallotsOnlyOn
<1> HIDE DEF q
<1>4. Becomes(u, st, seq, b.phase, b.outcome, TRUE)
  <2>1. Becomes(u, q, seq, q.ballots[seq].phase, q.ballots[seq].outcome, TRUE)
    BY <1>3, BallotFundIs
  <2> HIDE DEF u
  <2> QED
    BY <1>3, <2>1, BecomesAfter
<1> HIDE DEF u
<1>5. Sound(u) /\ DOMAIN u.ballots = DOMAIN st.ballots
  BY <1>4, SameLength
<1>6. ASSUME prev # 0, t = BallotFund(u, prev, 0)
      PROVE  Becomes(t, u, prev, u.ballots[prev].phase, u.ballots[prev].outcome, TRUE)
  <2>1. prev \in Nat /\ prev < seq
    BY SoundShape DEF BallotsOK
  <2>2. Len(st.ballots) \in Nat /\ DOMAIN st.ballots = 1 .. Len(st.ballots)
    BY SoundShape, SequenceDomain DEF BallotsOK
  <2>3. prev \in DOMAIN u.ballots
    BY <1>5, <1>6, <2>1, <2>2
  <2> HIDE DEF prev
  <2>4. 0 \in Nat
    OBVIOUS
  <2> QED
    BY <1>5, <1>6, <2>3, <2>4, BallotFundIs
<1>7. \/ t = u
      \/ /\ prev # 0 /\ st.ballots[prev].final # TRUE
         /\ Becomes(t, u, prev, u.ballots[prev].phase, u.ballots[prev].outcome, TRUE)
  <2>1. CASE waits
    <3>1. t = BallotFund(u, prev, 0)
      BY <1>2, <2>1
    <3>2. prev # 0 /\ st.ballots[prev].final # TRUE
      BY <2>1
    <3> QED
      BY <1>6, <3>1, <3>2
  <2>2. CASE ~waits
    <3>1. t = u
      <4> HIDE DEF waits, prev
      <4> QED
        BY <1>2, <2>2
    <3> QED
      BY <3>1
  <2> QED
    BY <2>1, <2>2
<1> QED
  BY <1>4, <1>7 DEF Funds

LEMMA FundsGoes ==
  ASSUME NEW st, Sound(st), NEW seq, NEW t, Funds(t, st, seq)
  PROVE  Goes(t, st)
<1> DEFINE b == st.ballots[seq]
           phase == b.phase
           outcome == b.outcome
           prev == b.prev
<1>1. PICK u : /\ Becomes(u, st, seq, phase, outcome, TRUE)
               /\ t = u \/ Becomes(t, u, prev, u.ballots[prev].phase, u.ballots[prev].outcome, TRUE)
  BY DEF Funds
<1> HIDE DEF phase, outcome, prev
<1>2. Goes(u, st)
  BY <1>1, BecomesGoes
<1>3. CASE t # u
  <2> DEFINE p == u.ballots[prev].phase
             o == u.ballots[prev].outcome
  <2>1. Becomes(t, u, prev, p, o, TRUE)
    BY <1>1, <1>3
  <2> HIDE DEF p, o
  <2>2. Goes(t, u)
    BY <1>2, <2>1, BecomesGoes DEF Goes
  <2> QED
    BY <1>2, <2>2, GoesOn
<1> QED
  BY <1>2, <1>3

\* An appealed ballot is final, and another is open.
Supersedes(t, st, seq) ==
  \E u : /\ Becomes(u, st, seq, st.ballots[seq].phase, st.ballots[seq].outcome, TRUE)
         /\ Opens(t, u, st.ballots[seq].dispute, 2, seq)

LEMMA SupersededSupersedes ==
  ASSUME NEW st, Sound(st), NEW seq, seq \in DOMAIN st.ballots, NEW b, b = st.ballots[seq],
         NEW t, t = Superseded(st, seq, b)
  PROVE  Supersedes(t, st, seq)
<1> DEFINE cond == b.phase = "resolved" /\ b.round = 1 /\ ~b.final
           q == Require(st, cond)
           pool == ExpectedPenaltyPool(b.tally, "ROLL", b.obligated, Rates)
           u == BallotSupersede(q, seq, pool)
<1>1. t = OpenBallot(u, b.dispute, 2, b.majorRequested, seq)
  BY DEF Superseded
<1>2. Sound(q) /\ BallotsOnly(q, st) /\ q.ballots = st.ballots
  <2> HIDE DEF cond
  <2> QED
    BY RequireBallots
<1>3. pool \in Int
  <2>1. BallotOK(b)
    BY SoundShape DEF BallotsOK
  <2> QED
    BY <2>1, PoolIsInt
<1> HIDE DEF q, pool
<1>4. Becomes(u, st, seq, b.phase, b.outcome, TRUE)
  <2>1. Becomes(u, q, seq, q.ballots[seq].phase, q.ballots[seq].outcome, TRUE)
    BY <1>2, <1>3, BallotSupersedeIs
  <2> HIDE DEF u
  <2> QED
    BY <1>2, <2>1, BecomesAfter
<1> HIDE DEF u
<1>5. Opens(t, u, b.dispute, 2, seq)
  BY <1>1, <1>4, OpensAfter
<1> QED
  BY <1>4, <1>5 DEF Supersedes

LEMMA SupersedesGoes ==
  ASSUME NEW st, Sound(st), NEW seq, NEW t, Supersedes(t, st, seq)
  PROVE  Goes(t, st)
<1> DEFINE b == st.ballots[seq]
           phase == b.phase
           outcome == b.outcome
           d == b.dispute
<1>1. PICK u : Becomes(u, st, seq, phase, outcome, TRUE) /\ Opens(t, u, d, 2, seq)
  BY DEF Supersedes
<1> HIDE DEF phase, outcome, d
<1>2. Goes(u, st)
  BY <1>1, BecomesGoes
<1>3. Goes(t, u)
  BY <1>1, <1>2, OpensGoes DEF Goes
<1> QED
  BY <1>2, <1>3, GoesOn

-----------------------------------------------------------------------------
(* Proposals.                                                                  *)

\* t comes of st in a step that has nothing to do with ballots, mints aside.
Apart(t, st) == Goes(t, st) /\ t.ballots = st.ballots

LEMMA FollowsApart ==
  ASSUME NEW st, NEW t, Follows(t, st)
  PROVE  Apart(t, st)
BY DEF Follows, Goes, Apart

LEMMA ApartOn ==
  ASSUME NEW st, NEW t, NEW u, Apart(t, st), Apart(u, t)
  PROVE  Apart(u, st)
BY GoesOn DEF Apart

LEMMA CoinsApart ==
  ASSUME NEW st, NEW t, Sound(st), CoinsOnly(t, st), ProposalsOK(t.proposals)
  PROVE  Apart(t, st)
BY CoinsAlone DEF Apart, Goes, CoinsOnly

LEMMA CoinsOnlyKeepsProposals ==
  ASSUME NEW st, NEW t, Sound(st), CoinsOnly(t, st), t.proposals = st.proposals
  PROVE  Apart(t, st)
BY CoinsFollow, FollowsApart

\* t has this record of a proposal.
Recorded(t, st, id, p) ==
  /\ DOMAIN t = StoreFields
  /\ t.members = st.members /\ t.power = st.power /\ t.fees = st.fees /\ t.ballots = st.ballots
  /\ t.held = st.held /\ t.ugnot = st.ugnot /\ t.pyth = st.pyth /\ t.wallets = st.wallets /\ t.ok = st.ok
  /\ t.proposals = [st.proposals EXCEPT ![id] = p]

\* A later record of the same proposal.
SameProposal(p, q) == DOMAIN p = ProposalFields /\ p.payload = q.payload /\ p.expires = q.expires

LEMMA AmendedProposals ==
  ASSUME NEW ps, ProposalsOK(ps), NEW id, id \in DOMAIN ps, NEW p, SameProposal(p, ps[id]),
         NEW qs, qs = [ps EXCEPT ![id] = p]
  PROVE  ProposalsOK(qs) /\ DOMAIN qs = DOMAIN ps
<1>1. IsSequence(ps) /\ ps[id].payload \in Payloads
  BY DEF ProposalsOK
<1>2. IsSequence(qs) /\ DOMAIN qs = DOMAIN ps /\ qs[id] = p /\ \A i \in DOMAIN ps \ {id} : qs[i] = ps[i]
  BY <1>1, Amended
<1> QED
  BY <1>1, <1>2 DEF ProposalsOK, SameProposal

\* t goes its way from st, and every proposal proposes what it did, for as long.
Amends(t, st) ==
  /\ CoinsOnly(t, st) /\ ProposalsOK(t.proposals) /\ DOMAIN t.proposals = DOMAIN st.proposals
  /\ \A id \in DOMAIN st.proposals : /\ t.proposals[id].payload = st.proposals[id].payload
                                     /\ t.proposals[id].expires = st.proposals[id].expires

LEMMA RecordedAmends ==
  ASSUME NEW st, Sound(st), NEW id, id \in DOMAIN st.proposals, NEW p, SameProposal(p, st.proposals[id]),
         NEW t, Recorded(t, st, id, p)
  PROVE  Amends(t, st)
<1> DEFINE ps == st.proposals
           qs == t.proposals
<1>1. ProposalsOK(ps) /\ qs = [ps EXCEPT ![id] = p]
  BY SoundShape DEF Recorded
<1> HIDE DEF ps, qs
<1>2. ProposalsOK(qs) /\ DOMAIN qs = DOMAIN ps
  BY <1>1, AmendedProposals DEF ps
<1>3. \A i \in DOMAIN ps : qs[i].payload = ps[i].payload /\ qs[i].expires = ps[i].expires
  BY <1>1 DEF SameProposal, ps
<1>4. \A m \in Members : SameMember(t.members[m], st.members[m])
  BY DEF SameMember, Sound, Shaped, Recorded
<1>5. DOMAIN t.members = Members
  BY DEF Sound, Shaped, Recorded
<1>6. CoinsOnly(t, st)
  BY <1>4, <1>5, SoundShape DEF CoinsOnly, SameFees, SameHeld, Recorded
<1> QED
  BY <1>2, <1>3, <1>6 DEF Amends, ps, qs

LEMMA AmendsSound ==
  ASSUME NEW st, Sound(st), NEW t, Amends(t, st)
  PROVE  Sound(t) /\ Apart(t, st)
BY CoinsApart DEF Amends, Apart, Goes

LEMMA AmendsOn ==
  ASSUME NEW st, NEW t, NEW u, Amends(t, st), Amends(u, t)
  PROVE  Amends(u, st)
<1>1. CoinsOnly(u, st)
  BY CoinsOnlyOn DEF Amends
<1> QED
  BY <1>1 DEF Amends

LEMMA CoinsAmend ==
  ASSUME NEW st, Sound(st), NEW t, CoinsOnly(t, st), t.proposals = st.proposals
  PROVE  Amends(t, st)
BY SoundShape DEF Amends

LEMMA SetStatusAmends ==
  ASSUME NEW st, Sound(st), NEW id, id \in DOMAIN st.proposals, NEW status, NEW t, t = SetStatus(st, id, status)
  PROVE  Amends(t, st) /\ t.ok = st.ok /\ t.proposals[id].status = status
<1> DEFINE p == [st.proposals[id] EXCEPT !.status = status]
<1>1. Recorded(t, st, id, p)
  BY SoundShape DEF Recorded, SetStatus, StoreFields
<1>2. DOMAIN st.proposals[id] = ProposalFields
  BY SoundShape DEF ProposalsOK
<1>3. SameProposal(p, st.proposals[id]) /\ p.status = status
  BY <1>2 DEF SameProposal, ProposalFields
<1> HIDE DEF p
<1>4. Amends(t, st)
  BY <1>1, <1>3, RecordedAmends
<1>5. t.ok = st.ok /\ t.proposals[id] = p
  BY <1>1 DEF Recorded
<1> QED
  BY <1>3, <1>4, <1>5

LEMMA ForfeitedByFields ==
  ASSUME NEW st, NEW id
  PROVE  DepositForfeit(st, id) =
           LET released == HeldSet(st, "depositUgnot", st.held.depositUgnot - st.proposals[id].deposit)
           IN [released EXCEPT !.proposals[id].deposit = 0]
BY Zenon DEF HeldSet, DepositForfeit

LEMMA DepositForfeitAmends ==
  ASSUME NEW st, Sound(st), NEW id, id \in DOMAIN st.proposals, NEW t, t = DepositForfeit(st, id)
  PROVE  Amends(t, st) /\ t.ok = st.ok
<1> DEFINE v == st.held.depositUgnot - st.proposals[id].deposit
           u == HeldSet(st, "depositUgnot", v)
           p == [u.proposals[id] EXCEPT !.deposit = 0]
<1>1. t = [u EXCEPT !.proposals[id].deposit = 0]
  BY ForfeitedByFields
<1> HIDE DEF v
<1>2. CoinsOnly(u, st) /\ BallotsOnly(u, st) /\ u.ok = st.ok
  BY HeldSetIs
<1> HIDE DEF u
<1>3. u.proposals = st.proposals
  BY <1>2 DEF BallotsOnly
<1>4. Amends(u, st)
  BY <1>2, <1>3, CoinsAmend
<1>5. Sound(u)
  BY <1>4, AmendsSound
<1>6. Recorded(t, u, id, p)
  BY <1>1, <1>5, SoundShape DEF Recorded, StoreFields
<1>7. DOMAIN u.proposals[id] = ProposalFields
  BY <1>3, <1>5, SoundShape DEF ProposalsOK
<1>8. SameProposal(p, u.proposals[id])
  BY <1>7 DEF SameProposal, ProposalFields
<1> HIDE DEF p
<1>9. Amends(t, u)
  BY <1>3, <1>5, <1>6, <1>8, RecordedAmends
<1>10. t.ok = st.ok
  BY <1>2, <1>6 DEF Recorded
<1> QED
  BY <1>4, <1>9, <1>10, AmendsOn

LEMMA DepositRefundAmends ==
  ASSUME NEW st, Sound(st), NEW id, id \in DOMAIN st.proposals, NEW t, t = DepositRefund(st, id)
  PROVE  Amends(t, st) /\ (t.ok => st.ok)
<1> DEFINE amount == st.proposals[id].deposit
           u == DepositForfeit(st, id)
<1>1. t = IF amount = 0 THEN st ELSE SendUgnot(u, amount)
  BY DEF DepositRefund
<1>2. Amends(u, st) /\ u.ok = st.ok
  BY DepositForfeitAmends
<1> HIDE DEF u, amount
<1>3. Amends(st, st)
  BY CoinsOnlyItself, CoinsAmend
<1>4. CASE amount = 0
  BY <1>1, <1>3, <1>4
<1>5. CASE amount # 0
  <2>1. t = SendUgnot(u, amount)
    BY <1>1, <1>5
  <2>2. Sound(u)
    BY <1>2, AmendsSound
  <2>3. CoinsOnly(t, u) /\ t.proposals = u.proposals
    BY <2>1, <2>2, SendUgnotCoins
  <2>4. t.ok => u.ok
    BY <2>1, <2>2, SendUgnotOk
  <2>5. Amends(t, u)
    BY <2>2, <2>3, CoinsAmend
  <2> QED
    BY <1>2, <2>4, <2>5, AmendsOn
<1> QED
  BY <1>4, <1>5

LEMMA OpenedByFields ==
  ASSUME NEW st, NEW m, NEW payload, NEW deposit
  PROVE  LET r == Rules[payload.kind]
             ends == now + r.voting
             opened == [payload |-> payload, proposer |-> m, sealed |-> epoch, votingEnds |-> ends,
                        executable |-> ends + r.timelock, expires |-> ends + r.timelock + Param.executionWindow,
                        quorumBps |-> r.quorumBps, thresholdBps |-> r.thresholdBps, deposit |-> deposit,
                        status |-> "active", votes |-> << >>, yes |-> 0, no |-> 0, abstain |-> 0]
             q == Require(st, st.held.knownUgnot + deposit <= st.ugnot)
             booked == HeldSet([q EXCEPT !.proposals = Append(@, opened)],
                               "depositUgnot", q.held.depositUgnot + deposit)
         IN NewProposal(st, m, payload, deposit) = HeldSet(booked, "knownUgnot", q.held.knownUgnot + deposit)
BY Zenon DEF HeldSet, NewProposal

LEMMA NewProposalApart ==
  ASSUME NEW st, Sound(st), NEW m, NEW payload, payload \in Payloads, NEW deposit,
         NEW t, t = NewProposal(st, m, payload, deposit)
  PROVE  Apart(t, st) /\ (t.ok => st.ok)
<1> DEFINE r == Rules[payload.kind]
           ends == now + r.voting
           p == [payload |-> payload, proposer |-> m, sealed |-> epoch, votingEnds |-> ends,
                 executable |-> ends + r.timelock, expires |-> ends + r.timelock + Param.executionWindow,
                 quorumBps |-> r.quorumBps, thresholdBps |-> r.thresholdBps, deposit |-> deposit,
                 status |-> "active", votes |-> << >>, yes |-> 0, no |-> 0, abstain |-> 0]
           cond == st.held.knownUgnot + deposit <= st.ugnot
           q == Require(st, cond)
           x == q.held.depositUgnot + deposit
           y == q.held.knownUgnot + deposit
           u == [q EXCEPT !.proposals = Append(@, p)]
           v == HeldSet(u, "depositUgnot", x)
<1>1. t = HeldSet(v, "knownUgnot", y)
  BY OpenedByFields
<1>2. DOMAIN p = ProposalFields /\ p.payload = payload
  BY DEF ProposalFields
<1> HIDE DEF p
<1>3. Follows(q, st) /\ (q.ok => st.ok)
  <2> HIDE DEF cond
  <2> QED
    BY RequireFollows
<1> HIDE DEF q, x, y
<1>4. Sound(q) /\ Apart(q, st)
  BY <1>3, FollowsApart DEF Follows
<1>5. /\ DOMAIN u = StoreFields /\ u.power = q.power /\ u.fees = q.fees /\ u.members = q.members
      /\ u.pyth = q.pyth /\ u.wallets = q.wallets /\ u.held = q.held /\ u.ballots = q.ballots /\ u.ok = q.ok
      /\ u.proposals = Append(q.proposals, p)
  BY <1>4, SoundShape DEF StoreFields
<1> HIDE DEF u
<1>6. ProposalsOK(u.proposals)
  <2> DEFINE ps == q.proposals
             qs == u.proposals
  <2>1. ProposalsOK(ps) /\ qs = Append(ps, p)
    BY <1>4, <1>5, SoundShape
  <2> HIDE DEF ps, qs
  <2>2. /\ IsSequence(qs)
        /\ DOMAIN qs = DOMAIN ps \cup {Len(ps) + 1}
        /\ qs[Len(ps) + 1] = p
        /\ \A i \in DOMAIN ps : qs[i] = ps[i]
    BY <2>1, Appended DEF ProposalsOK
  <2>3. ProposalsOK(qs)
    BY <1>2, <2>1, <2>2 DEF ProposalsOK
  <2> QED
    BY <2>3 DEF qs
<1>7. CoinsOnly(u, q)
  <2>1. \A n \in Members : SameMember(u.members[n], q.members[n])
    BY <1>4, <1>5 DEF SameMember, Sound, Shaped
  <2>2. DOMAIN u.members = Members
    BY <1>4, <1>5 DEF Sound, Shaped
  <2> QED
    BY <1>4, <1>5, <2>1, <2>2, SoundShape DEF CoinsOnly, SameFees, SameHeld
<1>8. Apart(u, st) /\ Sound(u)
  BY <1>4, <1>6, <1>7, CoinsApart, ApartOn DEF Apart, Goes
<1>9. CoinsOnly(v, u) /\ BallotsOnly(v, u) /\ v.ok = u.ok
  BY <1>8, HeldSetIs
<1> HIDE DEF v
<1>10. Apart(v, u) /\ Sound(v)
  BY <1>8, <1>9, CoinsOnlyKeepsProposals DEF BallotsOnly, Apart, Goes
<1>11. CoinsOnly(t, v) /\ BallotsOnly(t, v) /\ t.ok = v.ok
  BY <1>1, <1>10, HeldSetIs
<1>12. Apart(t, v)
  BY <1>10, <1>11, CoinsOnlyKeepsProposals DEF BallotsOnly
<1>13. Apart(t, st)
  BY <1>8, <1>10, <1>12, ApartOn
<1> QED
  BY <1>3, <1>5, <1>9, <1>11, <1>13

\* Writing a field of a proposal.
PropSet(st, id, f, v) == [st EXCEPT !.proposals[id][f] = v]

LEMMA PropSetAmends ==
  ASSUME NEW st, Sound(st), NEW id, id \in DOMAIN st.proposals, NEW f, f \notin {"payload", "expires"}, NEW v,
         NEW t, t = PropSet(st, id, f, v)
  PROVE  Amends(t, st) /\ t.ok = st.ok
<1> DEFINE p == [st.proposals[id] EXCEPT ![f] = v]
<1>1. Recorded(t, st, id, p)
  BY SoundShape DEF Recorded, PropSet, StoreFields
<1>2. DOMAIN st.proposals[id] = ProposalFields
  BY SoundShape DEF ProposalsOK
<1>3. SameProposal(p, st.proposals[id])
  BY <1>2 DEF SameProposal, ProposalFields
<1> HIDE DEF p
<1>4. Amends(t, st)
  BY <1>1, <1>3, RecordedAmends
<1>5. t.ok = st.ok
  BY <1>1 DEF Recorded
<1> QED
  BY <1>4, <1>5

LEMMA CountedByFields ==
  ASSUME NEW st, NEW id, NEW m, NEW choice, NEW weight
  PROVE  LET b == st.proposals[id]
             votes == [x \in DOMAIN b.votes \cup {m} |-> IF x = m THEN choice ELSE b.votes[x]]
             voted == PropSet(st, id, "votes", votes)
             for == PropSet(voted, id, "yes", IF choice = "YES" THEN b.yes + weight ELSE b.yes)
             against == PropSet(for, id, "no", IF choice = "NO" THEN b.no + weight ELSE b.no)
         IN Counted(st, id, m, choice, weight) =
              PropSet(against, id, "abstain", IF choice = "ABSTAIN" THEN b.abstain + weight ELSE b.abstain)
BY Zenon DEF PropSet, Counted

LEMMA ProposalVoteAmends ==
  ASSUME NEW st, Sound(st), NEW id, id \in DOMAIN st.proposals, NEW m, NEW choice, NEW weight,
         NEW t, t = ProposalVote(st, id, m, choice, weight)
  PROVE  Amends(t, st) /\ (t.ok => st.ok)
<1> DEFINE cond == m \notin DOMAIN st.proposals[id].votes
           q == Require(st, cond)
<1>1. CoinsOnly(q, st) /\ q.proposals = st.proposals /\ Sound(q) /\ (q.ok => st.ok)
  <2> HIDE DEF cond
  <2> QED
    BY RequireCoins, RequireFollows DEF Follows
<1>2. Amends(q, st)
  BY <1>1, CoinsAmend
<1>3. t = Counted(q, id, m, choice, weight)
  BY DEF ProposalVote
<1> HIDE DEF q
<1> DEFINE b == q.proposals[id]
           votes == [x \in DOMAIN b.votes \cup {m} |-> IF x = m THEN choice ELSE b.votes[x]]
           yes == IF choice = "YES" THEN b.yes + weight ELSE b.yes
           no == IF choice = "NO" THEN b.no + weight ELSE b.no
           abstain == IF choice = "ABSTAIN" THEN b.abstain + weight ELSE b.abstain
           t1 == PropSet(q, id, "votes", votes)
           t2 == PropSet(t1, id, "yes", yes)
           t3 == PropSet(t2, id, "no", no)
<1>4. t = PropSet(t3, id, "abstain", abstain)
  BY <1>3, CountedByFields
<1> HIDE DEF votes, yes, no, abstain
<1>5. id \in DOMAIN q.proposals
  BY <1>1
<1>6. Amends(t1, q) /\ t1.ok = q.ok
  BY <1>1, <1>5, PropSetAmends
<1> HIDE DEF t1
<1>7. Sound(t1) /\ id \in DOMAIN t1.proposals
  BY <1>1, <1>5, <1>6, AmendsSound DEF Amends
<1>8. Amends(t2, t1) /\ t2.ok = t1.ok
  BY <1>7, PropSetAmends
<1> HIDE DEF t2
<1>9. Sound(t2) /\ id \in DOMAIN t2.proposals
  BY <1>7, <1>8, AmendsSound DEF Amends
<1>10. Amends(t3, t2) /\ t3.ok = t2.ok
  BY <1>9, PropSetAmends
<1> HIDE DEF t3
<1>11. Sound(t3) /\ id \in DOMAIN t3.proposals
  BY <1>9, <1>10, AmendsSound DEF Amends
<1>12. Amends(t, t3) /\ t.ok = t3.ok
  BY <1>4, <1>11, PropSetAmends
<1>13. Amends(t3, st)
  BY <1>2, <1>6, <1>8, <1>10, AmendsOn
<1>14. Amends(t, st)
  BY <1>12, <1>13, AmendsOn
<1> QED
  BY <1>1, <1>6, <1>8, <1>10, <1>12, <1>14

LEMMA TalliedAmends ==
  ASSUME NEW st, Sound(st), NEW id, id \in DOMAIN st.proposals, NEW p, NEW t, t = Tallied(st, id, p)
  PROVE  Amends(t, st) /\ (t.ok => st.ok)
<1> DEFINE f == DepositForfeit(st, id)
           r == DepositRefund(st, id)
           status == IF Carried(p) THEN "passed" ELSE "rejected"
<1>1. t = IF ~ProposalQuorate(st, p) THEN SetStatus(f, id, "rejected") ELSE SetStatus(r, id, status)
  BY DEF Tallied
<1> HIDE DEF status
<1>2. Amends(f, st) /\ f.ok = st.ok
  BY DepositForfeitAmends
<1>3. Amends(r, st) /\ (r.ok => st.ok)
  BY DepositRefundAmends
<1> HIDE DEF f, r
<1>4. Sound(f) /\ id \in DOMAIN f.proposals /\ Sound(r) /\ id \in DOMAIN r.proposals
  BY <1>2, <1>3, AmendsSound DEF Amends
<1>5. CASE t = SetStatus(f, id, "rejected")
  <2>1. Amends(t, f) /\ t.ok = f.ok
    BY <1>4, <1>5, SetStatusAmends
  <2> QED
    BY <1>2, <2>1, AmendsOn
<1>6. CASE t = SetStatus(r, id, status)
  <2>1. Amends(t, r) /\ t.ok = r.ok
    BY <1>4, <1>6, SetStatusAmends
  <2> QED
    BY <1>3, <2>1, AmendsOn
<1> QED
  BY <1>1, <1>5, <1>6

\* Likewise, and there is this much more PYTH.
Mints(t, st, amount) ==
  Sound(t) /\ SameHistory(t, st) /\ t.ballots = st.ballots /\ TotalSupply(t) = TotalSupply(st) + amount

\* t is st but for PYTH.
PythOnly(t, st) ==
  /\ DOMAIN t = StoreFields
  /\ t.members = st.members /\ t.power = st.power /\ t.fees = st.fees /\ t.ballots = st.ballots
  /\ t.proposals = st.proposals /\ t.held = st.held

LEMMA PythMoves ==
  ASSUME NEW st, Sound(st), NEW t, PythOnly(t, st), t.wallets \in [Members -> Int], t.pyth \in Int,
         TreasuryPyth(t) >= 0, NEW amount, t.pyth + SumFunction(t.wallets) = st.pyth + SumFunction(st.wallets) + amount
  PROVE  Mints(t, st, amount)
<1>1. Shaped(t)
  BY DEF Sound, Shaped, PythOnly
<1>2. Booked(t)
  BY DEF Sound, Booked, PythOnly
<1>3. Waited(t)
  BY DEF Sound, Waited, PythOnly, PowerAt
<1>4. SameHistory(t, st)
  BY DEF SameHistory, PythOnly, PowerAt, TotalPowerAt
<1>5. TotalSupply(t) = TotalSupply(st) + amount
  BY <1>1, SupplyIs DEF Sound
<1> QED
  BY <1>1, <1>2, <1>3, <1>4, <1>5 DEF Mints, Sound, PythOnly

LEMMA ApartMints ==
  ASSUME NEW st, Sound(st), NEW t, Apart(t, st)
  PROVE  Mints(t, st, 0)
<1>1. TotalSupply(st) \in Int
  BY SupplyIs DEF Sound
<1> QED
  BY <1>1 DEF Apart, Goes, Mints

LEMMA MintsAfter ==
  ASSUME NEW st, NEW t, NEW u, Apart(t, st), NEW amount, Mints(u, t, amount)
  PROVE  Mints(u, st, amount)
BY DEF Apart, Goes, Mints, SameHistory

LEMMA RequireApart ==
  ASSUME NEW st, Sound(st), NEW cond, NEW t, t = Require(st, cond)
  PROVE  Apart(t, st) /\ (t.ok => st.ok /\ cond)
BY RequireFollows, FollowsApart

LEMMA TreasurySendUgnotMints ==
  ASSUME NEW st, Sound(st), NEW amount, NEW t, t = TreasurySendUgnot(st, amount)
  PROVE  Mints(t, st, 0) /\ (t.ok => st.ok)
<1> DEFINE cond == amount > 0 /\ amount <= TreasuryUgnot(st)
           q == Require(st, cond)
<1>1. t = SendUgnot(q, amount)
  BY DEF TreasurySendUgnot
<1>2. Apart(q, st) /\ (q.ok => st.ok)
  <2> HIDE DEF cond
  <2> QED
    BY RequireApart
<1> HIDE DEF q
<1>3. Sound(q)
  BY <1>2 DEF Apart, Goes
<1>4. CoinsOnly(t, q) /\ t.proposals = q.proposals
  BY <1>1, <1>3, SendUgnotCoins
<1>5. t.ok => q.ok
  BY <1>1, <1>3, SendUgnotOk
<1>6. Apart(t, st)
  BY <1>2, <1>3, <1>4, CoinsOnlyKeepsProposals, ApartOn
<1> QED
  BY <1>2, <1>5, <1>6, ApartMints

LEMMA TreasurySendPythMints ==
  ASSUME NEW st, Sound(st), NEW m, m \in Members, NEW amount, amount \in Nat,
         NEW t, t = TreasurySendPyth(st, m, amount), t.ok
  PROVE  Mints(t, st, 0) /\ st.ok
<1> DEFINE cond == amount > 0 /\ amount <= TreasuryPythFree(st)
           q == Require(st, cond)
<1>1. t = SendPyth(q, m, amount)
  BY DEF TreasurySendPyth
<1>2. Apart(q, st) /\ (q.ok => st.ok /\ cond)
  <2> HIDE DEF cond
  <2> QED
    BY RequireApart
<1>3. q.held = st.held /\ q.pyth = st.pyth
  BY SoundShape DEF Require, StoreFields
<1> HIDE DEF q
<1>4. Sound(q) /\ DOMAIN q = StoreFields
  BY <1>2, SoundShape DEF Apart, Goes
<1>5. q.wallets \in [Members -> Int] /\ q.pyth \in Int /\ SumFunction(q.wallets) \in Int
  <2>1. q.wallets \in [Members -> Int] /\ q.pyth \in Int
    BY <1>4 DEF Sound, Shaped
  <2> QED
    BY <2>1, SumType, MembersAssumption
<1>6. /\ q.ok /\ DOMAIN t = StoreFields
      /\ t.members = q.members /\ t.power = q.power /\ t.fees = q.fees /\ t.ballots = q.ballots
      /\ t.proposals = q.proposals /\ t.held = q.held /\ t.pyth = q.pyth - amount
      /\ t.wallets \in [Members -> Int] /\ SumFunction(t.wallets) = SumFunction(q.wallets) + amount
  BY <1>1, <1>4, <1>5, SendPythIs
<1>7. TreasuryPyth(st) \in Int /\ st.held.pendingPyth \in Int /\ st.held.rewardPyth \in Int
      /\ TreasuryPyth(st) >= 0 /\ st.held.stakedPyth \in Int /\ st.held.unbondingPyth \in Int /\ st.pyth \in Int
  BY BooksAreInt DEF Sound, Booked, Shaped
<1>8. amount <= TreasuryPyth(st)
  <2> DEFINE free == TreasuryPyth(st)
             owed == st.held.pendingPyth - st.held.rewardPyth
  <2>1. TreasuryPythFree(st) = IF free - (IF owed > 0 THEN owed ELSE 0) < 0 THEN 0
                               ELSE free - (IF owed > 0 THEN owed ELSE 0)
    BY DEF TreasuryPythFree, ReservedPyth
  <2>2. free \in Int /\ owed \in Int /\ free >= 0
    BY <1>7
  <2>3. amount <= TreasuryPythFree(st)
    BY <1>2, <1>6
  <2> HIDE DEF free, owed
  <2>4. amount <= free
    BY <2>1, <2>2, <2>3
  <2> QED
    BY <2>4 DEF free
<1>9. PythOnly(t, q)
  BY <1>6 DEF PythOnly
<1>10. TreasuryPyth(t) >= 0
  <2>1. t.pyth = st.pyth - amount /\ t.held = st.held
    BY <1>3, <1>6
  <2> QED
    BY <1>7, <1>8, <2>1 DEF TreasuryPyth
<1>11. t.pyth \in Int /\ t.pyth + SumFunction(t.wallets) = q.pyth + SumFunction(q.wallets) + 0
  BY <1>5, <1>6
<1>12. Mints(t, q, 0)
  BY <1>4, <1>6, <1>9, <1>10, <1>11, PythMoves
<1> QED
  BY <1>2, <1>6, <1>12, MintsAfter

LEMMA MintedMints ==
  ASSUME NEW st, Sound(st), NEW m, m \in Members, NEW amount, amount \in Nat, NEW t, t = Minted(st, m, amount)
  PROVE  Mints(t, st, amount) /\ (t.ok => st.ok)
<1> DEFINE cond == amount > 0 /\ MintAllowed(st, amount)
           q == Require(st, cond)
           w == q.wallets
           v == [w EXCEPT ![m] = @ + amount]
<1>1. t = [q EXCEPT !.wallets[m] = @ + amount]
  BY DEF Minted
<1>2. Apart(q, st) /\ (q.ok => st.ok)
  <2> HIDE DEF cond
  <2> QED
    BY RequireApart
<1> HIDE DEF q
<1>3. Sound(q) /\ DOMAIN q = StoreFields
  BY <1>2, SoundShape DEF Apart, Goes
<1>4. w \in [Members -> Int] /\ q.pyth \in Int
  BY <1>3 DEF Sound, Shaped
<1>5. v \in [Members -> Int] /\ SumFunction(v) = SumFunction(w) + amount /\ SumFunction(w) \in Int
  BY <1>4, WalletMoved
<1>6. PythOnly(t, q) /\ t.wallets = v /\ t.pyth = q.pyth /\ t.ok = q.ok
  BY <1>1, <1>3 DEF PythOnly, StoreFields
<1>7. TreasuryPyth(t) >= 0
  <2>1. TreasuryPyth(q) >= 0
    BY <1>3 DEF Sound, Booked
  <2> QED
    BY <1>6, <2>1 DEF PythOnly, TreasuryPyth
<1> HIDE DEF v
<1>8. t.pyth + SumFunction(t.wallets) = q.pyth + SumFunction(q.wallets) + amount
  BY <1>4, <1>5, <1>6
<1>9. Mints(t, q, amount)
  BY <1>3, <1>4, <1>5, <1>6, <1>7, <1>8, PythMoves
<1> QED
  BY <1>2, <1>6, <1>9, MintsAfter

LEMMA VestedMints ==
  ASSUME NEW st, Sound(st), NEW m, m \in Members, NEW until, NEW floor, NEW t, t = Vested(st, m, until, floor)
  PROVE  Mints(t, st, 0) /\ (t.ok => st.ok)
<1> DEFINE cond == st.members[m].known
           q == Require(st, cond)
<1>1. t = [q EXCEPT !.members[m].vestedUntil = until, !.members[m].vestFloor = floor]
  BY DEF Vested
<1>2. Apart(q, st) /\ (q.ok => st.ok)
  <2> HIDE DEF cond
  <2> QED
    BY RequireApart
<1> HIDE DEF q
<1>3. Sound(q) /\ DOMAIN q = StoreFields
  BY <1>2, SoundShape DEF Apart, Goes
<1>4. DOMAIN q.members = Members /\ \A x \in Members : MemberOK(q.members[x])
  BY <1>3 DEF Sound, Shaped
<1>5. /\ DOMAIN t = StoreFields /\ t.power = q.power /\ t.fees = q.fees /\ t.ballots = q.ballots
      /\ t.proposals = q.proposals /\ t.held = q.held /\ t.pyth = q.pyth /\ t.wallets = q.wallets /\ t.ok = q.ok
      /\ DOMAIN t.members = Members /\ \A x \in Members \ {m} : t.members[x] = q.members[x]
  BY <1>1, <1>3, <1>4 DEF StoreFields
<1>6. t.members[m] = [q.members[m] EXCEPT !.vestedUntil = until, !.vestFloor = floor]
  <2>1. t.members = [q.members EXCEPT ![m].vestedUntil = until, ![m].vestFloor = floor]
    BY ONLY <1>1, <1>3 DEF StoreFields
  <2>2. DOMAIN q.members = Members
    BY ONLY <1>4
  <2> QED
    BY ONLY <2>1, <2>2, m \in Members
<1>7. SameMember(t.members[m], q.members[m])
  BY <1>4, <1>6 DEF SameMember, MemberOK, NoMember
<1>8. \A x \in Members : SameMember(t.members[x], q.members[x])
  <2> SUFFICES ASSUME NEW x \in Members PROVE SameMember(t.members[x], q.members[x])
    OBVIOUS
  <2>1. CASE x = m
    BY <1>7, <2>1
  <2>2. CASE x # m
    BY <1>4, <1>5, <2>2 DEF SameMember
  <2> QED
    BY <2>1, <2>2
<1>9. CoinsOnly(t, q)
  BY <1>3, <1>5, <1>8, SoundShape DEF CoinsOnly, SameFees, SameHeld
<1>10. Apart(t, q)
  BY <1>3, <1>5, <1>9, CoinsOnlyKeepsProposals
<1>11. Apart(t, st)
  BY <1>2, <1>10, ApartOn
<1> QED
  BY <1>2, <1>5, <1>11, ApartMints

\* What a proposal mints when it is carried out.
MintOf(payload) == IF payload.kind = "mint" THEN payload.amount ELSE 0

LEMMA AppliedMints ==
  ASSUME NEW st, Sound(st), NEW payload, payload \in Payloads, NEW succeeds, NEW t, t = Applied(st, payload, succeeds), t.ok
  PROVE  Mints(t, st, MintOf(payload)) /\ st.ok
<1> DEFINE m == payload.member
           amount == payload.amount
           kind == payload.kind
           until == payload.until
<1>1. m \in Members /\ amount \in Nat
  BY PayloadsAssumption
<1>2. CASE kind = "treasury-ugnot"
  <2>1. t = TreasurySendUgnot(st, amount) /\ MintOf(payload) = 0
    BY <1>2 DEF Applied, MintOf
  <2> QED
    BY <2>1, TreasurySendUgnotMints
<1>3. CASE kind = "treasury-pyth"
  <2>1. t = TreasurySendPyth(st, m, amount) /\ MintOf(payload) = 0
    BY <1>3 DEF Applied, MintOf
  <2> HIDE DEF m, amount
  <2> QED
    BY <1>1, <2>1, TreasurySendPythMints
<1>4. CASE kind = "mint"
  <2>1. t = Minted(st, m, amount) /\ MintOf(payload) = amount
    BY <1>4 DEF Applied, MintOf
  <2> HIDE DEF m, amount
  <2> QED
    BY <1>1, <2>1, MintedMints
<1>5. CASE kind = "vesting"
  <2>1. t = Vested(st, m, until, amount) /\ MintOf(payload) = 0
    BY <1>5 DEF Applied, MintOf
  <2> HIDE DEF m, amount, until
  <2> QED
    BY <1>1, <2>1, VestedMints
<1>6. CASE kind \notin {"treasury-ugnot", "treasury-pyth", "mint", "vesting"}
  <2>1. t = Require(st, succeeds) /\ MintOf(payload) = 0
    BY <1>6 DEF Applied, MintOf
  <2>2. Apart(t, st) /\ st.ok
    BY <2>1, RequireApart
  <2> QED
    BY <2>1, <2>2, ApartMints
<1> QED
  BY <1>2, <1>3, <1>4, <1>5, <1>6

\* What a call that executes a proposal mints.
MintedBy(st, id) ==
  IF Runs(st, id) /\ ~(now > st.proposals[id].expires) THEN MintOf(st.proposals[id].payload) ELSE 0

LEMMA ExecutedMints ==
  ASSUME NEW st, Sound(st), NEW id, id \in DOMAIN st.proposals, NEW succeeds,
         NEW t, t = Executed(st, id, succeeds), t.ok
  PROVE  Mints(t, st, MintedBy(st, id)) /\ st.ok
<1>1. CASE ~Runs(st, id)
  <2>1. t = st /\ MintedBy(st, id) = 0
    BY <1>1 DEF Executed, MintedBy
  <2>2. Apart(st, st)
    BY FollowsItself, FollowsApart
  <2> QED
    BY <2>1, <2>2, ApartMints
<1>2. CASE Runs(st, id) /\ now > st.proposals[id].expires
  <2> DEFINE u == SetStatus(st, id, "expired")
  <2>1. t = u
    BY <1>2 DEF Executed
  <2>2. MintedBy(st, id) = 0
    BY <1>2 DEF MintedBy
  <2>3. Amends(u, st) /\ u.ok = st.ok
    BY SetStatusAmends
  <2> HIDE DEF u
  <2>4. Apart(t, st)
    BY <2>1, <2>3, AmendsSound
  <2> QED
    BY <2>1, <2>2, <2>3, <2>4, ApartMints
<1>3. CASE Runs(st, id) /\ ~(now > st.proposals[id].expires)
  <2> DEFINE u == SetStatus(st, id, "executed")
             payload == st.proposals[id].payload
  <2>1. t = Applied(u, payload, succeeds) /\ MintedBy(st, id) = MintOf(payload)
    BY <1>3 DEF Executed, MintedBy
  <2>2. Amends(u, st) /\ u.ok = st.ok
    BY SetStatusAmends
  <2> HIDE DEF u
  <2>3. payload \in Payloads
    BY SoundShape DEF ProposalsOK
  <2> HIDE DEF payload
  <2>4. Sound(u) /\ Apart(u, st)
    BY <2>2, AmendsSound
  <2>5. Mints(t, u, MintOf(payload)) /\ u.ok
    BY <2>1, <2>3, <2>4, AppliedMints
  <2> QED
    BY <2>1, <2>2, <2>4, <2>5, MintsAfter
<1> QED
  BY <1>1, <1>2, <1>3

-----------------------------------------------------------------------------
(* Steps.                                                                      *)

\* What a call leaves is what comes next.
LEMMA CommitsSound ==
  ASSUME NEW t, Sound(t), Commit(t)
  PROVE  Sound(Store)' /\ t.ok
<1>1. /\ t.ok /\ members' = t.members /\ power' = t.power /\ fees' = t.fees /\ ballots' = t.ballots
      /\ proposals' = t.proposals /\ held' = t.held /\ ugnot' = t.ugnot /\ pyth' = t.pyth /\ wallets' = t.wallets
      /\ now' = now /\ epoch' = epoch
  BY DEF Commit
<1>2. /\ DOMAIN Store' = StoreFields /\ Store'.members = t.members /\ Store'.power = t.power /\ Store'.fees = t.fees
      /\ Store'.ballots = t.ballots /\ Store'.proposals = t.proposals /\ Store'.held = t.held
      /\ Store'.pyth = t.pyth /\ Store'.wallets = t.wallets
  BY <1>1 DEF Store, StoreFields
<1>3. Shaped(t) /\ Booked(t) /\ Waited(t)
  BY DEF Sound
<1>4. BallotsOK(ballots)'
  <2>1. BallotsOK(t.ballots)
    BY <1>3 DEF Shaped
  <2>2. BallotsOK(t.ballots)'
    BY <1>1, <2>1 DEF BallotsOK, BallotOK
  <2> QED
    BY <1>1, <2>2
<1>5. Shaped(Store)'
  <2>1. now' \in Nat /\ epoch' \in Nat \ {0} /\ DOMAIN Store' = StoreFields
    BY <1>1, <1>2, <1>3 DEF Shaped
  <2>2. DOMAIN t.members = Members /\ \A m \in Members : MemberOK(t.members[m])
    BY <1>3 DEF Shaped
  <2>3. PowerOK(power)'
    <3>1. PowerOK(t.power)
      BY <1>3 DEF Shaped
    <3> QED
      BY <1>1, <3>1 DEF PowerOK
  <2>4. ProposalsOK(t.proposals)
    BY <1>3 DEF Shaped
  <2>5. DOMAIN t.fees = DOMAIN NoFees /\ DOMAIN t.held = DOMAIN NothingHeld
        /\ t.held.rewardPyth \in Nat /\ t.pyth \in Int /\ t.wallets \in [Members -> Int]
    BY <1>3 DEF Shaped
  <2> QED
    BY <1>1, <1>2, <1>4, <2>1, <2>2, <2>3, <2>4, <2>5 DEF Shaped
<1>6. Booked(Store)'
  BY <1>2, <1>3 DEF Booked, TreasuryPyth
<1>7. Waited(Store)'
  BY <1>2, <1>3 DEF Waited, PowerAt
<1> QED
  BY <1>1, <1>5, <1>6, <1>7 DEF Sound

LEMMA StoreIs ==
  /\ Store.members = members /\ Store.power = power /\ Store.fees = fees /\ Store.ballots = ballots
  /\ Store.proposals = proposals /\ Store.held = held /\ Store.ugnot = ugnot /\ Store.pyth = pyth
  /\ Store.wallets = wallets /\ Store.ok = TRUE
BY DEF Store

\* A step that leaves a sound store, the past as it was and the PYTH there was.
Moves(amount) == \E t : Mints(t, Store, amount) /\ Commit(t)

LEMMA ApartMoves ==
  ASSUME Sound(Store), NEW t, Apart(t, Store), Commit(t)
  PROVE  Moves(0)
BY ApartMints DEF Moves

LEMMA FollowsMoves ==
  ASSUME Sound(Store), NEW t, Follows(t, Store), Commit(t)
  PROVE  Moves(0)
BY FollowsApart, ApartMoves

LEMMA KnownIs ==
  ASSUME NEW st, Sound(st), NEW m, m \in Members
  PROVE  st.members[m].known \in BOOLEAN
BY DEF Sound, Shaped, MemberOK

LEMMA StakeMoves ==
  ASSUME Sound(Store), NEW m, m \in Members, NEW amount, amount \in Stakes, Stake(m, amount)
  PROVE  Moves(0)
<1> DEFINE s == IF members[m].known THEN SettleStrictly(Store, m) ELSE Store
           cond == s.members[m].staked + amount >= Param.minStake
           q == Require(s, cond)
           t == MemberStake(q, m, amount)
<1>1. Commit(t)
  BY DEF Stake, StakeChecked
<1>2. t.ok
  BY <1>1 DEF Commit
<1>3. amount \in Nat
  BY StakesAssumption
<1>4. Follows(s, Store)
  <2>1. CASE members[m].known
    <3>1. Store.members[m].known = TRUE
      BY <2>1, KnownIs, StoreIs
    <3>2. Settled(SettleStrictly(Store, m), Store, m)
      BY <3>1, SettleStrictlySettles
    <3> QED
      BY <2>1, <3>2 DEF Settled
  <2>2. CASE ~members[m].known
    BY <2>2, FollowsItself
  <2> QED
    BY <2>1, <2>2
<1> HIDE DEF s
<1>5. Sound(s)
  BY <1>4 DEF Follows
<1>6. Follows(q, s)
  <2> HIDE DEF cond
  <2> QED
    BY <1>5, RequireFollows
<1> HIDE DEF q
<1>7. Sound(q)
  BY <1>6 DEF Follows
<1>8. Follows(t, q)
  BY <1>2, <1>3, <1>7, MemberStakeFollows
<1> HIDE DEF t
<1>9. Follows(t, Store)
  BY <1>4, <1>6, <1>8, FollowsOn
<1> QED
  BY <1>1, <1>9, FollowsMoves

LEMMA RequestUnstakeMoves ==
  ASSUME Sound(Store), NEW m, m \in Members, NEW amount, amount \in Stakes, RequestUnstake(m, amount)
  PROVE  Moves(0)
<1> DEFINE s == SettleStrictly(Store, m)
           rest == s.members[m].staked - amount
           allowed == rest >= 0 /\ (rest = 0 \/ rest >= Param.minStake)
                        /\ (now < s.members[m].vestedUntil => rest >= s.members[m].vestFloor)
           q == Require(s, allowed)
           readyAt == now + Param.unstakeCooldown
           t == MemberUnstake(q, m, amount, readyAt)
<1>1. Commit(t)
  BY DEF RequestUnstake, UnstakeChecked
<1>2. t.ok
  BY <1>1 DEF Commit
<1>3. amount \in Nat
  BY StakesAssumption
<1>4. Follows(s, Store) /\ s.members[m].known = TRUE
  <2>1. Store.members[m].known = TRUE
    BY KnownIs, StoreIs DEF RequestUnstake
  <2>2. Settled(s, Store, m)
    BY <2>1, SettleStrictlySettles
  <2> QED
    BY <2>2 DEF Settled
<1> HIDE DEF s
<1>5. Sound(s)
  BY <1>4 DEF Follows
<1>6. Follows(q, s) /\ q.members = s.members
  <2>1. q.members = s.members
    BY <1>5, SoundShape DEF Require, StoreFields
  <2> HIDE DEF allowed
  <2> QED
    BY <1>5, <2>1, RequireFollows
<1> HIDE DEF q, readyAt
<1>7. Sound(q) /\ q.members[m].known = TRUE
  BY <1>4, <1>6 DEF Follows
<1>8. Follows(t, q)
  BY <1>2, <1>3, <1>7, MemberUnstakeFollows
<1> HIDE DEF t
<1>9. Follows(t, Store)
  BY <1>4, <1>6, <1>8, FollowsOn
<1> QED
  BY <1>1, <1>9, FollowsMoves

LEMMA WithdrawMoves ==
  ASSUME Sound(Store), NEW m, m \in Members, Withdraw(m)
  PROVE  Moves(0)
<1> DEFINE s == SettleStrictly(Store, m)
           cond == ~OpenObligation(s, m)
           q == Require(s, cond)
           t == MemberPayUnbonded(q, m)
<1>1. Commit(t)
  BY DEF Withdraw, PaidUnlessObliged
<1>2. t.ok
  BY <1>1 DEF Commit
<1>3. Follows(s, Store) /\ s.members[m].known = TRUE
  <2>1. Store.members[m].known = TRUE
    BY KnownIs, StoreIs DEF Withdraw
  <2>2. Settled(s, Store, m)
    BY <2>1, SettleStrictlySettles
  <2> QED
    BY <2>2 DEF Settled
<1> HIDE DEF s
<1>4. Sound(s)
  BY <1>3 DEF Follows
<1>5. Follows(q, s) /\ q.members = s.members
  <2>1. q.members = s.members
    BY <1>4, SoundShape DEF Require, StoreFields
  <2> HIDE DEF cond
  <2> QED
    BY <1>4, <2>1, RequireFollows
<1> HIDE DEF q
<1>6. Sound(q) /\ q.members[m].known = TRUE
  BY <1>3, <1>5 DEF Follows
<1>7. Follows(t, q)
  BY <1>2, <1>6, MemberPayUnbondedFollows
<1> HIDE DEF t
<1>8. Follows(t, Store)
  BY <1>3, <1>5, <1>7, FollowsOn
<1> QED
  BY <1>1, <1>8, FollowsMoves

LEMMA SettleMemberMoves ==
  ASSUME Sound(Store), NEW m, m \in Members, NEW maxN, maxN \in Nat, SettleMember(m, maxN)
  PROVE  Moves(0)
<1> DEFINE t == Settle(Store, m, maxN)
<1>1. Commit(t)
  BY DEF SettleMember
<1>2. Store.members[m].known = TRUE
  BY KnownIs, StoreIs DEF SettleMember
<1>3. Settled(t, Store, m)
  BY <1>2, SettleSettles
<1> HIDE DEF t
<1>4. Follows(t, Store)
  BY <1>3 DEF Settled
<1> QED
  BY <1>1, <1>4, FollowsMoves

LEMMA ClaimFeesMoves ==
  ASSUME Sound(Store), NEW m, m \in Members, ClaimFees(m)
  PROVE  Moves(0)
<1> DEFINE s == FeesSync(Store)
           t == MemberPayFees(s, m)
<1>1. Commit(t)
  BY DEF ClaimFees
<1>2. t.ok
  BY <1>1 DEF Commit
<1>3. Store.members[m].known = TRUE
  BY KnownIs, StoreIs DEF ClaimFees
<1>4. Keeps(s, Store, m)
  BY <1>3, FeesSyncKeeps
<1> HIDE DEF s
<1>5. Follows(s, Store) /\ Sound(s) /\ s.members[m].known = TRUE
  BY <1>3, <1>4 DEF Keeps, Follows
<1>6. Follows(t, s)
  BY <1>2, <1>5, MemberPayFeesKeeps DEF Keeps
<1> HIDE DEF t
<1>7. Follows(t, Store)
  BY <1>5, <1>6, FollowsOn
<1> QED
  BY <1>1, <1>7, FollowsMoves

LEMMA ClaimRewardsMoves ==
  ASSUME Sound(Store), NEW m, m \in Members, ClaimRewards(m)
  PROVE  Moves(0)
<1> DEFINE s == Settle(Store, m, Param.settleMaxN)
           t == MemberPayRewards(s, m)
<1>1. Commit(t)
  BY DEF ClaimRewards
<1>2. t.ok
  BY <1>1 DEF Commit
<1>3. Store.members[m].known = TRUE
  BY KnownIs, StoreIs DEF ClaimRewards
<1>4. Settled(s, Store, m)
  BY <1>3, SettleSettles, StakesAssumption
<1> HIDE DEF s
<1>5. Follows(s, Store) /\ Sound(s) /\ s.members[m].known = TRUE
  BY <1>4 DEF Settled, Follows
<1>6. Follows(t, s)
  BY <1>2, <1>5, MemberPayRewardsKeeps DEF Keeps
<1> HIDE DEF t
<1>7. Follows(t, Store)
  BY <1>5, <1>6, FollowsOn
<1> QED
  BY <1>1, <1>7, FollowsMoves

LEMMA MemberOpsMove ==
  ASSUME Sound(Store), MemberOps
  PROVE  Moves(0)
<1>1. ASSUME NEW m \in Members, NEW amount \in Stakes, Stake(m, amount) \/ RequestUnstake(m, amount)
      PROVE  Moves(0)
  BY <1>1, StakeMoves, RequestUnstakeMoves
<1>2. ASSUME NEW m \in Members, Withdraw(m) \/ ClaimFees(m) \/ ClaimRewards(m)
      PROVE  Moves(0)
  BY <1>2, WithdrawMoves, ClaimFeesMoves, ClaimRewardsMoves
<1>3. ASSUME NEW m \in Members, NEW maxN \in 1 .. Param.settleMaxN, SettleMember(m, maxN)
      PROVE  Moves(0)
  <2>1. maxN \in Nat
    BY StakesAssumption
  <2> QED
    BY <1>3, <2>1, SettleMemberMoves
<1>4. ASSUME SyncFees
      PROVE  Moves(0)
  BY <1>4, FeesSyncFollows, FollowsMoves DEF SyncFees
<1>5. ASSUME NEW amount, CoinsArrive(amount)
      PROVE  Moves(0)
  <2> DEFINE t == [Store EXCEPT !.ugnot = @ + amount]
  <2>1. Commit(t)
    BY <1>5 DEF CoinsArrive
  <2>2. Follows(t, Store)
    BY UgnotArrived, CoinsFollow
  <2> HIDE DEF t
  <2> QED
    BY <2>1, <2>2, FollowsMoves
<1> QED
  BY <1>1, <1>2, <1>3, <1>4, <1>5 DEF MemberOps

-----------------------------------------------------------------------------
(* What the core sees of a dispute.                                            *)

\* This ballot is the newest of the dispute.
IsLatest(bs, d, seq) ==
  seq \in DOMAIN bs /\ bs[seq].dispute = d /\ \A i \in DOMAIN bs : bs[i].dispute = d => i <= seq

LEMMA MaxIn ==
  ASSUME NEW E, E \subseteq Nat, E # {}, NEW b, b \in Nat, \A x \in E : x <= b
  PROVE  Max(E) \in E /\ \A x \in E : x <= Max(E)
<1>1. Newest(E) \in E /\ \A x \in E : x <= Newest(E)
  BY NewestIn
<1>2. \A x \in E : Newest(E) >= x
  BY <1>1
<1>3. Max(E) \in E /\ \A x \in E : Max(E) >= x
  BY <1>1, <1>2 DEF Max
<1> QED
  BY <1>3

LEMMA BallotOfIs ==
  ASSUME NEW st, Sound(st), NEW d
  PROVE  \/ BallotOf(st, d) = 0 /\ \A i \in DOMAIN st.ballots : st.ballots[i].dispute # d
         \/ IsLatest(st.ballots, d, BallotOf(st, d))
<1> DEFINE bs == st.ballots
           E == { seq \in DOMAIN bs : bs[seq].dispute = d }
<1>1. Len(bs) \in Nat /\ DOMAIN bs = 1 .. Len(bs)
  BY SoundShape, SequenceDomain DEF BallotsOK
<1>2. E \subseteq Nat /\ \A x \in E : x <= Len(bs)
  BY <1>1
<1>3. BallotOf(st, d) = IF E = {} THEN 0 ELSE Max(E)
  BY DEF BallotOf
<1>4. CASE E = {}
  BY <1>3, <1>4
<1>5. CASE E # {}
  <2>1. Max(E) \in E /\ \A x \in E : x <= Max(E)
    <3> DEFINE n == Len(bs)
    <3>1. n \in Nat /\ \A x \in E : x <= n
      BY <1>1, <1>2
    <3> HIDE DEF E, n
    <3> QED
      BY <1>2, <1>5, <3>1, MaxIn
  <2>2. IsLatest(bs, d, Max(E))
    BY <2>1 DEF IsLatest
  <2> QED
    BY <1>3, <1>5, <2>2
<1> QED
  BY <1>4, <1>5

LEMMA LatestIs ==
  ASSUME NEW st, Sound(st), NEW d, NEW seq, IsLatest(st.ballots, d, seq)
  PROVE  BallotOf(st, d) = seq
<1> DEFINE bs == st.ballots
           n == BallotOf(st, d)
<1>1. Len(bs) \in Nat /\ DOMAIN bs = 1 .. Len(bs)
  BY SoundShape, SequenceDomain DEF BallotsOK
<1>2. IsLatest(bs, d, n)
  BY BallotOfIs DEF IsLatest
<1> HIDE DEF n
<1>3. n \in DOMAIN bs /\ seq \in DOMAIN bs /\ n <= seq /\ seq <= n
  BY <1>2 DEF IsLatest
<1>4. n = seq
  BY <1>1, <1>3
<1> QED
  BY <1>4 DEF n

LEMMA NoLatest ==
  ASSUME NEW st, Sound(st), NEW d, \A i \in DOMAIN st.ballots : st.ballots[i].dispute # d
  PROVE  BallotOf(st, d) = 0
BY BallotOfIs DEF IsLatest

LEMMA ZeroIsNone ==
  ASSUME NEW st, Sound(st), NEW d, BallotOf(st, d) # 0
  PROVE  BallotOf(st, d) \in DOMAIN st.ballots /\ st.ballots[BallotOf(st, d)].dispute = d
BY BallotOfIs DEF IsLatest

LEMMA ZeroIsNoBallot ==
  ASSUME NEW st, Sound(st)
  PROVE  0 \notin DOMAIN st.ballots
<1>1. Len(st.ballots) \in Nat /\ DOMAIN st.ballots = 1 .. Len(st.ballots)
  BY SoundShape, SequenceDomain DEF BallotsOK
<1> QED
  BY <1>1

\* A ballot of this round, phase, finality and outcome, and the newest one of a dispute.
Look(round, phase, final, outcome) ==
  IF phase # "resolved" THEN House!Voting(round)
  ELSE House!Decision(round, IF final THEN "applied" ELSE "decided", outcome)

Seen(st, d) ==
  LET b == st.ballots[BallotOf(st, d)] IN
  IF BallotOf(st, d) = 0 THEN House!Unasked ELSE Look(b.round, b.phase, b.final, b.outcome)

\* Of t the core sees this of the dispute, and of the others what it sees of st.
Sees(t, st, d, look) == Seen(t, d) = look /\ \A x \in Disputes : x # d => Seen(t, x) = Seen(st, x)

\* No ballot is final before it is resolved, and every ballot is before another follows it.
InOrder(bs) ==
  \A seq \in DOMAIN bs : /\ bs[seq].phase # "resolved" => bs[seq].final = FALSE
                         /\ bs[seq].prev # 0 => bs[bs[seq].prev].final = TRUE

LEMMA HouseIs == HouseView = [d \in Disputes |-> Seen(Store, d)]
<1> SUFFICES ASSUME NEW d \in Disputes PROVE HouseView[d] = Seen(Store, d)
  BY DEF HouseView
<1> DEFINE seq == BallotOf(Store, d)
           view(round, stage, outcome) == [round |-> round, stage |-> stage, outcome |-> outcome]
<1>1. HouseView[d] = IF seq = 0 THEN view(0, "none", "")
                     ELSE IF ballots[seq].phase # "resolved" THEN view(ballots[seq].round, "voting", "")
                     ELSE view(ballots[seq].round, IF ballots[seq].final THEN "applied" ELSE "decided", ballots[seq].outcome)
  BY DEF HouseView
<1>2. Store.ballots = ballots
  BY StoreIs
<1> HIDE DEF seq
<1> QED
  BY <1>1, <1>2 DEF Seen, Look, House!Voting, House!Decision, House!Unasked, seq

LEMMA BecomesSeen ==
  ASSUME NEW st, Sound(st), NEW d, NEW seq, seq = BallotOf(st, d), seq # 0, NEW round, round = st.ballots[seq].round,
         NEW phase, NEW outcome, NEW final, NEW t, Becomes(t, st, seq, phase, outcome, final)
  PROVE  Sees(t, st, d, Look(round, phase, final, outcome)) /\ BallotOf(t, d) = seq /\ t.ballots[seq].round = round
<1> DEFINE bs == st.ballots
           cs == t.ballots
<1>1. seq \in DOMAIN bs /\ bs[seq].dispute = d
  BY ZeroIsNone
<1>2. PICK c : cs = [bs EXCEPT ![seq] = c] /\ LaterOf(c, bs[seq], phase, outcome, final)
  BY <1>1 DEF Becomes
<1>3. DOMAIN cs = DOMAIN bs /\ cs[seq] = c /\ \A i \in DOMAIN bs \ {seq} : cs[i] = bs[i]
  BY <1>1, <1>2
<1>4. c.dispute = d /\ c.round = round /\ c.phase = phase /\ c.outcome = outcome /\ c.final = final
  BY <1>1, <1>2 DEF LaterOf
<1>5. ASSUME NEW x
      PROVE  BallotOf(t, x) = BallotOf(st, x)
  <2>1. { i \in DOMAIN cs : cs[i].dispute = x } = { i \in DOMAIN bs : bs[i].dispute = x }
    BY <1>1, <1>3, <1>4
  <2> QED
    BY <2>1 DEF BallotOf
<1>6. Seen(t, d) = Look(round, phase, final, outcome)
  BY <1>3, <1>4, <1>5 DEF Seen
<1>7. ASSUME NEW x \in Disputes, x # d
      PROVE  Seen(t, x) = Seen(st, x)
  <2> DEFINE n == BallotOf(st, x)
  <2>1. CASE n = 0
    BY <1>5, <2>1 DEF Seen
  <2>2. CASE n # 0
    <3>1. n \in DOMAIN bs \ {seq}
      BY <1>1, <1>7, <2>2, ZeroIsNone
    <3>2. BallotOf(t, x) = n /\ cs[n] = bs[n]
      BY <1>3, <1>5, <3>1
    <3> HIDE DEF n
    <3>3. BallotOf(st, x) = n
      BY DEF n
    <3> QED
      BY <3>2, <3>3 DEF Seen
  <2> QED
    BY <2>1, <2>2
<1> QED
  BY <1>3, <1>4, <1>5, <1>6, <1>7 DEF Sees

LEMMA BecomesInOrder ==
  ASSUME NEW st, Sound(st), InOrder(st.ballots), NEW seq, seq \in DOMAIN st.ballots,
         NEW phase, NEW outcome, NEW final, phase # "resolved" => final = FALSE,
         NEW t, Becomes(t, st, seq, phase, outcome, final)
  PROVE  InOrder(t.ballots)
<1> DEFINE bs == st.ballots
           cs == t.ballots
<1>1. PICK c : cs = [bs EXCEPT ![seq] = c] /\ LaterOf(c, bs[seq], phase, outcome, final)
  BY DEF Becomes
<1>2. DOMAIN cs = DOMAIN bs /\ cs[seq] = c /\ \A i \in DOMAIN bs \ {seq} : cs[i] = bs[i]
  BY <1>1
<1>3. /\ c.phase = phase /\ c.final = final /\ c.prev = bs[seq].prev
      /\ bs[seq].final = TRUE => c.final = TRUE
  BY <1>1 DEF LaterOf, Kin
<1> SUFFICES ASSUME NEW i \in DOMAIN cs
             PROVE  /\ cs[i].phase # "resolved" => cs[i].final = FALSE
                    /\ cs[i].prev # 0 => cs[cs[i].prev].final = TRUE
  BY DEF InOrder
<1>4. cs[i].phase # "resolved" => cs[i].final = FALSE
  BY <1>2, <1>3 DEF InOrder
<1>5. ASSUME cs[i].prev # 0
      PROVE  cs[cs[i].prev].final = TRUE
  <2> DEFINE p == cs[i].prev
  <2>1. p = bs[i].prev
    BY <1>2, <1>3
  <2>2. bs[p].final = TRUE
    BY <1>2, <1>5, <2>1 DEF InOrder
  <2>3. p \in DOMAIN bs
    <3>1. Len(bs) \in Nat /\ DOMAIN bs = 1 .. Len(bs)
      BY SoundShape, SequenceDomain DEF BallotsOK
    <3>2. p \in Nat /\ p < i /\ i \in DOMAIN bs
      BY <1>2, <2>1, SoundShape DEF BallotsOK
    <3> QED
      BY <1>5, <3>1, <3>2
  <2> HIDE DEF p
  <2>4. cs[p].final = TRUE
    BY <1>2, <1>3, <2>2, <2>3
  <2> QED
    BY <2>4 DEF p
<1> QED
  BY <1>4, <1>5

LEMMA OpensSeen ==
  ASSUME NEW st, Sound(st), NEW d, NEW round, NEW prev, NEW t, Opens(t, st, d, round, prev)
  PROVE  Sees(t, st, d, House!Voting(round))
<1> DEFINE bs == st.ballots
           cs == t.ballots
           n == Len(bs) + 1
<1>1. PICK b : /\ BallotOK(b) /\ b.prev \in 0 .. Len(bs) /\ cs = Append(bs, b)
               /\ b.dispute = d /\ b.round = round /\ b.phase = "commit" /\ b.prev = prev
  BY DEF Opens
<1>2. Sound(t)
  BY OpensGoes DEF Goes
<1>3. IsSequence(bs)
  BY SoundShape DEF BallotsOK
<1>4. Len(bs) \in Nat /\ DOMAIN bs = 1 .. Len(bs)
  BY <1>3, SequenceDomain
<1>5. DOMAIN cs = DOMAIN bs \cup {n} /\ n \notin DOMAIN bs /\ cs[n] = b /\ \A i \in DOMAIN bs : cs[i] = bs[i]
  BY <1>1, <1>3, Appended
<1>6. IsLatest(cs, d, n)
  BY <1>1, <1>4, <1>5 DEF IsLatest
<1>7. n # 0
  BY <1>4
<1> HIDE DEF n
<1>8. BallotOf(t, d) = n
  BY <1>2, <1>6, LatestIs
<1>9. Seen(t, d) = House!Voting(round)
  BY <1>1, <1>5, <1>7, <1>8 DEF Seen, Look
<1>10. ASSUME NEW x \in Disputes, x # d
       PROVE  Seen(t, x) = Seen(st, x)
  <2>1. { i \in DOMAIN cs : cs[i].dispute = x } = { i \in DOMAIN bs : bs[i].dispute = x }
    BY <1>1, <1>5, <1>10
  <2>2. BallotOf(t, x) = BallotOf(st, x)
    BY <2>1 DEF BallotOf
  <2>3. CASE BallotOf(st, x) = 0
    BY <2>2, <2>3 DEF Seen
  <2>4. CASE BallotOf(st, x) # 0
    <3>1. cs[BallotOf(st, x)] = bs[BallotOf(st, x)]
      BY <1>5, <2>4, ZeroIsNone
    <3> QED
      BY <2>2, <3>1 DEF Seen
  <2> QED
    BY <2>3, <2>4
<1> QED
  BY <1>9, <1>10 DEF Sees

LEMMA OpensInOrder ==
  ASSUME NEW st, Sound(st), InOrder(st.ballots), NEW d, NEW round, NEW prev, prev # 0 => st.ballots[prev].final = TRUE,
         NEW t, Opens(t, st, d, round, prev)
  PROVE  InOrder(t.ballots)
<1> DEFINE bs == st.ballots
           cs == t.ballots
           n == Len(bs) + 1
<1>1. PICK b : /\ cs = Append(bs, b) /\ b.prev = prev /\ b.final = FALSE /\ b.prev \in 0 .. Len(bs)
  BY DEF Opens
<1>2. IsSequence(bs)
  BY SoundShape DEF BallotsOK
<1>3. Len(bs) \in Nat /\ DOMAIN bs = 1 .. Len(bs)
  BY <1>2, SequenceDomain
<1>4. DOMAIN cs = DOMAIN bs \cup {n} /\ n \notin DOMAIN bs /\ cs[n] = b /\ \A i \in DOMAIN bs : cs[i] = bs[i]
  BY <1>1, <1>2, Appended
<1> SUFFICES ASSUME NEW i \in DOMAIN cs
             PROVE  /\ cs[i].phase # "resolved" => cs[i].final = FALSE
                    /\ cs[i].prev # 0 => cs[cs[i].prev].final = TRUE
  BY DEF InOrder
<1>5. CASE i = n
  <2>1. cs[i].final = FALSE /\ cs[i].prev = prev
    BY <1>1, <1>4, <1>5
  <2>2. ASSUME prev # 0
        PROVE  cs[prev].final = TRUE
    <3>1. prev \in DOMAIN bs
      BY <1>1, <1>3, <2>2
    <3> QED
      BY <1>4, <2>2, <3>1
  <2> QED
    BY <2>1, <2>2
<1>6. CASE i \in DOMAIN bs
  <2> DEFINE p == bs[i].prev
  <2>1. cs[i] = bs[i]
    BY <1>4, <1>6
  <2>2. ASSUME p # 0
        PROVE  cs[p].final = TRUE
    <3>1. bs[p].final = TRUE
      BY <1>6, <2>2 DEF InOrder
    <3>2. p \in Nat /\ p < i
      BY <1>6, SoundShape DEF BallotsOK
    <3>3. p \in DOMAIN bs
      BY <1>3, <1>6, <2>2, <3>2
    <3> QED
      BY <1>4, <3>1, <3>3
  <2> QED
    <3>1. bs[i].phase # "resolved" => bs[i].final = FALSE
      BY <1>6 DEF InOrder
    <3> QED
      BY ONLY <2>1, <2>2, <3>1
<1> QED
  BY <1>4, <1>5, <1>6

LEMMA FundsOne ==
  ASSUME NEW st, Sound(st), InOrder(st.ballots), NEW seq, seq \in DOMAIN st.ballots, NEW t, Funds(t, st, seq)
  PROVE  Becomes(t, st, seq, st.ballots[seq].phase, st.ballots[seq].outcome, TRUE)
<1> DEFINE prev == st.ballots[seq].prev
<1>1. prev # 0 => st.ballots[prev].final = TRUE
  BY DEF InOrder
<1> QED
  BY <1>1 DEF Funds

LEMMA VerdictIs ==
  ASSUME NEW b
  PROVE  /\ Verdict(b).outcome \in House!Outcomes \cup {"ROLL"}
         /\ b.round = 2 => Verdict(b).outcome # "ROLL"
<1> DEFINE w == Clip(b.tally, b.top, Param.maxVoterShareBps, b.obligated)
           rules == BallotRules(b)
           res == Decide(w, b.obligated, rules)
<1>1. Verdict(b) = IF res.outcome = "ROLL" /\ b.round = 2 THEN [outcome |-> "VOID", tier |-> ""] ELSE res
  BY DEF Verdict
<1> HIDE DEF w, rules
<1>2. res.outcome \in {"UPHOLD", "OVERTURN", "VOID", "ROLL"}
  <2> DEFINE quorate == Quorate(w, b.obligated, rules)
             tier == IF rules.majorRequested /\ w["OVERTURN"] > w["OVERTURN_MINOR"] THEN "major" ELSE "minor"
             void == w["VOID"] * 2 > Total(w) - w["ABSTAIN"]
             upheld == Sides(w) > 0 /\ w["UPHOLD"] * Bps >= Sides(w) * rules.decisionBps
             overturned == Sides(w) > 0 /\ WeightOf(w, Overturns) * Bps >= Sides(w) * rules.decisionBps
             decided(o, x) == [outcome |-> o, tier |-> x]
  <2>1. res = CASE ~quorate -> decided("ROLL", "")
                [] quorate /\ void -> decided("VOID", "")
                [] OTHER -> IF upheld THEN decided("UPHOLD", "")
                            ELSE IF overturned THEN decided("OVERTURN", tier)
                            ELSE decided("ROLL", "")
    BY DEF Decide
  <2> HIDE DEF quorate, void, upheld, overturned, tier
  <2>2. \/ res = decided("ROLL", "") \/ res = decided("VOID", "") \/ res = decided("UPHOLD", "")
        \/ res = decided("OVERTURN", tier)
    BY <2>1
  <2>3. \A x : /\ decided("ROLL", x).outcome = "ROLL" /\ decided("VOID", x).outcome = "VOID"
               /\ decided("UPHOLD", x).outcome = "UPHOLD" /\ decided("OVERTURN", x).outcome = "OVERTURN"
    OBVIOUS
  <2> HIDE DEF res, decided
  <2> QED
    BY <2>2, <2>3
<1> HIDE DEF res
<1>3. CASE res.outcome = "ROLL" /\ b.round = 2
  <2>1. Verdict(b) = [outcome |-> "VOID", tier |-> ""]
    BY <1>1, <1>3
  <2>2. [outcome |-> "VOID", tier |-> ""].outcome = "VOID"
    OBVIOUS
  <2>3. Verdict(b).outcome = "VOID"
    BY <2>1, <2>2, ZenonT(60)
  <2> QED
    BY <2>3 DEF House!Outcomes
<1>4. CASE ~(res.outcome = "ROLL" /\ b.round = 2)
  <2>1. Verdict(b).outcome = res.outcome
    BY <1>1, <1>4
  <2> QED
    BY <1>2, <1>4, <2>1 DEF House!Outcomes
<1> QED
  BY <1>3, <1>4

\* What the realm has of the disputes is what the core has.
Agrees(look, status) ==
  /\ status = "none" => look = House!Unasked
  /\ status = "open" => look = House!Voting(1)
  /\ status = "decided" => \E outcome \in House!Outcomes : look = House!Decision(1, "decided", outcome)
  /\ status = "appealed" => look = House!Voting(2)

Agreed(st, ds) ==
  /\ InOrder(st.ballots)
  /\ DOMAIN ds = Disputes
  /\ \A d \in Disputes : DOMAIN ds[d] = DOMAIN NoDispute /\ Agrees(Seen(st, d), ds[d].status)

LEMMA VotingIs ==
  ASSUME NEW r
  PROVE  House!Voting(r).stage = "voting" /\ House!Voting(r).round = r
BY DEF House!Voting

LEMMA DecisionIs ==
  ASSUME NEW r, NEW stage, NEW outcome
  PROVE  LET look == House!Decision(r, stage, outcome) IN
         look.stage = stage /\ look.round = r /\ look.outcome = outcome
BY DEF House!Decision

LEMMA SeenVoting ==
  ASSUME NEW st, Sound(st), NEW d, NEW round, round # 0, Seen(st, d) = House!Voting(round)
  PROVE  LET b == st.ballots[BallotOf(st, d)] IN
         BallotOf(st, d) \in DOMAIN st.ballots /\ b.dispute = d /\ b.round = round /\ b.phase # "resolved"
<1> DEFINE b == st.ballots[BallotOf(st, d)]
<1>1. Seen(st, d).stage = "voting" /\ Seen(st, d).round = round
  BY VotingIs
<1>2. BallotOf(st, d) # 0
  BY <1>1 DEF Seen, House!Unasked
<1>3. Seen(st, d) = Look(b.round, b.phase, b.final, b.outcome)
  BY <1>2 DEF Seen
<1> HIDE DEF b
<1>4. b.phase # "resolved"
  BY <1>1, <1>3 DEF Look, House!Decision
<1>5. b.round = round
  <2>1. Seen(st, d) = House!Voting(b.round)
    BY <1>3, <1>4 DEF Look
  <2> QED
    BY <1>1, <2>1, VotingIs
<1> QED
  BY <1>2, <1>4, <1>5, ZeroIsNone DEF b

LEMMA SeenDecided ==
  ASSUME NEW st, Sound(st), NEW d, NEW outcome, Seen(st, d) = House!Decision(1, "decided", outcome)
  PROVE  LET b == st.ballots[BallotOf(st, d)] IN
         /\ BallotOf(st, d) \in DOMAIN st.ballots /\ b.dispute = d
         /\ b.round = 1 /\ b.phase = "resolved" /\ b.outcome = outcome
<1> DEFINE b == st.ballots[BallotOf(st, d)]
<1>1. Seen(st, d).stage = "decided" /\ Seen(st, d).round = 1 /\ Seen(st, d).outcome = outcome
  BY DEF House!Decision
<1>2. BallotOf(st, d) # 0
  BY <1>1 DEF Seen, House!Unasked
<1>3. Seen(st, d) = Look(b.round, b.phase, b.final, b.outcome)
  BY <1>2 DEF Seen
<1> HIDE DEF b
<1>4. b.phase = "resolved"
  <2>1. SUFFICES ASSUME b.phase # "resolved" PROVE FALSE
    OBVIOUS
  <2>2. Seen(st, d) = House!Voting(b.round)
    BY <1>3, <2>1 DEF Look
  <2> QED
    BY <1>1, <2>2, VotingIs
<1>5. b.round = 1 /\ b.outcome = outcome
  <2> DEFINE stage == IF b.final THEN "applied" ELSE "decided"
  <2>1. Seen(st, d) = House!Decision(b.round, stage, b.outcome)
    BY <1>3, <1>4 DEF Look
  <2> HIDE DEF stage
  <2> QED
    BY <1>1, <2>1, DecisionIs
<1> QED
  BY <1>2, <1>4, <1>5, ZeroIsNone DEF b

-----------------------------------------------------------------------------
(* Calls about ballots.                                                        *)

\* A step after which the core sees this of the dispute, and nothing new of the others.
Shows(d, look) == \E t : Goes(t, Store) /\ Commit(t) /\ Sees(t, Store, d, look) /\ InOrder(t.ballots)

LEMMA CommitVoteShows ==
  ASSUME Sound(Store), InOrder(ballots), NEW m, NEW d, NEW choice, CommitVote(m, d, choice)
  PROVE  Shows(d, Seen(Store, d))
<1> DEFINE seq == BallotOf(Store, d)
           b == ballots[seq]
           t == BallotCommit(Store, seq, m, choice)
<1>1. CanCommit(seq) /\ Commit(t)
  BY DEF CommitVote
<1>2. seq \in DOMAIN Store.ballots /\ b = Store.ballots[seq] /\ b.phase = "commit"
  BY <1>1, StoreIs DEF CanCommit
<1>3. seq # 0
  BY <1>2, ZeroIsNoBallot
<1>4. Becomes(t, Store, seq, b.phase, b.outcome, b.final)
  BY <1>2, BallotCommitIs
<1> HIDE DEF t
<1>5. Seen(Store, d) = Look(b.round, b.phase, b.final, b.outcome)
  BY <1>2, <1>3 DEF Seen
<1>6. b.phase # "resolved" => b.final = FALSE
  BY <1>2, StoreIs DEF InOrder
<1>7. InOrder(Store.ballots) /\ seq = BallotOf(Store, d) /\ b.round = Store.ballots[seq].round
  BY <1>2, StoreIs
<1> HIDE DEF seq, b
<1>8. Sees(t, Store, d, Seen(Store, d))
  BY <1>3, <1>4, <1>5, <1>7, BecomesSeen
<1>9. InOrder(t.ballots)
  BY <1>2, <1>4, <1>6, <1>7, BecomesInOrder
<1>10. Goes(t, Store)
  BY <1>4, BecomesGoes
<1> QED
  BY <1>1, <1>8, <1>9, <1>10 DEF Shows

LEMMA RevealVoteShows ==
  ASSUME Sound(Store), InOrder(ballots), NEW m, m \in Members, NEW d, RevealVote(m, d)
  PROVE  Shows(d, Seen(Store, d))
<1> DEFINE seq == BallotOf(Store, d)
           b == ballots[seq]
           choice == b.commits[m]
           weight == MemberWeight(Store, m, b.sealed)
           top == ReplaceTop(Store.ballots[seq].top, [voter |-> m, choice |-> choice, weight |-> weight])
           t == BallotReveal(Store, seq, m, choice, weight, top)
<1>1. CanReveal(seq) /\ ValidChoice(choice, b.majorRequested) /\ Commit(t)
  BY DEF RevealVote, Revealed
<1>2. seq \in DOMAIN Store.ballots /\ b = Store.ballots[seq] /\ b.phase # "resolved"
  BY <1>1, StoreIs DEF CanReveal
<1>3. choice \in BallotChoices
  BY <1>1 DEF ValidChoice
<1>4. weight \in Int
  <2> DEFINE sealed == b.sealed
             p == PowerAt(Store, m, sealed)
             l == Live(Store.members[m])
  <2>1. sealed \in Nat
    <3>1. BallotOK(b)
      BY <1>2, SoundShape DEF BallotsOK
    <3>2. b.sealed \in 1 .. epoch /\ epoch \in Nat
      BY <3>1, SoundShape DEF BallotOK
    <3> QED
      BY <3>2
  <2>2. weight = IF Store.members[m].known THEN Lesser(p, l) ELSE 0
    BY DEF MemberWeight
  <2> HIDE DEF sealed
  <2>3. p \in Int
    BY <2>1, PowerIsInt
  <2>4. l \in Int
    <3>1. Store.members[m].staked \in Nat /\ Store.members[m].unbondAmount \in Nat
      BY DEF Sound, Shaped, MemberOK
    <3> QED
      BY <3>1 DEF Live
  <2> HIDE DEF p, l
  <2> QED
    BY <2>2, <2>3, <2>4 DEF Lesser
<1>5. seq # 0
  BY <1>2, ZeroIsNoBallot
<1> HIDE DEF weight, choice, top
<1>6. Becomes(t, Store, seq, "reveal", b.outcome, b.final)
  BY <1>2, <1>3, <1>4, BallotRevealIs
<1> HIDE DEF t
<1>7. Seen(Store, d) = Look(b.round, "reveal", b.final, b.outcome)
  BY <1>2, <1>5 DEF Seen, Look
<1>8. b.final = FALSE
  BY <1>2, StoreIs DEF InOrder
<1>9. InOrder(Store.ballots) /\ seq = BallotOf(Store, d) /\ b.round = Store.ballots[seq].round
  BY <1>2, StoreIs
<1> HIDE DEF seq, b
<1>10. Sees(t, Store, d, Seen(Store, d))
  BY <1>5, <1>6, <1>7, <1>9, BecomesSeen
<1>11. InOrder(t.ballots)
  BY <1>2, <1>6, <1>8, <1>9, BecomesInOrder
<1>12. Goes(t, Store)
  BY <1>6, BecomesGoes
<1> QED
  BY <1>1, <1>10, <1>11, <1>12 DEF Shows

LEMMA SeenSame ==
  ASSUME NEW st, NEW t, t.ballots = st.ballots, NEW d
  PROVE  BallotOf(t, d) = BallotOf(st, d) /\ Seen(t, d) = Seen(st, d)
BY DEF Seen, BallotOf

LEMMA SeesOn ==
  ASSUME NEW st, NEW u, NEW t, NEW d, NEW before, NEW look, Sees(u, st, d, before), Sees(t, u, d, look)
  PROVE  Sees(t, st, d, look)
BY DEF Sees

LEMMA BecomesRecord ==
  ASSUME NEW st, NEW seq, seq \in DOMAIN st.ballots, NEW phase, NEW outcome, NEW final,
         NEW t, Becomes(t, st, seq, phase, outcome, final)
  PROVE  /\ seq \in DOMAIN t.ballots
         /\ t.ballots[seq].phase = phase /\ t.ballots[seq].outcome = outcome
         /\ t.ballots[seq].final = final /\ t.ballots[seq].round = st.ballots[seq].round
<1>1. PICK c : t.ballots = [st.ballots EXCEPT ![seq] = c] /\ LaterOf(c, st.ballots[seq], phase, outcome, final)
  BY DEF Becomes
<1>2. seq \in DOMAIN t.ballots /\ t.ballots[seq] = c
  BY <1>1
<1> QED
  BY <1>1, <1>2 DEF LaterOf

LEMMA OpenDisputeVoteShows ==
  ASSUME Sound(Store), InOrder(ballots), NEW d, NEW major, OpenDisputeVote(d, major)
  PROVE  Shows(d, House!Voting(1))
<1> DEFINE cond == BallotOf(Store, d) = 0
           q == Require(Store, cond)
           t == OpenBallot(q, d, 1, major, 0)
<1>1. Commit(t)
  BY DEF OpenDisputeVote
<1>2. Sound(q) /\ q.ballots = Store.ballots
  <2> HIDE DEF cond
  <2> QED
    BY RequireBallots
<1>3. Goes(q, Store)
  <2> HIDE DEF cond
  <2> QED
    BY RequireFollows, FollowsGoes
<1> HIDE DEF q
<1>4. 0 \in 0 .. Len(q.ballots)
  <2>1. Len(q.ballots) \in Nat
    BY <1>2, SoundShape, SequenceDomain DEF BallotsOK
  <2> QED
    BY <2>1
<1>5. Opens(t, q, d, 1, 0)
  BY <1>2, <1>4, OpenBallotIs
<1> HIDE DEF t
<1>6. Sees(t, q, d, House!Voting(1)) /\ InOrder(t.ballots)
  BY <1>2, <1>5, StoreIs, OpensSeen, OpensInOrder
<1>7. Sees(t, Store, d, House!Voting(1))
  BY <1>2, <1>6, SeenSame DEF Sees
<1>8. Goes(t, Store)
  BY <1>2, <1>3, <1>5, OpensGoes, GoesOn
<1> QED
  BY <1>1, <1>6, <1>7, <1>8 DEF Shows

LEMMA EndsSeen ==
  ASSUME NEW st, Sound(st), InOrder(st.ballots), NEW d, NEW seq, seq = BallotOf(st, d), seq \in DOMAIN st.ballots,
         st.ballots[seq].phase # "resolved", NEW outcome, NEW t, Ends(t, st, seq, outcome)
  PROVE  /\ InOrder(t.ballots)
         /\ outcome = "ROLL" => Sees(t, st, d, House!Voting(2))
         /\ outcome # "ROLL" => /\ Sees(t, st, d, House!Decision(st.ballots[seq].round, "decided", outcome))
                                /\ Becomes(t, st, seq, "resolved", outcome, FALSE)
<1> DEFINE b == st.ballots[seq]
           round == b.round
           final == outcome = "ROLL"
<1>1. b.final = FALSE
  BY DEF InOrder
<1>2. (b.final \/ outcome = "ROLL") = final
  BY <1>1
<1>3. seq # 0 /\ b.dispute = d
  BY ZeroIsNoBallot, ZeroIsNone
<1>4. PICK u : /\ Becomes(u, st, seq, "resolved", outcome, final)
               /\ outcome = "ROLL" => Opens(t, u, d, 2, seq)
               /\ outcome # "ROLL" => t = u
  BY <1>2, <1>3 DEF Ends
<1>5. round = st.ballots[seq].round
  OBVIOUS
<1> HIDE DEF round, final
<1>6. Sees(u, st, d, Look(round, "resolved", final, outcome)) /\ InOrder(u.ballots) /\ Sound(u)
  BY <1>3, <1>4, <1>5, BecomesSeen, BecomesInOrder, SameLength
<1>7. CASE outcome = "ROLL"
  <2>1. final = TRUE
    BY <1>7 DEF final
  <2>2. u.ballots[seq].final = TRUE
    <3>1. u.ballots[seq].final = final
      BY <1>4, BecomesRecord
    <3> QED
      BY <2>1, <3>1
  <2>3. Sees(t, u, d, House!Voting(2)) /\ InOrder(t.ballots)
    BY <1>4, <1>6, <1>7, <2>2, OpensSeen, OpensInOrder
  <2> QED
    BY <1>6, <1>7, <2>3, SeesOn
<1>8. CASE outcome # "ROLL"
  <2>1. final = FALSE
    BY <1>8 DEF final
  <2>2. Look(round, "resolved", FALSE, outcome) = House!Decision(round, "decided", outcome)
    BY DEF Look
  <2> QED
    BY <1>4, <1>5, <1>6, <1>8, <2>1, <2>2
<1> QED
  BY <1>7, <1>8

LEMMA ResolveOpenShows ==
  ASSUME Sound(Store), InOrder(ballots), NEW d, Seen(Store, d) = House!Voting(1), ResolveOpen(d)
  PROVE  LET outcome == Verdict(ballots[BallotOf(Store, d)]).outcome IN
         Shows(d, IF outcome = "ROLL" THEN House!Voting(2) ELSE House!Decision(1, "decided", outcome))
<1> DEFINE seq == BallotOf(Store, d)
           b == ballots[seq]
           res == Verdict(b)
           outcome == res.outcome
           t == Ended(Store, seq)
           look == IF outcome = "ROLL" THEN House!Voting(2) ELSE House!Decision(1, "decided", outcome)
<1>1. Commit(t)
  BY DEF ResolveOpen
<1>2. seq \in DOMAIN Store.ballots /\ b = Store.ballots[seq] /\ b.phase # "resolved" /\ b.round = 1
  BY SeenVoting, StoreIs
<1>3. t = Finished(Store, seq, b, res)
  BY <1>2 DEF Ended
<1> HIDE DEF t, res
<1>4. Ends(t, Store, seq, outcome)
  BY <1>2, <1>3, FinishedEnds
<1>5. seq = BallotOf(Store, d) /\ InOrder(Store.ballots) /\ Store.ballots[seq].phase # "resolved" /\ Store.ballots[seq].round = 1
  BY <1>2, StoreIs
<1> HIDE DEF seq, outcome
<1>6. /\ InOrder(t.ballots)
      /\ outcome = "ROLL" => Sees(t, Store, d, House!Voting(2))
      /\ outcome # "ROLL" => Sees(t, Store, d, House!Decision(1, "decided", outcome))
  BY <1>2, <1>4, <1>5, EndsSeen
<1>7. Sees(t, Store, d, look)
  BY <1>6
<1>8. Goes(t, Store)
  BY <1>4, EndsGoes
<1>9. Shows(d, look)
  BY <1>1, <1>6, <1>7, <1>8 DEF Shows
<1> QED
  BY <1>9 DEF outcome, res, seq

LEMMA ResolveDecidedShows ==
  ASSUME Sound(Store), InOrder(ballots), NEW d, NEW outcome, Seen(Store, d) = House!Decision(1, "decided", outcome),
         NEW amount, amount \in VoterShares, ResolveDecided(d, amount)
  PROVE  Shows(d, House!Decision(1, "applied", outcome))
<1> DEFINE seq == BallotOf(Store, d)
           t == FundVoters(Store, seq, amount)
<1>1. Commit(t) /\ amount \in Nat
  BY BallotsAssumption DEF ResolveDecided
<1>2. /\ seq \in DOMAIN Store.ballots /\ Store.ballots[seq].round = 1
      /\ Store.ballots[seq].phase = "resolved" /\ Store.ballots[seq].outcome = outcome
  BY SeenDecided
<1>3. seq # 0 /\ InOrder(Store.ballots) /\ seq = BallotOf(Store, d)
  BY <1>2, ZeroIsNoBallot, StoreIs
<1> HIDE DEF seq
<1>4. Funds(t, Store, seq)
  BY <1>1, <1>2, FundVotersFunds
<1> HIDE DEF t
<1>5. Becomes(t, Store, seq, "resolved", outcome, TRUE)
  BY <1>2, <1>3, <1>4, FundsOne
<1>6. Sees(t, Store, d, Look(1, "resolved", TRUE, outcome)) /\ InOrder(t.ballots)
  BY <1>2, <1>3, <1>5, BecomesSeen, BecomesInOrder
<1>7. Look(1, "resolved", TRUE, outcome) = House!Decision(1, "applied", outcome)
  BY DEF Look
<1>8. Goes(t, Store)
  BY <1>5, BecomesGoes
<1> QED
  BY <1>1, <1>6, <1>7, <1>8 DEF Shows

LEMMA ResolveAppealedShows ==
  ASSUME Sound(Store), InOrder(ballots), NEW d, Seen(Store, d) = House!Voting(2),
         NEW amount, amount \in VoterShares, ResolveAppealed(d, amount)
  PROVE  \E outcome \in House!Outcomes : Shows(d, House!Decision(2, "applied", outcome))
<1> DEFINE seq == BallotOf(Store, d)
           b == ballots[seq]
           res == Verdict(b)
           outcome == res.outcome
           u == Ended(Store, seq)
           t == FundVoters(u, seq, amount)
<1>1. Commit(t) /\ amount \in Nat
  BY BallotsAssumption DEF ResolveAppealed
<1>2. seq \in DOMAIN Store.ballots /\ b = Store.ballots[seq] /\ b.phase # "resolved" /\ b.round = 2
  BY SeenVoting, StoreIs
<1>3. outcome \in House!Outcomes /\ outcome # "ROLL"
  BY <1>2, VerdictIs
<1>4. u = Finished(Store, seq, b, res)
  BY <1>2 DEF Ended
<1> HIDE DEF u, res
<1>5. Ends(u, Store, seq, outcome)
  BY <1>2, <1>4, FinishedEnds
<1>6. /\ seq = BallotOf(Store, d) /\ seq # 0 /\ InOrder(Store.ballots)
      /\ Store.ballots[seq].phase # "resolved" /\ Store.ballots[seq].round = 2
  BY <1>2, ZeroIsNoBallot, StoreIs
<1> HIDE DEF outcome, seq
<1>7. /\ InOrder(u.ballots) /\ Sees(u, Store, d, House!Decision(2, "decided", outcome))
      /\ Becomes(u, Store, seq, "resolved", outcome, FALSE)
  BY <1>2, <1>3, <1>5, <1>6, EndsSeen
<1>8. Goes(u, Store) /\ Sound(u)
  BY <1>7, BecomesGoes DEF Goes
<1>9. seq = BallotOf(u, d) /\ seq \in DOMAIN u.ballots
      /\ u.ballots[seq].round = 2 /\ u.ballots[seq].phase = "resolved" /\ u.ballots[seq].outcome = outcome
  <2> DEFINE final == FALSE
  <2>1. Becomes(u, Store, seq, "resolved", outcome, final)
    BY <1>7
  <2> HIDE DEF final
  <2> QED
    BY <1>2, <1>6, <2>1, BecomesSeen, BecomesRecord
<1>10. Funds(t, u, seq)
  BY <1>1, <1>8, <1>9, FundVotersFunds
<1> HIDE DEF t
<1>11. Becomes(t, u, seq, "resolved", outcome, TRUE)
  BY <1>7, <1>8, <1>9, <1>10, FundsOne
<1>12. Sees(t, u, d, Look(2, "resolved", TRUE, outcome)) /\ InOrder(t.ballots)
  BY <1>6, <1>7, <1>8, <1>9, <1>11, BecomesSeen, BecomesInOrder
<1>13. Look(2, "resolved", TRUE, outcome) = House!Decision(2, "applied", outcome)
  BY DEF Look
<1>14. Sees(t, Store, d, House!Decision(2, "applied", outcome))
  <2> DEFINE before == House!Decision(2, "decided", outcome)
             look == House!Decision(2, "applied", outcome)
  <2>1. Sees(u, Store, d, before) /\ Sees(t, u, d, look)
    BY <1>7, <1>12, <1>13
  <2> HIDE DEF before, look
  <2>2. Sees(t, Store, d, look)
    BY <2>1, SeesOn
  <2> QED
    BY <2>2 DEF look
<1>15. Goes(t, Store)
  BY <1>8, <1>11, BecomesGoes, GoesOn
<1> QED
  BY <1>1, <1>3, <1>12, <1>14, <1>15 DEF Shows

LEMMA OpenAppealRoundShows ==
  ASSUME Sound(Store), InOrder(ballots), NEW d, NEW outcome, Seen(Store, d) = House!Decision(1, "decided", outcome),
         OpenAppealRound(d)
  PROVE  Shows(d, House!Voting(2))
<1> DEFINE seq == BallotOf(Store, d)
           b == ballots[seq]
           t == Superseded(Store, seq, b)
<1>1. Commit(t)
  BY DEF OpenAppealRound
<1>2. /\ seq \in DOMAIN Store.ballots /\ b = Store.ballots[seq] /\ Store.ballots[seq].dispute = d
      /\ Store.ballots[seq].phase = "resolved"
  BY SeenDecided, StoreIs
<1>3. Supersedes(t, Store, seq)
  BY <1>2, SupersededSupersedes
<1> HIDE DEF t
<1>4. seq # 0 /\ InOrder(Store.ballots) /\ seq = BallotOf(Store, d)
  BY <1>2, ZeroIsNoBallot, StoreIs
<1> HIDE DEF seq
<1> DEFINE o == Store.ballots[seq].outcome
           round == Store.ballots[seq].round
<1>5. PICK u : Becomes(u, Store, seq, "resolved", o, TRUE) /\ Opens(t, u, d, 2, seq)
  BY <1>2, <1>3 DEF Supersedes
<1>6. round = Store.ballots[seq].round
  OBVIOUS
<1> HIDE DEF o, round
<1>7. Sees(u, Store, d, Look(round, "resolved", TRUE, o)) /\ InOrder(u.ballots) /\ Sound(u)
  BY <1>2, <1>4, <1>5, <1>6, BecomesSeen, BecomesInOrder, SameLength
<1>8. u.ballots[seq].final = TRUE
  <2> DEFINE final == TRUE
  <2>1. Becomes(u, Store, seq, "resolved", o, final)
    BY <1>5
  <2> HIDE DEF final
  <2>2. u.ballots[seq].final = final
    BY <1>2, <2>1, BecomesRecord
  <2> QED
    BY <2>2 DEF final
<1>9. Sees(t, u, d, House!Voting(2)) /\ InOrder(t.ballots)
  BY <1>5, <1>7, <1>8, OpensSeen, OpensInOrder
<1>10. Sees(t, Store, d, House!Voting(2))
  <2> DEFINE before == Look(round, "resolved", TRUE, o)
             look == House!Voting(2)
  <2>1. Sees(u, Store, d, before) /\ Sees(t, u, d, look)
    BY ONLY <1>7, <1>9
  <2> HIDE DEF before, look
  <2>2. Sees(t, Store, d, look)
    BY ONLY <2>1, SeesOn
  <2> QED
    BY ONLY <2>2 DEF look
<1>11. Goes(t, Store)
  BY <1>3, SupersedesGoes
<1> QED
  BY <1>1, <1>9, <1>10, <1>11 DEF Shows

LEMMA VoterOpsMove ==
  ASSUME Sound(Store), InOrder(ballots), VoterOps
  PROVE  \E d \in Disputes : Shows(d, Seen(Store, d))
<1>1. ASSUME NEW m \in Members, NEW d \in Disputes, RevealVote(m, d)
      PROVE  \E x \in Disputes : Shows(x, Seen(Store, x))
  BY <1>1, RevealVoteShows
<1>2. ASSUME NEW m \in Members, NEW d \in Disputes, NEW choice \in BallotChoices, CommitVote(m, d, choice)
      PROVE  \E x \in Disputes : Shows(x, Seen(Store, x))
  BY <1>2, CommitVoteShows
<1> QED
  BY <1>1, <1>2 DEF VoterOps

-----------------------------------------------------------------------------
(* Calls about proposals.                                                      *)

\* What was minted, by year.
MintedOK(f) == IsFiniteSet(DOMAIN f) /\ \A y \in DOMAIN f : f[y] \in Int

LEMMA YearMinted ==
  ASSUME NEW f, MintedOK(f), NEW y, NEW amount, amount \in Int,
         NEW g, g = [x \in DOMAIN f \cup {y} |-> IF x = y THEN (IF y \in DOMAIN f THEN f[y] ELSE 0) + amount ELSE f[x]]
  PROVE  MintedOK(g) /\ SumFunction(g) = SumFunction(f) + amount
<1> DEFINE S == DOMAIN f
           before == IF y \in S THEN f[y] ELSE 0
<1>1. before \in Int
  BY DEF MintedOK
<1>2. DOMAIN g = S \cup {y} /\ g[y] = before + amount /\ \A x \in S \ {y} : g[x] = f[x]
  OBVIOUS
<1>3. IsFiniteSet(S) /\ IsFiniteSet(S \cup {y}) /\ IsFiniteSet(S \ {y})
  BY FS_AddElement, FS_RemoveElement DEF MintedOK
<1>4. \A x \in S : f[x] \in Int
  BY DEF MintedOK
<1> DEFINE R == S \ {y}
           rest == SumFunctionOnSet(f, R)
<1>5. SumFunctionOnSet(g, R) = rest
  BY <1>2, <1>3, SumSameValues
<1>6. rest \in Int
  BY <1>3, <1>4, SumIsInt
<1>7. y \notin R /\ R \cup {y} = S \cup {y}
  OBVIOUS
<1> HIDE DEF before
<1>8. g[y] \in Int /\ \A x \in R : g[x] \in Int
  BY <1>1, <1>2, <1>4
<1>9. MintedOK(g)
  BY <1>2, <1>3, <1>8 DEF MintedOK
<1>10. SumFunction(g) = before + amount + rest
  <2>1. SumFunctionOnSet(g, R \cup {y}) = g[y] + SumFunctionOnSet(g, R)
    <3>1. \A x \in R \cup {y} : g[x] \in Int
      BY <1>8
    <3> HIDE DEF R
    <3> QED
      BY <1>3, <1>7, <3>1, SumOneMore DEF R
  <2>2. SumFunction(g) = SumFunctionOnSet(g, R \cup {y})
    BY <1>2, <1>7 DEF SumFunction
  <2> HIDE DEF R, rest
  <2> QED
    BY <1>1, <1>2, <1>5, <1>6, <2>1, <2>2
<1>11. SumFunction(f) = before + rest
  <2>1. CASE y \in S
    <3>1. SumFunctionOnSet(f, S) = f[y] + rest
      BY <1>3, <1>4, <2>1, SumElement
    <3>2. before = f[y]
      BY <2>1 DEF before
    <3> QED
      BY <3>1, <3>2 DEF SumFunction
  <2>2. CASE y \notin S
    <3>1. R = S /\ before = 0
      BY <2>2 DEF before
    <3>2. SumFunction(f) = rest
      BY <3>1 DEF SumFunction
    <3> HIDE DEF rest
    <3> QED
      BY <1>6, <3>1, <3>2
  <2> QED
    BY <2>1, <2>2
<1> HIDE DEF rest
<1> QED
  BY <1>1, <1>6, <1>9, <1>10, <1>11

LEMMA MintedSum ==
  ASSUME NEW f, MintedOK(f)
  PROVE  SumFunction(f) \in Int
BY SumIsInt DEF MintedOK, SumFunction

LEMMA ProposeMoves ==
  ASSUME Sound(Store), NEW m, NEW payload, payload \in Payloads, NEW sent, Propose(m, payload, sent)
  PROVE  Moves(0)
<1> DEFINE a == [Store EXCEPT !.ugnot = @ + sent]
           deposit == IF AboveBar(Store, m) THEN 0 ELSE sent
           t == NewProposal(a, m, payload, deposit)
<1>1. Commit(t)
  BY DEF Propose
<1>2. Sound(a) /\ Apart(a, Store)
  BY UgnotArrived, CoinsOnlyKeepsProposals
<1> HIDE DEF a, deposit
<1>3. Apart(t, a)
  BY <1>2, NewProposalApart
<1> HIDE DEF t
<1>4. Apart(t, Store)
  BY <1>2, <1>3, ApartOn
<1> QED
  BY <1>1, <1>4, ApartMoves

LEMMA VoteMoves ==
  ASSUME Sound(Store), NEW m, NEW id, NEW choice, Vote(m, id, choice)
  PROVE  Moves(0)
<1> DEFINE weight == WeightAt(Store, m, proposals[id].sealed)
           t == ProposalVote(Store, id, m, choice, weight)
<1>1. Commit(t) /\ id \in DOMAIN Store.proposals
  BY StoreIs DEF Vote
<1> HIDE DEF weight
<1>2. Amends(t, Store)
  BY <1>1, ProposalVoteAmends
<1> HIDE DEF t
<1>3. Apart(t, Store)
  BY <1>2, AmendsSound
<1> QED
  BY <1>1, <1>3, ApartMoves

LEMMA CancelMoves ==
  ASSUME Sound(Store), NEW m, NEW id, Cancel(m, id)
  PROVE  Moves(0)
<1> DEFINE f == DepositForfeit(Store, id)
           t == SetStatus(f, id, "canceled")
<1>1. Commit(t) /\ id \in DOMAIN Store.proposals
  BY StoreIs DEF Cancel
<1>2. Amends(f, Store)
  BY <1>1, DepositForfeitAmends
<1> HIDE DEF f
<1>3. Sound(f) /\ id \in DOMAIN f.proposals
  BY <1>1, <1>2, AmendsSound DEF Amends
<1>4. Amends(t, f)
  BY <1>3, SetStatusAmends
<1> HIDE DEF t
<1>5. Apart(t, Store)
  BY <1>2, <1>4, AmendsOn, AmendsSound
<1> QED
  BY <1>1, <1>5, ApartMoves

\* A step that mints this much and books it.
Books(amount) == Moves(amount) /\ MintedOK(minted') /\ SumFunction(minted') = SumFunction(minted) + amount

LEMMA ExecuteBooks ==
  ASSUME Sound(Store), MintedOK(minted), NEW id, NEW succeeds, Execute(id, succeeds)
  PROVE  \E amount \in Nat : Books(amount)
<1> DEFINE u == AfterTally(id)
           t == Executed(u, id, succeeds)
           amount == MintedBy(u, id)
           payload == proposals[id].payload
<1>1. Commit(t) /\ id \in DOMAIN Store.proposals /\ t.ok
  BY StoreIs DEF Execute, Commit
<1>2. Amends(u, Store)
  <2>1. CASE proposals[id].status = "active"
    <3>1. u = Tallied(Store, id, proposals[id])
      BY <2>1 DEF AfterTally
    <3> QED
      BY <1>1, <3>1, TalliedAmends
  <2>2. CASE proposals[id].status # "active"
    <3>1. u = Store
      BY <2>2 DEF AfterTally
    <3>2. CoinsOnly(Store, Store)
      BY CoinsOnlyItself
    <3> QED
      BY <3>1, <3>2, CoinsAmend
  <2> QED
    BY <2>1, <2>2
<1>3. MintsNow(id) = (Runs(u, id) /\ ~(now > proposals[id].expires) /\ payload.kind = "mint")
  BY DEF MintsNow
<1> HIDE DEF u
<1>4. /\ id \in DOMAIN u.proposals /\ Sound(u) /\ Apart(u, Store)
      /\ u.proposals[id].payload = payload /\ u.proposals[id].expires = proposals[id].expires
  BY <1>1, <1>2, AmendsSound, StoreIs DEF Amends
<1>5. Mints(t, u, amount)
  BY <1>1, <1>4, ExecutedMints
<1>6. payload \in Payloads /\ payload.amount \in Nat
  BY <1>1, StoreIs, SoundShape, PayloadsAssumption DEF ProposalsOK
<1>7. amount = IF MintsNow(id) THEN payload.amount ELSE 0
  BY <1>3, <1>4 DEF MintedBy, MintOf
<1> HIDE DEF t, amount, payload
<1>8. amount \in Nat /\ amount \in Int
  BY <1>6, <1>7
<1>9. Moves(amount)
  BY <1>1, <1>4, <1>5, MintsAfter DEF Moves
<1>10. MintedOK(minted') /\ SumFunction(minted') = SumFunction(minted) + amount
  <2>1. CASE MintsNow(id)
    <3> DEFINE y == now \div Year
               more == proposals[id].payload.amount
    <3>1. minted' = [x \in DOMAIN minted \cup {y} |-> IF x = y THEN MintedInYear(y) + more ELSE minted[x]]
      BY <2>1 DEF Execute
    <3>2. more \in Int /\ more = amount
      BY <1>7, <1>8, <2>1 DEF payload
    <3> HIDE DEF y, more
    <3>3. minted' = [x \in DOMAIN minted \cup {y} |->
                       IF x = y THEN (IF y \in DOMAIN minted THEN minted[y] ELSE 0) + more ELSE minted[x]]
      BY <3>1 DEF MintedInYear
    <3> DEFINE f == minted
               g == minted'
    <3>4. MintedOK(f) /\ g = [x \in DOMAIN f \cup {y} |-> IF x = y THEN (IF y \in DOMAIN f THEN f[y] ELSE 0) + more ELSE f[x]]
      BY <3>3
    <3> HIDE DEF f, g
    <3>5. MintedOK(g) /\ SumFunction(g) = SumFunction(f) + more
      BY <3>2, <3>4, YearMinted
    <3> QED
      BY <3>2, <3>5 DEF f, g
  <2>2. CASE ~MintsNow(id)
    <3>1. minted' = minted /\ amount = 0
      BY <1>7, <2>2 DEF Execute
    <3> QED
      BY <3>1, MintedSum
  <2> QED
    BY <2>1, <2>2
<1> QED
  BY <1>8, <1>9, <1>10 DEF Books

LEMMA ProposalOpsBook ==
  ASSUME Sound(Store), MintedOK(minted), ProposalOps
  PROVE  \E amount \in Nat : Books(amount)
<1>1. ASSUME Moves(0), UNCHANGED minted
      PROVE  Books(0)
  BY <1>1, MintedSum DEF Books
<1>2. 0 \in Nat
  OBVIOUS
<1>3. ASSUME NEW m \in Members, NEW payload \in Payloads, NEW sent \in Deposits, Propose(m, payload, sent)
      PROVE  Books(0)
  BY <1>1, <1>3, ProposeMoves DEF Propose
<1>4. ASSUME NEW m \in Members, NEW id \in DOMAIN proposals, Cancel(m, id)
      PROVE  Books(0)
  BY <1>1, <1>4, CancelMoves DEF Cancel
<1>5. ASSUME NEW m \in Members, NEW id \in DOMAIN proposals, NEW choice \in ProposalChoices, Vote(m, id, choice)
      PROVE  Books(0)
  BY <1>1, <1>5, VoteMoves DEF Vote
<1>6. ASSUME NEW id \in DOMAIN proposals, NEW succeeds \in BOOLEAN, Execute(id, succeeds)
      PROVE  \E amount \in Nat : Books(amount)
  BY <1>6, ExecuteBooks
<1> QED
  BY <1>2, <1>3, <1>4, <1>5, <1>6 DEF ProposalOps

-----------------------------------------------------------------------------
(* The invariant.                                                              *)

\* All the PYTH there is: what there was, and what was minted.
SupplyOK == TotalSupply(Store) = Treasury + Cardinality(Members) * Allotted + SumFunction(minted)

DaoInv == Sound(Store) /\ Agreed(Store, disputes) /\ MintedOK(minted) /\ SupplyOK

\* The weights of the epochs that have begun stay, and their totals.
PastKept ==
  /\ \A m \in Members, e \in 1 .. epoch : ValueAt(power'.series[m], e) = PowerAt(Store, m, e)
  /\ \A e \in 1 .. epoch : ValueAt(power'.total, e) = TotalPowerAt(Store, e)

LEMMA CommitLeaves ==
  ASSUME NEW t, Commit(t)
  PROVE  /\ ballots' = t.ballots /\ TotalSupply(Store)' = TotalSupply(t)
         /\ \A d : Seen(Store, d)' = Seen(t, d)
         /\ \A m, e : ValueAt(power'.series[m], e) = PowerAt(t, m, e)
         /\ \A e : ValueAt(power'.total, e) = TotalPowerAt(t, e)
<1>1. /\ ballots' = t.ballots /\ pyth' = t.pyth /\ wallets' = t.wallets /\ power' = t.power
  BY DEF Commit
<1>2. Store'.ballots = t.ballots /\ Store'.pyth = t.pyth /\ Store'.wallets = t.wallets
  BY <1>1 DEF Store
<1>3. TotalSupply(Store)' = TotalSupply(t)
  BY <1>2 DEF TotalSupply
<1>4. \A d : Seen(Store, d)' = Seen(t, d)
  BY <1>2 DEF Seen, BallotOf
<1>5. /\ \A m, e : ValueAt(power'.series[m], e) = PowerAt(t, m, e)
      /\ \A e : ValueAt(power'.total, e) = TotalPowerAt(t, e)
  BY <1>1 DEF PowerAt, TotalPowerAt
<1> QED
  BY <1>1, <1>3, <1>4, <1>5

LEMMA SupplyIsInt ==
  ASSUME NEW st, Sound(st)
  PROVE  TotalSupply(st) \in Int
BY SupplyIs DEF Sound

LEMMA HouseIsNext == HouseView' = [d \in Disputes |-> Seen(Store, d)']
<1>1. (HouseView = [d \in Disputes |-> Seen(Store, d)])'
  BY HouseIs, PTL
<1> QED
  BY <1>1

\* Mints.
LEMMA BooksKeep ==
  ASSUME DaoInv, NEW amount, amount \in Nat, Books(amount), UNCHANGED disputes
  PROVE  DaoInv' /\ PastKept /\ UNCHANGED HouseView
<1>1. PICK t : Mints(t, Store, amount) /\ Commit(t)
  BY DEF Books, Moves
<1>2. Sound(Store)'
  BY <1>1, CommitsSound DEF Mints
<1>3. ballots' = ballots
  BY <1>1, CommitLeaves, StoreIs DEF Mints
<1>4. \A d : Seen(Store, d)' = Seen(Store, d)
  BY <1>1, CommitLeaves, SeenSame DEF Mints
<1>5. Agreed(Store, disputes)'
  <2>1. Store'.ballots = ballots /\ Store.ballots = ballots
    BY <1>3 DEF Store
  <2>2. Agreed(Store, disputes)
    BY DEF DaoInv
  <2> QED
    BY <1>4, <2>1, <2>2 DEF Agreed
<1>6. SupplyOK' /\ MintedOK(minted)'
  <2> DEFINE total == TotalSupply(Store)
             sum == SumFunction(minted)
             start == Treasury + Cardinality(Members) * Allotted
  <2>1. total' = total + amount
    BY <1>1, CommitLeaves DEF Mints
  <2>2. sum' = sum + amount /\ MintedOK(minted')
    BY DEF Books
  <2>3. total = start + sum /\ sum \in Int
    BY MintedSum DEF DaoInv, SupplyOK
  <2>4. start \in Int
    BY WalletsAssumption, MembersAssumption, FS_CardinalityType
  <2>5. SupplyOK' = (total' = start + sum')
    BY DEF SupplyOK
  <2> HIDE DEF total, sum, start
  <2>6. total' = start + sum'
    BY <2>1, <2>2, <2>3, <2>4
  <2>7. MintedOK(minted)'
    BY <2>2 DEF MintedOK
  <2> QED
    BY <2>5, <2>6, <2>7
<1>7. PastKept
  BY <1>1, CommitLeaves DEF Mints, SameHistory, PastKept
<1>8. HouseView' = HouseView
  <2>1. HouseView' = [d \in Disputes |-> Seen(Store, d)']
    BY HouseIsNext
  <2> QED
    BY <1>4, <2>1, HouseIs
<1> QED
  BY <1>2, <1>5, <1>6, <1>7, <1>8 DEF DaoInv

\* Ballots.
Marks(d, status) ==
  /\ DOMAIN disputes' = Disputes
  /\ DOMAIN disputes'[d] = DOMAIN NoDispute /\ disputes'[d].status = status
  /\ \A x \in Disputes \ {d} : disputes'[x] = disputes[x]

LEMMA ShowsKeep ==
  ASSUME DaoInv, NEW d, d \in Disputes, NEW look, Shows(d, look), NEW status, Marks(d, status), Agrees(look, status),
         UNCHANGED minted
  PROVE  DaoInv' /\ PastKept
<1>1. PICK t : Goes(t, Store) /\ Commit(t) /\ Sees(t, Store, d, look) /\ InOrder(t.ballots)
  BY DEF Shows
<1>2. Sound(Store)'
  BY <1>1, CommitsSound DEF Goes
<1>3. \A x : Seen(Store, x)' = Seen(t, x)
  BY <1>1, CommitLeaves
<1>4. Agreed(Store, disputes)'
  <2>1. InOrder(Store.ballots)'
    <3>1. Store'.ballots = t.ballots
      BY <1>1, CommitLeaves DEF Store
    <3> QED
      BY <1>1, <3>1 DEF InOrder
  <2>2. ASSUME NEW x \in Disputes
        PROVE  DOMAIN disputes'[x] = DOMAIN NoDispute /\ Agrees(Seen(Store, x)', disputes'[x].status)
    <3>1. CASE x = d
      BY <1>1, <1>3, <3>1 DEF Marks, Sees
    <3>2. CASE x # d
      <4>1. Seen(Store, x)' = Seen(Store, x) /\ disputes'[x] = disputes[x]
        BY <1>1, <1>3, <3>2 DEF Marks, Sees
      <4>2. DOMAIN disputes[x] = DOMAIN NoDispute /\ Agrees(Seen(Store, x), disputes[x].status)
        BY DEF DaoInv, Agreed
      <4> QED
        BY <4>1, <4>2
    <3> QED
      BY <3>1, <3>2
  <2>3. DOMAIN disputes' = Disputes
    BY DEF Marks
  <2> QED
    BY <2>1, <2>2, <2>3 DEF Agreed
<1>5. SupplyOK' /\ MintedOK(minted)'
  <2>1. TotalSupply(Store)' = TotalSupply(Store)
    BY <1>1, CommitLeaves DEF Goes
  <2> QED
    BY <2>1 DEF DaoInv, SupplyOK, MintedOK
<1>6. PastKept
  BY <1>1, CommitLeaves DEF Goes, SameHistory, PastKept
<1> QED
  BY <1>2, <1>4, <1>5, <1>6 DEF DaoInv

LEMMA ShowsInHouse ==
  ASSUME NEW d, d \in Disputes, NEW look, Shows(d, look)
  PROVE  /\ look = Seen(Store, d) => UNCHANGED HouseView
         /\ <<Seen(Store, d), look>> \in House!Moves => House!Next
<1>1. PICK t : Commit(t) /\ Sees(t, Store, d, look)
  BY DEF Shows
<1>2. Seen(Store, d)' = look /\ \A x \in Disputes : x # d => Seen(Store, x)' = Seen(Store, x)
  BY <1>1, CommitLeaves DEF Sees
<1>3. HouseView' = [x \in Disputes |-> Seen(Store, x)']
  BY HouseIsNext
<1>4. HouseView = [x \in Disputes |-> Seen(Store, x)]
  BY HouseIs
<1>5. HouseView'[d] = look /\ HouseView[d] = Seen(Store, d)
  BY <1>2, <1>3, <1>4
<1>6. ASSUME look = Seen(Store, d)
      PROVE  HouseView' = HouseView
  BY <1>2, <1>3, <1>4, <1>6
<1>7. HouseView' = [HouseView EXCEPT ![d] = HouseView'[d]]
  BY <1>2, <1>3, <1>4, <1>5
<1>8. ASSUME <<Seen(Store, d), look>> \in House!Moves
      PROVE  House!Next
  <2>1. <<HouseView[d], HouseView'[d]>> \in House!Moves
    BY <1>5, <1>8
  <2> QED
    BY <1>7, <2>1 DEF House!Next
<1> QED
  BY <1>6, <1>8

LEMMA ClockKeeps ==
  ASSUME DaoInv, UNCHANGED <<tables, disputes, minted>>, now' \in Nat, epoch' = epoch \/ epoch' = epoch + 1
  PROVE  DaoInv' /\ PastKept /\ UNCHANGED HouseView
<1>1. /\ members' = members /\ power' = power /\ fees' = fees /\ ballots' = ballots /\ proposals' = proposals
      /\ held' = held /\ ugnot' = ugnot /\ pyth' = pyth /\ wallets' = wallets
      /\ disputes' = disputes /\ minted' = minted
  BY DEF tables
<1>2. Store' = Store
  BY <1>1 DEF Store
<1>3. Shaped(Store) /\ Booked(Store) /\ Waited(Store)
  BY DEF DaoInv, Sound
<1>4. epoch \in Nat \ {0} /\ epoch' \in Nat \ {0} /\ epoch + 1 <= epoch' + 1 /\ epoch + 1 \in Nat /\ epoch' + 1 \in Nat
      /\ epoch <= epoch'
  BY <1>3 DEF Shaped
<1>5. PowerOK(Store.power)'
  <2> DEFINE pw == Store.power
             last == epoch + 1
             later == epoch' + 1
  <2>1. PowerOK(pw) /\ last \in Nat /\ later \in Nat /\ last <= later
    BY <1>3, <1>4 DEF Shaped
  <2>2. Points(pw.total, last) /\ \A m \in Members : Points(pw.series[m], last)
    BY <2>1 DEF PowerOK
  <2>3. DOMAIN pw = {"series", "total"} /\ DOMAIN pw.series = Members
    BY <2>1 DEF PowerOK
  <2>4. PowerOK(pw)' = /\ DOMAIN pw' = {"series", "total"} /\ DOMAIN pw'.series = Members
                       /\ Points(pw'.total, later)
                       /\ \A m \in Members : Points(pw'.series[m], later)
    BY DEF PowerOK
  <2>5. pw' = pw
    BY <1>2
  <2> HIDE DEF pw, last, later
  <2>6. Points(pw.total, later) /\ \A m \in Members : Points(pw.series[m], later)
    BY <2>1, <2>2, PointsLater
  <2>7. PowerOK(pw)'
    BY <2>3, <2>4, <2>5, <2>6
  <2> QED
    BY <2>7 DEF pw
<1>6. BallotsOK(Store.ballots)'
  <2> DEFINE bs == Store.ballots
  <2>1. BallotsOK(bs) /\ bs' = bs
    BY <1>2, <1>3 DEF Shaped
  <2>2. ASSUME NEW b, BallotOK(b)
        PROVE  b.sealed \in 1 .. epoch'
    <3>1. b.sealed \in 1 .. epoch
      BY <2>2 DEF BallotOK
    <3> QED
      BY <1>4, <3>1
  <2>3. \A seq \in DOMAIN bs : BallotOK(bs[seq])
    BY <2>1 DEF BallotsOK
  <2>4. \A seq \in DOMAIN bs : bs[seq].sealed \in 1 .. epoch'
    BY <2>2, <2>3
  <2> HIDE DEF bs
  <2>5. \A seq \in DOMAIN bs : BallotOK(bs[seq])'
    BY <2>1, <2>3, <2>4 DEF BallotOK
  <2>6. BallotsOK(bs)'
    BY <2>1, <2>5 DEF BallotsOK
  <2> QED
    BY <2>6 DEF bs
<1>7. Shaped(Store)'
  BY <1>2, <1>3, <1>4, <1>5, <1>6 DEF Shaped
<1>8. Booked(Store)' /\ Waited(Store)'
  BY <1>2, <1>3 DEF Booked, Waited
<1>9. Sound(Store)'
  BY <1>7, <1>8 DEF Sound
<1>10. \A d : Seen(Store, d)' = Seen(Store, d)
  BY <1>2
<1>11. Agreed(Store, disputes)'
  <2>1. Agreed(Store, disputes)
    BY DEF DaoInv
  <2> QED
    BY <1>1, <1>2, <1>10, <2>1 DEF Agreed
<1>12. SupplyOK' /\ MintedOK(minted)'
  BY <1>1, <1>2 DEF DaoInv, SupplyOK, MintedOK
<1>13. PastKept
  BY <1>1 DEF PastKept, PowerAt, TotalPowerAt, Store
<1>14. HouseView' = HouseView
  BY <1>10, HouseIs, HouseIsNext
<1> QED
  BY <1>9, <1>11, <1>12, <1>13, <1>14 DEF DaoInv

LEMMA MemberOpsKeep ==
  ASSUME DaoInv, MemberOps, UNCHANGED <<disputes, minted>>
  PROVE  DaoInv' /\ PastKept /\ UNCHANGED HouseView
<1>1. Books(0)
  BY MemberOpsMove, MintedSum DEF Books, DaoInv
<1> QED
  BY <1>1, BooksKeep

LEMMA ProposalOpsKeep ==
  ASSUME DaoInv, ProposalOps, UNCHANGED disputes
  PROVE  DaoInv' /\ PastKept /\ UNCHANGED HouseView
BY ProposalOpsBook, BooksKeep DEF DaoInv

LEMMA VoterOpsKeep ==
  ASSUME DaoInv, VoterOps, UNCHANGED minted
  PROVE  DaoInv' /\ PastKept /\ UNCHANGED HouseView
<1>1. InOrder(ballots)
  BY StoreIs DEF DaoInv, Agreed
<1>2. PICK d \in Disputes : Shows(d, Seen(Store, d))
  BY <1>1, VoterOpsMove DEF DaoInv
<1>3. disputes' = disputes
  BY DEF VoterOps
<1> DEFINE look == Seen(Store, d)
           status == disputes[d].status
<1>4. Marks(d, status) /\ Agrees(look, status)
  BY <1>3 DEF Marks, DaoInv, Agreed
<1>5. Shows(d, look)
  BY <1>2
<1>6. UNCHANGED HouseView
  BY <1>2, ShowsInHouse
<1> HIDE DEF look, status
<1> QED
  BY <1>4, <1>5, <1>6, ShowsKeep

LEMMA MarkMarks ==
  ASSUME DaoInv, NEW d, d \in Disputes, NEW status, MarkDispute(d, status)
  PROVE  Marks(d, status)
<1>1. DOMAIN disputes = Disputes /\ DOMAIN disputes[d] = {"status", "majorRequested"}
  BY DEF DaoInv, Agreed, NoDispute
<1>2. DOMAIN disputes' = Disputes /\ \A x \in Disputes \ {d} : disputes'[x] = disputes[x]
  BY <1>1 DEF MarkDispute
<1>3. disputes'[d] = [disputes[d] EXCEPT !.status = status]
  BY <1>1 DEF MarkDispute
<1>4. DOMAIN disputes'[d] = DOMAIN NoDispute /\ disputes'[d].status = status
  BY <1>1, <1>3 DEF NoDispute
<1> QED
  BY <1>2, <1>4 DEF Marks

LEMMA HouseMoves ==
  /\ <<House!Unasked, House!Voting(1)>> \in House!Moves
  /\ <<House!Voting(1), House!Voting(2)>> \in House!Moves
  /\ \A outcome \in House!Outcomes :
       /\ <<House!Voting(1), House!Decision(1, "decided", outcome)>> \in House!Moves
       /\ <<House!Decision(1, "decided", outcome), House!Voting(2)>> \in House!Moves
       /\ <<House!Decision(1, "decided", outcome), House!Decision(1, "applied", outcome)>> \in House!Moves
       /\ <<House!Voting(2), House!Decision(2, "applied", outcome)>> \in House!Moves
<1>1. House!Votes \subseteq House!Moves /\ \A outcome \in House!Outcomes : House!Decisions(outcome) \subseteq House!Moves
  BY DEF House!Moves
<1>2. <<House!Unasked, House!Voting(1)>> \in House!Votes /\ <<House!Voting(1), House!Voting(2)>> \in House!Votes
  BY DEF House!Votes
<1>3. \A outcome \in House!Outcomes :
        /\ <<House!Voting(1), House!Decision(1, "decided", outcome)>> \in House!Decisions(outcome)
        /\ <<House!Decision(1, "decided", outcome), House!Voting(2)>> \in House!Decisions(outcome)
        /\ <<House!Decision(1, "decided", outcome), House!Decision(1, "applied", outcome)>> \in House!Decisions(outcome)
        /\ <<House!Voting(2), House!Decision(2, "applied", outcome)>> \in House!Decisions(outcome)
  BY DEF House!Decisions
<1> QED
  BY <1>1, <1>2, <1>3

\* A step of the core's that shows this and marks that.
LEMMA StepKeeps ==
  ASSUME DaoInv, NEW d, d \in Disputes, NEW look, Shows(d, look), NEW status, Marks(d, status), Agrees(look, status),
         <<Seen(Store, d), look>> \in House!Moves, UNCHANGED minted
  PROVE  DaoInv' /\ PastKept /\ [House!Next]_HouseView
BY ShowsKeep, ShowsInHouse

LEMMA CoreOpsKeep ==
  ASSUME DaoInv, CoreOps, UNCHANGED minted
  PROVE  DaoInv' /\ PastKept /\ [House!Next]_HouseView
<1> DEFINE Goal == DaoInv' /\ PastKept /\ [House!Next]_HouseView
<1>1. Sound(Store) /\ InOrder(ballots) /\ \A d \in Disputes : Agrees(Seen(Store, d), disputes[d].status)
  BY StoreIs DEF DaoInv, Agreed
<1>2. ASSUME NEW d \in Disputes, NEW major \in BOOLEAN, OpenDisputeVote(d, major)
      PROVE  Goal
  <2> DEFINE look == House!Voting(1)
  <2>1. Seen(Store, d) = House!Unasked
    BY <1>1, <1>2 DEF OpenDisputeVote, Agrees
  <2>2. Shows(d, look) /\ <<Seen(Store, d), look>> \in House!Moves
    BY <1>1, <1>2, <2>1, OpenDisputeVoteShows, HouseMoves
  <2>3. Marks(d, "open")
    <3>1. DOMAIN disputes = Disputes
      BY DEF DaoInv, Agreed
    <3>2. disputes' = [disputes EXCEPT ![d] = [status |-> "open", majorRequested |-> major]]
      BY <1>2 DEF OpenDisputeVote
    <3>3. disputes'[d] = [status |-> "open", majorRequested |-> major]
      BY <3>1, <3>2
    <3>4. DOMAIN disputes'[d] = DOMAIN NoDispute /\ disputes'[d].status = "open"
      BY <3>3 DEF NoDispute
    <3> QED
      BY <3>1, <3>2, <3>4 DEF Marks
  <2>4. Agrees(look, "open")
    BY DEF Agrees
  <2> HIDE DEF look
  <2> QED
    BY <2>2, <2>3, <2>4, StepKeeps
<1>3. ASSUME NEW d \in Disputes, ResolveOpen(d)
      PROVE  Goal
  <2> DEFINE outcome == Verdict(ballots[BallotOf(Store, d)]).outcome
             look == IF outcome = "ROLL" THEN House!Voting(2) ELSE House!Decision(1, "decided", outcome)
             status == IF outcome = "ROLL" THEN "appealed" ELSE "decided"
  <2>1. Seen(Store, d) = House!Voting(1)
    BY <1>1, <1>3 DEF ResolveOpen, FirstDue, Agrees
  <2>2. Shows(d, look)
    BY <1>1, <1>3, <2>1, ResolveOpenShows
  <2>3. MarkDispute(d, status)
    BY <1>3 DEF ResolveOpen
  <2>4. outcome \in House!Outcomes \cup {"ROLL"}
    BY VerdictIs
  <2> HIDE DEF outcome
  <2>5. <<Seen(Store, d), look>> \in House!Moves /\ Agrees(look, status)
    <3>1. CASE outcome = "ROLL"
      BY <2>1, <3>1, HouseMoves DEF Agrees
    <3>2. CASE outcome # "ROLL"
      <4>1. outcome \in House!Outcomes /\ look = House!Decision(1, "decided", outcome) /\ status = "decided"
        BY <2>4, <3>2
      <4> QED
        BY <2>1, <4>1, HouseMoves DEF Agrees
    <3> QED
      BY <3>1, <3>2
  <2>6. Marks(d, status)
    BY <2>3, MarkMarks
  <2> HIDE DEF look, status
  <2> QED
    BY <2>2, <2>5, <2>6, StepKeeps
<1>4. ASSUME NEW d \in Disputes, NEW amount \in VoterShares, ResolveDecided(d, amount)
      PROVE  Goal
  <2>1. PICK outcome \in House!Outcomes : Seen(Store, d) = House!Decision(1, "decided", outcome)
    BY <1>1, <1>4 DEF ResolveDecided, WindowDue, Agrees
  <2> DEFINE look == House!Decision(1, "applied", outcome)
  <2>2. Shows(d, look) /\ <<Seen(Store, d), look>> \in House!Moves
    BY <1>1, <1>4, <2>1, ResolveDecidedShows, HouseMoves
  <2>3. Marks(d, "resolved")
    BY <1>4, MarkMarks DEF ResolveDecided
  <2>4. Agrees(look, "resolved")
    BY DEF Agrees
  <2> HIDE DEF look
  <2> QED
    BY <2>2, <2>3, <2>4, StepKeeps
<1>5. ASSUME NEW d \in Disputes, NEW amount \in VoterShares, ResolveAppealed(d, amount)
      PROVE  Goal
  <2>1. Seen(Store, d) = House!Voting(2)
    BY <1>1, <1>5 DEF ResolveAppealed, SecondDue, Agrees
  <2>2. PICK outcome \in House!Outcomes : Shows(d, House!Decision(2, "applied", outcome))
    BY <1>1, <1>5, <2>1, ResolveAppealedShows
  <2> DEFINE look == House!Decision(2, "applied", outcome)
  <2>3. Shows(d, look) /\ <<Seen(Store, d), look>> \in House!Moves
    BY <2>1, <2>2, HouseMoves
  <2>4. Marks(d, "resolved")
    BY <1>5, MarkMarks DEF ResolveAppealed
  <2>5. Agrees(look, "resolved")
    BY DEF Agrees
  <2> HIDE DEF look
  <2> QED
    BY <2>3, <2>4, <2>5, StepKeeps
<1>6. ASSUME NEW d \in Disputes, OpenAppealRound(d)
      PROVE  Goal
  <2>1. PICK outcome \in House!Outcomes : Seen(Store, d) = House!Decision(1, "decided", outcome)
    BY <1>1, <1>6 DEF OpenAppealRound, Agrees
  <2> DEFINE look == House!Voting(2)
  <2>2. Shows(d, look) /\ <<Seen(Store, d), look>> \in House!Moves
    BY <1>1, <1>6, <2>1, OpenAppealRoundShows, HouseMoves
  <2>3. Marks(d, "appealed")
    BY <1>6, MarkMarks DEF OpenAppealRound
  <2>4. Agrees(look, "appealed")
    BY DEF Agrees
  <2> HIDE DEF look
  <2> QED
    BY <2>2, <2>3, <2>4, StepKeeps
<1> QED
  BY <1>2, <1>3, <1>4, <1>5, <1>6 DEF CoreOps

LEMMA EmptyIsSequence == IsSequence(<< >>) /\ DOMAIN << >> = {} /\ Len(<< >>) = 0
<1>1. << >> \in Seq({})
  OBVIOUS
<1>2. IsSequence(<< >>)
  BY <1>1, SequenceOf
<1>3. DOMAIN << >> = {} /\ Len(<< >>) = 0
  BY EmptySeq
<1> QED
  BY <1>2, <1>3

LEMMA InitSound ==
  ASSUME Init
  PROVE  DaoInv /\ House!Init
<1> DEFINE st == Store
<1>1. /\ now = 1 /\ epoch = 1 /\ minted = << >> /\ disputes = [d \in Disputes |-> NoDispute]
      /\ members = [m \in Members |-> NoMember] /\ power = EmptyBook(Members) /\ fees = NoFees
      /\ ballots = << >> /\ proposals = << >> /\ held = NothingHeld /\ ugnot = 0 /\ pyth = Treasury
      /\ wallets = [m \in Members |-> Allotted]
  BY DEF Init, Installed, EmptyStore
<1>2. /\ DOMAIN st = StoreFields /\ st.members = [m \in Members |-> NoMember] /\ st.power = EmptyBook(Members)
      /\ st.fees = NoFees /\ st.ballots = << >> /\ st.proposals = << >> /\ st.held = NothingHeld
      /\ st.pyth = Treasury /\ st.wallets = [m \in Members |-> Allotted]
  BY <1>1 DEF Store, StoreFields
<1> HIDE DEF st
<1>3. Treasury \in Int /\ Treasury >= 0 /\ Allotted \in Int /\ Cardinality(Members) \in Int
  BY WalletsAssumption, MembersAssumption, FS_CardinalityType
<1>4. MemberOK(NoMember)
  BY DEF MemberOK, NoMember, NoPosition
<1>5. PowerOK(st.power)
  <2>1. 2 \in Nat
    OBVIOUS
  <2>2. Points(NoPoints, 2)
    BY <2>1, NoPointsIn
  <2>3. epoch + 1 = 2
    BY <1>1
  <2>4. DOMAIN st.power = {"series", "total"} /\ st.power.total = NoPoints
        /\ DOMAIN st.power.series = Members /\ \A m \in Members : st.power.series[m] = NoPoints
    BY <1>2 DEF EmptyBook
  <2> QED
    BY <2>2, <2>3, <2>4 DEF PowerOK
<1>6. /\ st.held.rewardPyth = 0 /\ st.held.stakedPyth = 0 /\ st.held.unbondingPyth = 0 /\ st.held.pendingPyth = 0
      /\ DOMAIN st.held = DOMAIN NothingHeld /\ DOMAIN st.fees = DOMAIN NoFees /\ st.fees.totalShares = 0
  BY <1>2 DEF NothingHeld, NoFees
<1>7. BallotsOK(st.ballots) /\ ProposalsOK(st.proposals)
  BY <1>2, EmptyIsSequence DEF BallotsOK, ProposalsOK
<1>8. Shaped(st)
  <2>1. DOMAIN st.members = Members /\ \A m \in Members : MemberOK(st.members[m])
    BY <1>2, <1>4
  <2>2. now \in Nat /\ epoch \in Nat \ {0}
    BY <1>1
  <2>3. st.held.rewardPyth \in Nat /\ st.pyth \in Int /\ st.wallets \in [Members -> Int]
    BY <1>2, <1>3, <1>6
  <2> QED
    BY <1>2, <1>5, <1>6, <1>7, <2>1, <2>2, <2>3 DEF Shaped
<1>9. Booked(st)
  <2>1. /\ NoMember.staked = 0 /\ NoMember.unbondAmount = 0 /\ NoMember.pendingPyth = 0
    BY DEF NoMember
  <2>2. AllOf(st.members, "staked") = 0 /\ AllOf(st.members, "unbondAmount") = 0 /\ AllOf(st.members, "pendingPyth") = 0
    <3>1. ASSUME NEW f, NoMember[f] = 0
          PROVE  AllOf(st.members, f) = 0
      <4> DEFINE g == [m \in Members |-> st.members[m][f]]
      <4>1. DOMAIN g = Members /\ \A m \in Members : g[m] = 0
        BY <1>2, <3>1
      <4>2. AllOf(st.members, f) = SumFunction(g)
        BY DEF AllOf
      <4> HIDE DEF g
      <4> QED
        BY <4>1, <4>2, MembersAssumption, SumOfNothing
    <3> QED
      BY <2>1, <3>1
  <2>3. st.power.total.cur = 0 /\ \A m \in Members : st.power.series[m].cur = 0
    BY <1>2 DEF EmptyBook, NoPoints
  <2>4. \A m \in Members : st.members[m].staked = 0
    BY <1>2, <2>1
  <2>5. TreasuryPyth(st) >= 0
    BY <1>2, <1>3, <1>6 DEF TreasuryPyth
  <2> QED
    BY <1>6, <2>2, <2>3, <2>4, <2>5 DEF Booked
<1>10. Waited(st)
  <2>1. DOMAIN st.ballots = {} /\ Len(st.ballots) = 0
    BY <1>2, EmptyIsSequence
  <2>2. \A m \in Members : st.members[m].cursor = 0 /\ st.members[m].known = FALSE
    BY <1>2 DEF NoMember
  <2>3. \A m \in Members : st.power.series[m] = NoPoints
    BY <1>2 DEF EmptyBook
  <2> QED
    BY <2>1, <2>2, <2>3 DEF Waited
<1>11. Sound(st)
  BY <1>8, <1>9, <1>10 DEF Sound
<1>12. \A d : Seen(st, d) = House!Unasked
  <2>1. \A i \in DOMAIN st.ballots : FALSE
    BY <1>2, EmptyIsSequence
  <2>2. \A d : BallotOf(st, d) = 0
    BY <1>11, <2>1, NoLatest
  <2> QED
    BY <2>2 DEF Seen
<1>13. Agreed(st, disputes)
  <2>1. InOrder(st.ballots)
    BY <1>2, EmptyIsSequence DEF InOrder
  <2>2. DOMAIN disputes = Disputes /\ \A d \in Disputes : disputes[d] = NoDispute
    BY <1>1
  <2>3. NoDispute.status = "none"
    BY DEF NoDispute
  <2> QED
    BY <1>12, <2>1, <2>2, <2>3 DEF Agreed, Agrees
<1>14. MintedOK(minted) /\ SumFunction(minted) = 0
  <2>1. DOMAIN minted = {}
    BY <1>1, EmptyIsSequence
  <2>2. IsFiniteSet({})
    BY FS_EmptySet
  <2> QED
    BY <2>1, <2>2, SumNothing DEF MintedOK
<1>15. TotalSupply(st) = Treasury + Cardinality(Members) * Allotted + SumFunction(minted)
  <2> DEFINE w == st.wallets
             n == Cardinality(Members)
  <2>1. SumFunction(w) = Allotted * n
    <3>1. DOMAIN w = Members /\ \A m \in Members : w[m] = Allotted
      BY <1>2
    <3> HIDE DEF w
    <3> QED
      BY <1>3, <3>1, MembersAssumption, SumSame
  <2>2. TotalSupply(st) = Treasury + SumFunction(w)
    BY <1>2, <1>8, SupplyIs
  <2>3. n \in Int /\ Allotted \in Int /\ Treasury \in Int
    BY <1>3
  <2> HIDE DEF w, n
  <2>4. Allotted * n = n * Allotted /\ n * Allotted \in Int
    BY <2>3
  <2>5. TotalSupply(st) = Treasury + n * Allotted + SumFunction(minted)
    <3> DEFINE a == n * Allotted
    <3>1. SumFunction(w) = a /\ a \in Int
      BY <2>1, <2>4
    <3> HIDE DEF a
    <3>2. TotalSupply(st) = Treasury + a + SumFunction(minted)
      BY <1>14, <2>2, <2>3, <3>1
    <3> QED
      BY <3>2 DEF a
  <2> QED
    BY <2>5 DEF n
<1>16. House!Init
  BY <1>12, HouseIs DEF House!Init, st
<1> QED
  BY <1>11, <1>13, <1>14, <1>15, <1>16 DEF DaoInv, SupplyOK, st

LEMMA NextKeeps ==
  ASSUME DaoInv, [Next]_vars
  PROVE  DaoInv' /\ PastKept /\ [House!Next]_HouseView
<1>1. now \in Nat /\ epoch \in Nat
  BY DEF DaoInv, Sound, Shaped
<1>2. CASE Tick
  <2>1. now' \in Nat /\ epoch' = epoch /\ UNCHANGED <<tables, disputes, minted>>
    BY <1>1, <1>2 DEF Tick
  <2> QED
    BY <2>1, ClockKeeps
<1>3. CASE NextEpoch
  <2>1. now' \in Nat /\ epoch' = epoch + 1 /\ UNCHANGED <<tables, disputes, minted>>
    BY <1>1, <1>3 DEF NextEpoch
  <2> QED
    BY <2>1, ClockKeeps
<1>4. CASE UNCHANGED vars
  <2>1. now' \in Nat /\ epoch' = epoch /\ UNCHANGED <<tables, disputes, minted>>
    BY <1>1, <1>4 DEF vars
  <2> QED
    BY <2>1, ClockKeeps
<1>5. CASE MemberOps /\ UNCHANGED <<disputes, minted>>
  BY <1>5, MemberOpsKeep
<1>6. CASE VoterOps /\ UNCHANGED minted
  BY <1>6, VoterOpsKeep
<1>7. CASE CoreOps /\ UNCHANGED minted
  BY <1>7, CoreOpsKeep
<1>8. CASE ProposalOps /\ UNCHANGED disputes
  BY <1>8, ProposalOpsKeep
<1> QED
  BY <1>2, <1>3, <1>4, <1>5, <1>6, <1>7, <1>8 DEF Next

LEMMA AlwaysSound == Spec => []DaoInv
<1>1. Init => DaoInv
  BY InitSound
<1>2. DaoInv /\ [Next]_vars => DaoInv'
  BY NextKeeps
<1> QED
  BY <1>1, <1>2, PTL DEF Spec

-----------------------------------------------------------------------------
(* What follows.                                                               *)

\* The books of stakes: what is booked as staked, as voting power, as shares of the fees, as
\* unbonding and as owed in rewards is what the members have; the PYTH of the realm covers it,
\* and only mints make any (state.gno:315-462).
THEOREM StakesAlwaysAddUp == Spec => []StakesAddUp
<1>1. DaoInv => StakesAddUp
  <2> SUFFICES ASSUME DaoInv PROVE StakesAddUp
    OBVIOUS
  <2>1. Booked(Store) /\ Shaped(Store)
    BY DEF DaoInv, Sound
  <2>2. \A amount : SumOf(amount) = AllOf(Store.members, amount)
    BY StoreIs DEF SumOf, AllOf
  <2>3. \A m \in Members : power.series[m].cur = members[m].staked /\ members[m].fee.shares = members[m].staked
    BY <2>1, StoreIs DEF Booked, Shaped, MemberOK
  <2>4. /\ held.stakedPyth = SumOf("staked") /\ power.total.cur = held.stakedPyth /\ fees.totalShares = held.stakedPyth
        /\ held.unbondingPyth = SumOf("unbondAmount") /\ held.pendingPyth = SumOf("pendingPyth")
        /\ TreasuryPyth(Store) >= 0
    BY <2>1, <2>2, StoreIs DEF Booked
  <2> QED
    BY <2>3, <2>4 DEF StakesAddUp, DaoInv, SupplyOK
<1> QED
  BY <1>1, AlwaysSound, PTL

\* No member who weighs in a ballot is settled past it before its outcome was applied
\* (impl.gno:154-227).
THEOREM CursorsAlwaysWait == Spec => []CursorWaits
<1>1. DaoInv => CursorWaits
  <2> SUFFICES ASSUME DaoInv PROVE CursorWaits
    OBVIOUS
  <2>1. Waited(Store)
    BY DEF DaoInv, Sound
  <2> QED
    BY <2>1, StoreIs DEF CursorWaits, Waited
<1> QED
  BY <1>1, AlwaysSound, PTL

\* What anybody weighed at an epoch that has begun is never rewritten (state.gno:359-371).
THEOREM SealedWeightsStay == Spec => SealedWeightFixed
<1>1. DaoInv /\ [Next]_vars => [\A m \in Members, e \in 1..epoch : ValueAt(power'.series[m], e) = PowerAt(Store, m, e)]_vars
  BY NextKeeps DEF PastKept
<1> QED
  BY <1>1, AlwaysSound, PTL DEF Spec, SealedWeightFixed

\* The realm keeps what it promises the core about the ballots of a dispute: the specification
\* of a ballot house (ballots.gno:22-203, core/hooks.gno).
THEOREM HouseIsKept == Spec => KeepsHouse
<1>1. Init => House!Init
  BY InitSound
<1>2. DaoInv /\ [Next]_vars => [House!Next]_HouseView
  BY NextKeeps
<1> QED
  BY <1>1, <1>2, AlwaysSound, PTL DEF Spec, KeepsHouse, House!Spec

=============================================================================
