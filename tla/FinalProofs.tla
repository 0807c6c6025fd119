----------------------------- MODULE FinalProofs -----------------------------
(***************************************************************************)
(* The final value of a feed: what is read stands, what is read as final   *)
(* is never taken back but as a longer dispute window allows, and the feed *)
(* implements FinalFeed, for every set of providers, every calendar and    *)
(* every value of the parameters.                                          *)
(*                                                                         *)
(* Face is what FinalFeed sees of the tables.  It is computed from the     *)
(* rounds at or past the promotion cursor, by the time and the tier of     *)
(* each alone.  Every operator of the core either leaves the face as it    *)
(* is or changes it by one step of FinalFeed, and casts no doubt on the    *)
(* final value, unless it makes the window longer.                         *)
(***************************************************************************)
EXTENDS RoundProofs

-----------------------------------------------------------------------------
(* Greatest elements. *)

LEMMA GreatestIn ==
  ASSUME NEW S \in SUBSET Nat, S # {}, NEW n \in Nat, \A y \in S : y <= n
  PROVE  Max(S) \in S /\ \A y \in S : y <= Max(S)
<1> DEFINE gaps == { n - x : x \in S }
<1>1. gaps \in SUBSET Nat /\ gaps # {}
  <2>1. \A x \in S : n - x \in Nat
    OBVIOUS
  <2>2. PICK x \in S : TRUE
    OBVIOUS
  <2>3. n - x \in gaps
    BY <2>2
  <2> QED
    BY <2>1, <2>3
<1> HIDE DEF gaps
<1>2. Min(gaps) \in gaps /\ \A y \in gaps : Min(gaps) <= y
  BY <1>1, LeastOf
<1>3. PICK x \in S : Min(gaps) = n - x
  BY <1>2 DEF gaps
<1>4. ASSUME NEW y \in S
      PROVE  x >= y
  <2>1. n - y \in gaps
    BY DEF gaps
  <2>2. n - x <= n - y
    BY <1>2, <1>3, <2>1
  <2> QED
    BY <2>2
<1>5. Max(S) \in S /\ \A y \in S : Max(S) >= y
  BY <1>4 DEF Max
<1> QED
  BY <1>5

LEMMA GreatestIs ==
  ASSUME NEW S \in SUBSET Nat, NEW m \in S, \A y \in S : y <= m
  PROVE  Max(S) = m
<1>1. Max(S) \in S /\ \A y \in S : Max(S) >= y
  <2>1. \A y \in S : m >= y
    OBVIOUS
  <2> QED
    BY <2>1 DEF Max
<1>2. Max(S) \in Nat /\ m \in Nat /\ Max(S) <= m /\ Max(S) >= m
  BY <1>1
<1> QED
  BY <1>2

-----------------------------------------------------------------------------
(* The face of the tables. *)

\* An aggregate a dispute may still change at time t.
HeldBack(rd, w, t) ==
  rd.status = "aggregated" /\ (rd.finalisedAt + w > t \/ rd.tier = "disputed")

\* The aggregates promotion has not passed, and those of them it waits for.
Listed(st) == { id \in DOMAIN st.rounds : id >= st.feed.finalCursor /\ st.rounds[id].status = "aggregated" }

Contested(st, t) == { id \in Listed(st) : HeldBack(st.rounds[id], st.feed.disputeWindow, t) }

Before(ids, held_at) == { id \in ids : \A k \in held_at : id < k }

Clear(st, t) == Before(Listed(st), Contested(st, t))

OnFile(f) ==
  IF f.haveFinal THEN [ok |-> TRUE, round |-> f.finalRound, value |-> f.finalValue]
                 ELSE [ok |-> FALSE, round |-> 0, value |-> 0]

FinalOf(st, t) ==
  IF Clear(st, t) = {} THEN OnFile(st.feed)
  ELSE [ok |-> TRUE, round |-> Max(Clear(st, t)), value |-> st.rounds[Max(Clear(st, t))].value]

PendingOf(st, t) == [id \in Listed(st) \ Clear(st, t) |-> st.rounds[id].value]

Face(st, t) == [final |-> FinalOf(st, t), pending |-> PendingOf(st, t), contested |-> Contested(st, t)]

\* The face g is f with the rounds of p published and those of c contested (Advance of FinalFeed).
Advanced(g, f, p, c) ==
  LET clear == Before(DOMAIN p, c) IN
  /\ g.final = IF clear = {} THEN f.final ELSE [ok |-> TRUE, round |-> Max(clear), value |-> p[Max(clear)]]
  /\ g.pending = [r \in DOMAIN p \ clear |-> p[r]]
  /\ g.contested = c

\* Only settled rounds are listed.
LEMMA ListedSettled ==
  ASSUME NEW st, OnRecord(st), NEW id \in Listed(st)
  PROVE  /\ id \in Nat /\ id \in DOMAIN st.rounds /\ st.rounds[id].status = "aggregated"
         /\ st.feed.haveLast /\ id <= st.feed.lastFinalized /\ id >= st.feed.finalCursor
BY DEF Listed, OnRecord, RoundsSound

LEMMA GreatestListed ==
  ASSUME NEW st, OnRecord(st), NEW S \in SUBSET Listed(st), S # {}
  PROVE  Max(S) \in S /\ \A y \in S : y <= Max(S)
<1>1. st.feed.lastFinalized \in Nat
  BY DEF OnRecord, Cursors
<1>2. S \in SUBSET Nat /\ \A y \in S : y <= st.feed.lastFinalized
  BY ListedSettled
<1> QED
  BY <1>1, <1>2, GreatestIn

LEMMA SameFace ==
  ASSUME NEW st, NEW u, NEW t, NEW s, OnRecord(st),
         Listed(u) = Listed(st), Contested(u, s) = Contested(st, t),
         Clear(st, t) = {} => OnFile(u.feed) = OnFile(st.feed),
         \A id \in Listed(st) : u.rounds[id].value = st.rounds[id].value
  PROVE  Face(u, s) = Face(st, t)
<1>1. Clear(u, s) = Clear(st, t) /\ Clear(st, t) \subseteq Listed(st)
  BY DEF Clear, Before
<1>2. PendingOf(u, s) = PendingOf(st, t)
  BY <1>1 DEF PendingOf
<1>3. FinalOf(u, s) = FinalOf(st, t)
  <2>1. CASE Clear(st, t) = {}
    BY <1>1, <2>1 DEF FinalOf
  <2>2. CASE Clear(st, t) # {}
    <3> DEFINE m == Max(Clear(st, t))
    <3>1. m \in Listed(st)
      BY <1>1, <2>2, GreatestListed
    <3> QED
      BY <1>1, <2>2, <3>1 DEF FinalOf
  <2> QED
    BY <2>1, <2>2
<1> QED
  BY <1>2, <1>3 DEF Face

-----------------------------------------------------------------------------
(* How a face moves. *)

\* What is clear is older than what is not, and nothing contested is clear.
LEMMA ClearFirst ==
  ASSUME NEW st, NEW t, OnRecord(st)
  PROVE  /\ Clear(st, t) \subseteq Listed(st) /\ Contested(st, t) \subseteq Listed(st) \ Clear(st, t)
         /\ Listed(st) \subseteq Nat
         /\ \A a \in Clear(st, t), r \in Listed(st) \ Clear(st, t) : a < r
<1>1. Listed(st) \subseteq Nat
  BY ListedSettled
<1>2. Clear(st, t) \subseteq Listed(st) /\ Contested(st, t) \subseteq Listed(st)
  BY DEF Clear, Before, Contested
<1>3. \A r \in Contested(st, t) : r \notin Clear(st, t)
  BY <1>1, <1>2 DEF Clear, Before
<1>4. ASSUME NEW a \in Clear(st, t), NEW r \in Listed(st) \ Clear(st, t)
      PROVE  a < r
  <2>1. PICK k \in Contested(st, t) : ~(r < k)
    BY DEF Clear, Before
  <2>2. a < k
    BY DEF Clear, Before
  <2>3. a \in Nat /\ r \in Nat /\ k \in Nat
    BY <1>1, <1>2
  <2> QED
    BY <2>1, <2>2, <2>3
<1> QED
  BY <1>1, <1>2, <1>3, <1>4

LEMMA FaceAdvances ==
  ASSUME NEW st, NEW u, NEW t, NEW s, NEW p, NEW c, OnRecord(st), OnRecord(u),
         Listed(u) = Clear(st, t) \cup DOMAIN p,
         \A a \in Clear(st, t), r \in DOMAIN p : a < r,
         \A r \in Clear(st, t) : u.rounds[r].value = st.rounds[r].value,
         \A r \in DOMAIN p : u.rounds[r].value = p[r],
         Contested(u, s) = c, c \subseteq DOMAIN p,
         OnFile(u.feed) = OnFile(st.feed)
  PROVE  Advanced(Face(u, s), Face(st, t), p, c)
<1> DEFINE clear == Before(DOMAIN p, c)
<1>1. clear \subseteq DOMAIN p /\ Listed(u) \subseteq Nat
  BY ListedSettled DEF Before
<1>2. Clear(u, s) = Clear(st, t) \cup clear
  BY DEF Clear, Before
<1>3. Listed(u) \ Clear(u, s) = DOMAIN p \ clear
  <2>1. \A r \in DOMAIN p : r \notin Clear(st, t)
    BY <1>1
  <2> QED
    BY <1>1, <1>2, <2>1
<1>4. PendingOf(u, s) = [r \in DOMAIN p \ clear |-> p[r]]
  BY <1>3 DEF PendingOf
<1> HIDE DEF clear
<1>5. FinalOf(u, s) = IF clear = {} THEN FinalOf(st, t)
                      ELSE [ok |-> TRUE, round |-> Max(clear), value |-> p[Max(clear)]]
  <2>1. CASE clear = {}
    <3>1. Clear(u, s) = Clear(st, t)
      BY <1>2, <2>1
    <3>2. CASE Clear(st, t) = {}
      BY <2>1, <3>1, <3>2 DEF FinalOf
    <3>3. CASE Clear(st, t) # {}
      <4>1. Max(Clear(st, t)) \in Clear(st, t)
        BY <3>3, GreatestListed, ClearFirst
      <4> QED
        BY <2>1, <3>1, <3>3, <4>1 DEF FinalOf
    <3> QED
      BY <3>2, <3>3
  <2>2. CASE clear # {}
    <3>1. clear \in SUBSET Listed(u)
      BY <1>1
    <3>2. Max(clear) \in clear /\ \A y \in clear : y <= Max(clear)
      BY <2>2, <3>1, GreatestListed
    <3>3. \A y \in Clear(u, s) : y <= Max(clear)
      <4>1. \A y \in Clear(st, t) : y < Max(clear) /\ y \in Nat
        BY <1>1, <3>2
      <4>2. Max(clear) \in Nat
        BY <1>1, <3>1, <3>2
      <4> QED
        BY <1>2, <3>2, <4>1, <4>2
    <3>4. Clear(u, s) \in SUBSET Nat /\ Max(clear) \in Clear(u, s)
      BY <1>1, <1>2, <3>2
    <3>5. Max(Clear(u, s)) = Max(clear)
      BY <3>3, <3>4, GreatestIs
    <3>6. u.rounds[Max(clear)].value = p[Max(clear)]
      BY <1>1, <3>2
    <3> QED
      BY <2>2, <3>4, <3>5, <3>6 DEF FinalOf
  <2> QED
    BY <2>1, <2>2
<1> QED
  BY <1>4, <1>5 DEF Advanced, Face, clear

\* The moves of FinalFeed, the values being those of the rounds rs.
Publishes(g, f, rs) ==
  \E id \in DOMAIN rs :
    /\ rs[id].status = "aggregated" /\ \A r \in DOMAIN f.pending : r < id
    /\ f.final.ok => f.final.round < id
    /\ Advanced(g, f, [r \in DOMAIN f.pending \cup {id} |-> IF r = id THEN rs[id].value ELSE f.pending[r]],
                f.contested \cup {id})

Revises(g, f, rs) ==
  \E id \in f.contested \cap DOMAIN rs : \E c \in {f.contested, f.contested \ {id}} :
    rs[id].status = "aggregated" /\ Advanced(g, f, [f.pending EXCEPT ![id] = rs[id].value], c)

Withdraws(g, f) ==
  \E id \in f.contested :
    Advanced(g, f, [r \in DOMAIN f.pending \ {id} |-> f.pending[r]], f.contested \ {id})

Settles(g, f) == \E done \in SUBSET f.contested : Advanced(g, f, f.pending, f.contested \ done)

Moves(g, f, rs) == g = f \/ Publishes(g, f, rs) \/ Revises(g, f, rs) \/ Withdraws(g, f) \/ Settles(g, f)

\* The final value is rewritten.
Overrules(g, f, rs) ==
  /\ f.final.ok /\ f.final.round \in DOMAIN rs /\ rs[f.final.round].status = "aggregated"
  /\ g.final = [ok |-> TRUE, round |-> f.final.round, value |-> rs[f.final.round].value]
  /\ g.pending = f.pending /\ g.contested = f.contested

\* From some round on, what was final is pending again.
Widens(g, f) ==
  /\ DOMAIN f.pending \subseteq DOMAIN g.pending /\ \A r \in DOMAIN f.pending : g.pending[r] = f.pending[r]
  /\ f.contested \subseteq g.contested
  /\ \A r \in DOMAIN g.pending \ DOMAIN f.pending :
       f.final.ok /\ r <= f.final.round /\ (g.final.ok => g.final.round < r)
  /\ \/ g.final = f.final
     \/ f.final.round \in DOMAIN g.pending \ DOMAIN f.pending /\ g.pending[f.final.round] = f.final.value

LEMMA FaceFields ==
  ASSUME NEW st, NEW t
  PROVE  /\ Face(st, t).final = FinalOf(st, t) /\ Face(st, t).contested = Contested(st, t)
         /\ DOMAIN Face(st, t).pending = Listed(st) \ Clear(st, t)
         /\ \A r \in Listed(st) \ Clear(st, t) : Face(st, t).pending[r] = st.rounds[r].value
         /\ Face(st, t).pending = [r \in Listed(st) \ Clear(st, t) |-> st.rounds[r].value]
BY DEF Face, PendingOf

\* A final round is older than the pending ones.
LEMMA FinalFirst ==
  ASSUME NEW st, NEW t, OnRecord(st),
         st.feed.haveFinal => st.feed.finalRound \in Nat /\ st.feed.finalRound < st.feed.finalCursor,
         FinalOf(st, t).ok, NEW r \in Listed(st) \ Clear(st, t)
  PROVE  FinalOf(st, t).round < r
<1>1. CASE Clear(st, t) = {}
  <2>1. st.feed.haveFinal /\ FinalOf(st, t).round = st.feed.finalRound
    BY <1>1 DEF FinalOf, OnFile
  <2>2. r \in Nat /\ r >= st.feed.finalCursor /\ st.feed.finalCursor \in Nat
    BY ListedSettled DEF OnRecord, Cursors
  <2> QED
    BY <2>1, <2>2
<1>2. CASE Clear(st, t) # {}
  <2>1. Max(Clear(st, t)) \in Clear(st, t)
    BY <1>2, GreatestListed, ClearFirst
  <2>2. Max(Clear(st, t)) < r
    BY <2>1, ClearFirst
  <2> QED
    BY <1>2, <2>2 DEF FinalOf
<1> QED
  BY <1>1, <1>2

LEMMA FacePublishes ==
  ASSUME NEW st, NEW u, NEW t, NEW s, NEW id \in DOMAIN u.rounds, OnRecord(st), OnRecord(u),
         u.rounds[id].status = "aggregated", \A r \in Listed(st) : r < id,
         Listed(u) = Listed(st) \cup {id}, Contested(u, s) = Contested(st, t) \cup {id},
         \A r \in Listed(st) : u.rounds[r].value = st.rounds[r].value,
         OnFile(u.feed) = OnFile(st.feed),
         FinalOf(st, t).ok => FinalOf(st, t).round < id
  PROVE  Publishes(Face(u, s), Face(st, t), u.rounds)
<1> DEFINE f == Face(st, t)
           v == u.rounds[id].value
           p == [r \in DOMAIN f.pending \cup {id} |-> IF r = id THEN v ELSE f.pending[r]]
           c == f.contested \cup {id}
<1>1. /\ f.final = FinalOf(st, t) /\ f.contested = Contested(st, t)
      /\ DOMAIN f.pending = Listed(st) \ Clear(st, t)
      /\ \A r \in Listed(st) \ Clear(st, t) : f.pending[r] = st.rounds[r].value
  BY FaceFields
<1>2. /\ Clear(st, t) \subseteq Listed(st) /\ Contested(st, t) \subseteq Listed(st) \ Clear(st, t)
      /\ \A a \in Clear(st, t), r \in Listed(st) \ Clear(st, t) : a < r
      /\ Listed(st) \subseteq Nat
  BY ClearFirst
<1> HIDE DEF f
<1>3. DOMAIN p = (Listed(st) \ Clear(st, t)) \cup {id} /\ \A r \in DOMAIN p : p[r] = u.rounds[r].value
  <2>1. DOMAIN p = (Listed(st) \ Clear(st, t)) \cup {id}
    BY <1>1
  <2>2. \A r \in DOMAIN p : p[r] = IF r = id THEN v ELSE f.pending[r]
    OBVIOUS
  <2> HIDE DEF p
  <2> QED
    BY <1>1, <2>1, <2>2
<1> HIDE DEF p
<1>4. Advanced(Face(u, s), Face(st, t), p, c)
  <2>1. Listed(u) = Clear(st, t) \cup DOMAIN p
    BY <1>2, <1>3
  <2>2. \A a \in Clear(st, t), r \in DOMAIN p : a < r
    BY <1>2, <1>3
  <2>3. Contested(u, s) = c /\ c \subseteq DOMAIN p
    BY <1>1, <1>2, <1>3
  <2>4. \A r \in Clear(st, t) : u.rounds[r].value = st.rounds[r].value
    BY <1>2
  <2> QED
    BY <1>3, <2>1, <2>2, <2>3, <2>4, FaceAdvances
<1>5. Advanced(Face(u, s), f, [r \in DOMAIN f.pending \cup {id} |-> IF r = id THEN u.rounds[id].value ELSE f.pending[r]],
               f.contested \cup {id})
  BY <1>4 DEF f, p
<1>6. (\A r \in DOMAIN f.pending : r < id) /\ (f.final.ok => f.final.round < id)
  BY <1>1
<1>7. Publishes(Face(u, s), f, u.rounds)
  BY <1>5, <1>6 DEF Publishes
<1> QED
  BY <1>7 DEF f

\* A contested round gets another value or none, or its contest ends.
LEMMA FaceRevises ==
  ASSUME NEW st, NEW u, NEW t, NEW s, NEW id \in Contested(st, t), OnRecord(st), OnRecord(u),
         u.rounds[id].status = "aggregated", Listed(u) = Listed(st),
         Contested(u, s) \in {Contested(st, t), Contested(st, t) \ {id}},
         \A r \in Listed(st) \ {id} : u.rounds[r].value = st.rounds[r].value,
         OnFile(u.feed) = OnFile(st.feed)
  PROVE  Revises(Face(u, s), Face(st, t), u.rounds)
<1> DEFINE f == Face(st, t)
           v == u.rounds[id].value
           p == [f.pending EXCEPT ![id] = v]
           c == Contested(u, s)
<1>1. /\ f.contested = Contested(st, t)
      /\ DOMAIN f.pending = Listed(st) \ Clear(st, t)
      /\ \A r \in Listed(st) \ Clear(st, t) : f.pending[r] = st.rounds[r].value
  BY FaceFields
<1>2. /\ Clear(st, t) \subseteq Listed(st) /\ Contested(st, t) \subseteq Listed(st) \ Clear(st, t)
      /\ \A a \in Clear(st, t), r \in Listed(st) \ Clear(st, t) : a < r
      /\ Listed(st) \subseteq Nat
  BY ClearFirst
<1> HIDE DEF f
<1>3. DOMAIN p = Listed(st) \ Clear(st, t) /\ \A r \in DOMAIN p : p[r] = u.rounds[r].value
  <2>1. DOMAIN p = Listed(st) \ Clear(st, t)
    BY <1>1
  <2>2. \A r \in DOMAIN p : p[r] = IF r = id THEN v ELSE f.pending[r]
    OBVIOUS
  <2> HIDE DEF p
  <2> QED
    BY <1>1, <2>1, <2>2
<1> HIDE DEF p
<1>4. Advanced(Face(u, s), Face(st, t), p, c)
  <2>1. Listed(u) = Clear(st, t) \cup DOMAIN p
    BY <1>2, <1>3
  <2>2. \A a \in Clear(st, t), r \in DOMAIN p : a < r
    BY <1>2, <1>3
  <2>3. c \subseteq DOMAIN p
    BY <1>1, <1>2, <1>3
  <2>4. \A r \in Clear(st, t) : u.rounds[r].value = st.rounds[r].value
    BY <1>2
  <2> HIDE DEF c
  <2> QED
    BY <1>3, <2>1, <2>2, <2>3, <2>4, FaceAdvances DEF c
<1>5. Advanced(Face(u, s), f, [f.pending EXCEPT ![id] = u.rounds[id].value], c)
  BY <1>4 DEF f, p
<1>6. id \in f.contested \cap DOMAIN u.rounds /\ c \in {f.contested, f.contested \ {id}}
  BY <1>1, <1>2 DEF Listed
<1>7. Revises(Face(u, s), f, u.rounds)
  BY <1>5, <1>6 DEF Revises
<1> QED
  BY <1>7 DEF f

LEMMA FaceWithdraws ==
  ASSUME NEW st, NEW u, NEW t, NEW s, NEW id \in Contested(st, t), OnRecord(st), OnRecord(u),
         Listed(u) = Listed(st) \ {id}, Contested(u, s) = Contested(st, t) \ {id},
         \A r \in Listed(st) \ {id} : u.rounds[r].value = st.rounds[r].value,
         OnFile(u.feed) = OnFile(st.feed)
  PROVE  Withdraws(Face(u, s), Face(st, t))
<1> DEFINE f == Face(st, t)
           p == [r \in DOMAIN f.pending \ {id} |-> f.pending[r]]
           c == f.contested \ {id}
<1>1. /\ f.contested = Contested(st, t)
      /\ DOMAIN f.pending = Listed(st) \ Clear(st, t)
      /\ \A r \in Listed(st) \ Clear(st, t) : f.pending[r] = st.rounds[r].value
  BY FaceFields
<1>2. /\ Clear(st, t) \subseteq Listed(st) /\ Contested(st, t) \subseteq Listed(st) \ Clear(st, t)
      /\ \A a \in Clear(st, t), r \in Listed(st) \ Clear(st, t) : a < r
      /\ Listed(st) \subseteq Nat
  BY ClearFirst
<1> HIDE DEF f
<1>3. DOMAIN p = (Listed(st) \ Clear(st, t)) \ {id} /\ \A r \in DOMAIN p : p[r] = u.rounds[r].value
  <2>1. DOMAIN p = (Listed(st) \ Clear(st, t)) \ {id}
    BY <1>1
  <2>2. \A r \in DOMAIN p : p[r] = f.pending[r]
    OBVIOUS
  <2> HIDE DEF p
  <2> QED
    BY <1>1, <2>1, <2>2
<1> HIDE DEF p
<1>4. Advanced(Face(u, s), Face(st, t), p, c)
  <2>1. Listed(u) = Clear(st, t) \cup DOMAIN p
    BY <1>2, <1>3
  <2>2. \A a \in Clear(st, t), r \in DOMAIN p : a < r
    BY <1>2, <1>3
  <2>3. Contested(u, s) = c /\ c \subseteq DOMAIN p
    BY <1>1, <1>2, <1>3
  <2>4. \A r \in Clear(st, t) : u.rounds[r].value = st.rounds[r].value
    BY <1>2
  <2> QED
    BY <1>3, <2>1, <2>2, <2>3, <2>4, FaceAdvances
<1>5. Advanced(Face(u, s), f, [r \in DOMAIN f.pending \ {id} |-> f.pending[r]], f.contested \ {id})
  BY <1>4 DEF f, p
<1>6. id \in f.contested
  BY <1>1
<1>7. Withdraws(Face(u, s), f)
  BY <1>5, <1>6 DEF Withdraws
<1> QED
  BY <1>7 DEF f

LEMMA FaceSettles ==
  ASSUME NEW st, NEW u, NEW t, NEW s, OnRecord(st), OnRecord(u),
         Listed(u) = Listed(st), Contested(u, s) \subseteq Contested(st, t),
         \A r \in Listed(st) : u.rounds[r].value = st.rounds[r].value,
         OnFile(u.feed) = OnFile(st.feed)
  PROVE  Settles(Face(u, s), Face(st, t))
<1> DEFINE f == Face(st, t)
           c == Contested(u, s)
<1>1. /\ f.contested = Contested(st, t)
      /\ DOMAIN f.pending = Listed(st) \ Clear(st, t)
      /\ \A r \in Listed(st) \ Clear(st, t) : f.pending[r] = st.rounds[r].value
  BY FaceFields
<1>2. /\ Clear(st, t) \subseteq Listed(st) /\ Contested(st, t) \subseteq Listed(st) \ Clear(st, t)
      /\ \A a \in Clear(st, t), r \in Listed(st) \ Clear(st, t) : a < r
  BY ClearFirst
<1> HIDE DEF f, c
<1>3. \A r \in DOMAIN f.pending : u.rounds[r].value = f.pending[r]
  BY <1>1
<1>4. Advanced(Face(u, s), Face(st, t), f.pending, c)
  <2>1. Listed(u) = Clear(st, t) \cup DOMAIN f.pending
    BY <1>1, <1>2
  <2>2. \A a \in Clear(st, t), r \in DOMAIN f.pending : a < r
    BY <1>1, <1>2
  <2>3. Contested(u, s) = c /\ c \subseteq DOMAIN f.pending
    BY <1>1, <1>2 DEF c
  <2>4. \A r \in Clear(st, t) : u.rounds[r].value = st.rounds[r].value
    BY <1>2
  <2> QED
    BY <1>3, <2>1, <2>2, <2>3, <2>4, FaceAdvances
<1>5. Advanced(Face(u, s), f, f.pending, f.contested \ (f.contested \ c))
  <2>1. f.contested \ (f.contested \ c) = c
    BY <1>1 DEF c
  <2> QED
    BY <1>4, <2>1 DEF f
<1>6. Settles(Face(u, s), f)
  BY <1>5 DEF Settles
<1> QED
  BY <1>6 DEF f

LEMMA FaceOverrules ==
  ASSUME NEW st, NEW u, NEW t, NEW id \in DOMAIN u.rounds, OnRecord(st),
         Clear(st, t) = {}, Listed(u) = Listed(st), Contested(u, t) = Contested(st, t),
         \A r \in Listed(st) : u.rounds[r].value = st.rounds[r].value,
         st.feed.haveFinal, st.feed.finalRound = id, u.feed.haveFinal = st.feed.haveFinal,
         u.feed.finalRound = st.feed.finalRound,
         u.rounds[id].status = "aggregated", u.feed.finalValue = u.rounds[id].value
  PROVE  Overrules(Face(u, t), Face(st, t), u.rounds)
<1>1. Clear(u, t) = {}
  BY DEF Clear, Before
<1>2. /\ Face(st, t).final = [ok |-> TRUE, round |-> id, value |-> st.feed.finalValue]
      /\ Face(u, t).final = [ok |-> TRUE, round |-> id, value |-> u.feed.finalValue]
  BY <1>1 DEF Face, FinalOf, OnFile
<1>3. Face(u, t).pending = Face(st, t).pending /\ Face(u, t).contested = Face(st, t).contested
  BY <1>1 DEF Face, PendingOf
<1>4. Face(u, t).final = [ok |-> TRUE, round |-> Face(st, t).final.round, value |-> u.rounds[id].value]
  BY <1>2
<1>5. Face(st, t).final.ok /\ Face(st, t).final.round = id
  BY <1>2
<1> QED
  BY <1>3, <1>4, <1>5 DEF Overrules

\* A longer window at the same time.
LEMMA FaceWidens ==
  ASSUME NEW st, NEW u, NEW t, OnRecord(st), OnRecord(u),
         Listed(u) = Listed(st), Contested(st, t) \subseteq Contested(u, t),
         \A r \in Listed(st) : u.rounds[r].value = st.rounds[r].value,
         OnFile(u.feed) = OnFile(st.feed),
         st.feed.haveFinal => st.feed.finalRound \in Nat /\ st.feed.finalRound < st.feed.finalCursor
  PROVE  Widens(Face(u, t), Face(st, t))
<1> DEFINE f == Face(st, t)
           g == Face(u, t)
<1>1. /\ f.final = FinalOf(st, t) /\ f.contested = Contested(st, t)
      /\ DOMAIN f.pending = Listed(st) \ Clear(st, t)
      /\ \A r \in Listed(st) \ Clear(st, t) : f.pending[r] = st.rounds[r].value
  BY FaceFields
<1>2. /\ g.final = FinalOf(u, t) /\ g.contested = Contested(u, t)
      /\ DOMAIN g.pending = Listed(u) \ Clear(u, t)
      /\ \A r \in Listed(u) \ Clear(u, t) : g.pending[r] = u.rounds[r].value
  BY FaceFields
<1> HIDE DEF f, g
<1>3. Clear(u, t) \subseteq Clear(st, t) /\ Clear(st, t) \subseteq Listed(st) /\ Listed(st) \subseteq Nat
  <2>1. Clear(u, t) \subseteq Clear(st, t)
    BY DEF Clear, Before
  <2> QED
    BY <2>1, ClearFirst
<1>4. /\ DOMAIN g.pending \ DOMAIN f.pending = Clear(st, t) \ Clear(u, t)
      /\ DOMAIN f.pending \subseteq DOMAIN g.pending
      /\ \A r \in DOMAIN f.pending : g.pending[r] = f.pending[r]
  BY <1>1, <1>2, <1>3
<1>5. Clear(st, t) # {} =>
        /\ Max(Clear(st, t)) \in Clear(st, t) /\ \A y \in Clear(st, t) : y <= Max(Clear(st, t))
        /\ f.final = [ok |-> TRUE, round |-> Max(Clear(st, t)), value |-> st.rounds[Max(Clear(st, t))].value]
  <2>1. Clear(st, t) # {} => Max(Clear(st, t)) \in Clear(st, t) /\ \A y \in Clear(st, t) : y <= Max(Clear(st, t))
    BY <1>3, GreatestListed
  <2> QED
    BY <1>1, <2>1 DEF FinalOf
<1>6. ASSUME NEW r \in Clear(st, t) \ Clear(u, t)
      PROVE  f.final.ok /\ r <= f.final.round /\ (g.final.ok => g.final.round < r)
  <2>1. f.final.ok /\ r <= f.final.round
    BY <1>5
  <2>2. r \in Listed(u) \ Clear(u, t)
    BY <1>3
  <2>3. u.feed.haveFinal => u.feed.finalRound = st.feed.finalRound /\ st.feed.haveFinal
    BY DEF OnFile
  <2>4. FinalOf(u, t).ok => FinalOf(u, t).round < r
    <3>1. CASE Clear(u, t) = {}
      <4>1. FinalOf(u, t) = OnFile(st.feed)
        BY <3>1 DEF FinalOf
      <4>2. r \in Nat /\ r >= st.feed.finalCursor /\ st.feed.finalCursor \in Nat
        BY <1>3, ListedSettled DEF OnRecord, Cursors
      <4> QED
        BY <4>1, <4>2 DEF OnFile
    <3>2. CASE Clear(u, t) # {}
      <4>1. Max(Clear(u, t)) \in Clear(u, t)
        BY <1>3, <3>2, GreatestListed
      <4>2. Max(Clear(u, t)) < r
        BY <2>2, <4>1, ClearFirst
      <4> QED
        BY <3>2, <4>2 DEF FinalOf
    <3> QED
      BY <3>1, <3>2
  <2> QED
    BY <1>2, <2>1, <2>4
<1>7. \/ g.final = f.final
      \/ /\ f.final.round \in Clear(st, t) \ Clear(u, t)
         /\ g.pending[f.final.round] = f.final.value
  <2>1. CASE Clear(st, t) = {}
    <3>1. Clear(u, t) = {}
      BY <1>3, <2>1
    <3> QED
      BY <1>1, <1>2, <2>1, <3>1 DEF FinalOf
  <2> DEFINE m == Max(Clear(st, t))
  <2>2. CASE Clear(st, t) # {} /\ m \in Clear(u, t)
    <3>1. Clear(u, t) \in SUBSET Nat /\ \A y \in Clear(u, t) : y <= m
      BY <1>3, <1>5, <2>2
    <3> HIDE DEF m
    <3>2. Max(Clear(u, t)) = m
      BY <2>2, <3>1, GreatestIs
    <3>3. g.final = [ok |-> TRUE, round |-> m, value |-> u.rounds[m].value]
      BY <1>2, <2>2, <3>2 DEF FinalOf
    <3>4. u.rounds[m].value = st.rounds[m].value
      BY <1>3, <2>2
    <3> QED
      BY <1>5, <2>2, <3>3, <3>4 DEF m
  <2>3. CASE Clear(st, t) # {} /\ m \notin Clear(u, t)
    <3>1. m \in Clear(st, t) \ Clear(u, t) /\ m \in Listed(u) \ Clear(u, t) /\ m \in Listed(st)
      BY <1>3, <1>5, <2>3
    <3>2. f.final.round = m /\ f.final.value = st.rounds[m].value
      BY <1>5, <2>3
    <3>3. g.pending[m] = st.rounds[m].value
      BY <1>2, <3>1
    <3> QED
      BY <3>1, <3>2, <3>3
  <2> QED
    BY <2>1, <2>2, <2>3
<1>8. Widens(g, f)
  BY <1>1, <1>2, <1>4, <1>6, <1>7 DEF Widens
<1> QED
  BY <1>8 DEF f, g

-----------------------------------------------------------------------------
(* The walk of promotion. *)

\* Dispute windows are open for some time, rounds are settled at some time, and a round and the
\* dispute that runs over it point at each other.
Dated(st) ==
  /\ st.feed.disputeWindow \in Nat \ {0}
  /\ \A id \in DOMAIN st.rounds :
       /\ st.rounds[id].finalisedAt \in Nat
       /\ st.rounds[id].disputeID \in 0 .. Len(st.disputes)
       /\ st.rounds[id].disputeID \in Running(st) => st.disputes[st.rounds[id].disputeID].round = id

\* A one-off feed that is reopened, or may be: promotion may have passed its only round for good.
Neglected(st) == ~Recurs /\ (st.feed.haveFinal => st.feed.reopened)

\* The final value on file is that of its round, until the feed is reopened.
FileSound(st) ==
  st.feed.haveFinal =>
    /\ st.feed.finalRound \in Nat /\ st.feed.finalRound < st.feed.finalCursor
    /\ ~st.feed.reopened =>
         /\ st.feed.haveLast
         /\ st.feed.finalRound \in DOMAIN st.rounds =>
              /\ st.rounds[st.feed.finalRound].status \in {"aggregated", "void"}
              /\ st.rounds[st.feed.finalRound].value = st.feed.finalValue

\* Promotion passes settled rounds only, and the last aggregate it passed is on file.  What is
\* served is the value and the tier of the round it names.
FinalSound(st) ==
  /\ st.feed.finalCursor <= NextRound(st.feed.haveLast, st.feed.lastFinalized) \/ Neglected(st)
  /\ \A id \in DOMAIN st.rounds :
       (st.rounds[id].status = "aggregated" /\ id < st.feed.finalCursor) =>
         (st.feed.haveFinal /\ id <= st.feed.finalRound) \/ Neglected(st)
  /\ FileSound(st)
  /\ st.feed.haveValue =>
       /\ st.feed.haveLast
       /\ st.feed.lastRound \in Nat /\ st.feed.lastRound <= st.feed.lastFinalized
       /\ st.feed.lastRound \in DOMAIN st.rounds =>
            /\ st.rounds[st.feed.lastRound].status = "aggregated" \/ st.rounds[st.feed.lastRound].tier = "void"
            /\ st.rounds[st.feed.lastRound].tier = st.feed.lastTier
            /\ st.rounds[st.feed.lastRound].value = st.feed.lastValue

Finals(st, t) == OnRecord(st) /\ Dated(st) /\ FinalSound(st) /\ t \in Nat

\* The final value on file is in doubt, and it is what the face shows.
Uncertain(st, t) ==
  LET r == st.feed.finalRound IN
  /\ st.feed.haveFinal
  /\ \/ ~st.feed.haveLast
     \/ /\ r \in DOMAIN st.rounds
        /\ \/ st.rounds[r].status # "aggregated" \/ HeldBack(st.rounds[r], st.feed.disputeWindow, t)
           \/ st.feed.reopened /\ st.rounds[r].value # st.feed.finalValue

Wavers(st, t) == Clear(st, t) = {} /\ Uncertain(st, t)

LEMMA DoubtKept ==
  ASSUME NEW st, NEW u, NEW t, NEW s, Clear(u, s) = {} => Clear(st, t) = {},
         u.feed.haveFinal = st.feed.haveFinal, u.feed.finalRound = st.feed.finalRound,
         u.feed.finalValue = st.feed.finalValue, u.feed.reopened = st.feed.reopened,
         st.feed.haveLast => u.feed.haveLast,
         (st.feed.haveFinal /\ st.feed.haveLast /\ st.feed.finalRound \in DOMAIN u.rounds) =>
           /\ st.feed.finalRound \in DOMAIN st.rounds
           /\ u.rounds[st.feed.finalRound].status = st.rounds[st.feed.finalRound].status
           /\ u.rounds[st.feed.finalRound].value = st.rounds[st.feed.finalRound].value
           /\ HeldBack(u.rounds[st.feed.finalRound], u.feed.disputeWindow, s) =>
                HeldBack(st.rounds[st.feed.finalRound], st.feed.disputeWindow, t)
  PROVE  Wavers(u, s) => Wavers(st, t)
BY DEF Wavers, Uncertain

\* A clear round is in no doubt.
LEMMA ClearIsSure ==
  ASSUME NEW st, NEW t, OnRecord(st), NEW r \in Clear(st, t)
  PROVE  /\ st.feed.haveLast /\ r \in DOMAIN st.rounds /\ st.rounds[r].status = "aggregated"
         /\ ~HeldBack(st.rounds[r], st.feed.disputeWindow, t)
<1>1. r \in Listed(st) /\ r \notin Contested(st, t)
  BY ClearFirst
<1> QED
  BY <1>1, ListedSettled DEF Contested

\* The aggregates that hold promotion are those held back.
LEMMA HoldingIsHeldBack ==
  ASSUME NEW st, NEW t, OnRecord(st), Dated(st), NEW id \in DOMAIN st.rounds
  PROVE  HoldsPromotion(st, id, t) <=> (st.rounds[id].status = "open" \/ HeldBack(st.rounds[id], st.feed.disputeWindow, t))
<1>1. ASSUME st.rounds[id].status = "aggregated", Unresolved(st, st.rounds[id].disputeID)
      PROVE  st.rounds[id].tier = "disputed"
  <2>1. st.rounds[id].disputeID \in Running(st)
    BY <1>1 DEF Unresolved, Running
  <2>2. st.disputes[st.rounds[id].disputeID].round = id
    BY <2>1 DEF Dated
  <2> QED
    BY <2>1, <2>2 DEF OnRecord, DisputesSound
<1>2. ASSUME st.rounds[id].tier = "disputed"
      PROVE  Unresolved(st, st.rounds[id].disputeID)
  BY <1>2 DEF OnRecord, RoundsSound, Unresolved, Running
<1> QED
  BY <1>1, <1>2 DEF HoldsPromotion, HeldBack

\* The walk ends at the oldest contested round, if any: it passes the clear ones.
LEMMA WalkPassesClear ==
  ASSUME NEW st, NEW t, OnRecord(st), Dated(st)
  PROVE  Passed(st, WalkEnd(st, t)) = Clear(st, t)
<1> DEFINE f == st.feed
           held_at == { id \in f.finalCursor .. f.lastFinalized : HoldsPromotion(st, id, t) }
           end == WalkEnd(st, t)
<1>1. f.finalCursor \in Nat /\ f.lastFinalized \in Nat /\ DOMAIN st.rounds \subseteq Nat
  BY DEF OnRecord, Cursors, RoundsSound
<1>2. \A id \in Listed(st) : id \in Nat /\ id \in f.finalCursor .. f.lastFinalized /\ f.haveLast
  BY <1>1, ListedSettled
<1>3. CASE ~f.haveLast \/ f.finalCursor > f.lastFinalized
  <2>1. end = f.finalCursor
    BY <1>3 DEF WalkEnd
  <2>2. Listed(st) = {}
    BY <1>1, <1>2, <1>3
  <2>3. Passed(st, end) = {}
    <3> HIDE DEF end
    <3> QED
      BY <1>1, <2>1 DEF Passed
  <2> QED
    BY <2>2, <2>3 DEF Clear, Before
<1>4. CASE f.haveLast /\ f.finalCursor <= f.lastFinalized
  <2>1. end = IF held_at = {} THEN f.lastFinalized + 1 ELSE Min(held_at)
    BY <1>1, <1>4 DEF WalkEnd
  <2>2. held_at = Contested(st, t)
    <3>1. \A id \in DOMAIN st.rounds : st.rounds[id].status = "open" => ~(id \in f.finalCursor .. f.lastFinalized)
      BY <1>1, <1>4 DEF OnRecord, RoundsSound
    <3>2. \A id \in held_at : id \in DOMAIN st.rounds
      BY DEF HoldsPromotion
    <3>3. ASSUME NEW id \in held_at
          PROVE  id \in Contested(st, t)
      <4>1. HeldBack(st.rounds[id], f.disputeWindow, t)
        BY <3>1, <3>2, HoldingIsHeldBack
      <4> QED
        BY <1>1, <3>2, <4>1 DEF Contested, Listed, HeldBack
    <3>4. ASSUME NEW id \in Contested(st, t)
          PROVE  id \in held_at
      <4>1. id \in Listed(st) /\ HeldBack(st.rounds[id], f.disputeWindow, t)
        BY DEF Contested
      <4> QED
        BY <1>2, <4>1, HoldingIsHeldBack DEF Listed
    <3> QED
      BY <3>3, <3>4
  <2> HIDE DEF end, held_at
  <2>3. \A id \in Listed(st) : id < end <=> \A k \in Contested(st, t) : id < k
    <3>1. CASE held_at = {}
      BY <1>1, <1>2, <2>1, <2>2, <3>1
    <3>2. CASE held_at # {}
      <4>1. held_at \in SUBSET Nat
        BY <1>2, <2>2 DEF Contested
      <4>2. Min(held_at) \in held_at /\ \A y \in held_at : Min(held_at) <= y
        BY <3>2, <4>1, LeastOf
      <4> QED
        BY <1>2, <2>1, <2>2, <3>2, <4>1, <4>2
    <3> QED
      BY <3>1, <3>2
  <2>4. end \in Nat
    <3>1. CASE held_at = {}
      BY <1>1, <2>1, <3>1
    <3>2. CASE held_at # {}
      <4>1. held_at \in SUBSET Nat
        BY <1>2, <2>2 DEF Contested
      <4> QED
        BY <2>1, <3>2, <4>1, LeastOf
    <3> QED
      BY <3>1, <3>2
  <2>5. Passed(st, end) = { id \in Listed(st) : id < end }
    BY <1>1, <2>4 DEF Passed, Listed
  <2> QED
    BY <2>3, <2>5 DEF Clear, Before, end
<1> QED
  BY <1>1, <1>3, <1>4

-----------------------------------------------------------------------------
(* Operators that leave the face as it is. *)

\* u is sound, has the face and the window of st, and the final value is in no more doubt.
Unmoved(u, st, t) ==
  /\ Finals(u, t) /\ Face(u, t) = Face(st, t) /\ u.feed.disputeWindow = st.feed.disputeWindow
  /\ Wavers(u, t) => Wavers(st, t)

LEMMA UnmovedChained ==
  ASSUME NEW st, NEW u, NEW x, NEW t, Unmoved(u, st, t), Unmoved(x, u, t)
  PROVE  Unmoved(x, st, t)
BY DEF Unmoved

LEMMA SameUnmoved ==
  ASSUME NEW st, NEW u, NEW t, Finals(st, t), SameRecord(u, st)
  PROVE  Unmoved(u, st, t)
<1>1. /\ u.rounds = st.rounds /\ u.disputes = st.disputes /\ SameServed(u.feed, st.feed)
      /\ u.feed.haveLast = st.feed.haveLast /\ u.feed.lastFinalized = st.feed.lastFinalized
  BY DEF SameRecord, SameRounds
<1>2. OnRecord(u)
  BY RecordKept DEF Finals
<1>3. Running(u) = Running(st)
  BY <1>1 DEF Running
<1>4. Dated(u)
  BY <1>1, <1>3 DEF Finals, Dated, SameServed
<1>5. u.feed.reopened = st.feed.reopened
  BY DEF SameRecord, SameRounds
<1>6. FinalSound(u)
  <2>1. Neglected(u) <=> Neglected(st)
    BY <1>1, <1>5 DEF Neglected, SameServed
  <2>2. FileSound(u)
    BY <1>1, <1>5 DEF Finals, FinalSound, FileSound, SameServed
  <2> QED
    BY <1>1, <2>1, <2>2 DEF Finals, FinalSound, SameServed
<1>7. Listed(u) = Listed(st) /\ Contested(u, t) = Contested(st, t) /\ OnFile(u.feed) = OnFile(st.feed)
  BY <1>1 DEF Listed, Contested, OnFile, SameServed
<1>8. Face(u, t) = Face(st, t)
  BY <1>1, <1>7, SameFace DEF Finals
<1>9. Wavers(u, t) => Wavers(st, t)
  <2>1. Clear(u, t) = Clear(st, t)
    BY <1>7 DEF Clear
  <2> QED
    BY <1>1, <1>5, <2>1, DoubtKept DEF SameServed
<1>10. u.feed.disputeWindow = st.feed.disputeWindow
  BY <1>1 DEF SameServed
<1> QED
  BY <1>2, <1>4, <1>6, <1>8, <1>9, <1>10 DEF Unmoved, Finals

\* A round past the cursor is neither served nor final, but for the final value of a feed reopened since.
LEMMA NextIsNotServed ==
  ASSUME NEW st, NEW t, NEW id \in Nat, Finals(st, t), ~Recurs => id = 0,
         id >= NextRound(st.feed.haveLast, st.feed.lastFinalized)
  PROVE  /\ st.feed.haveFinal => st.feed.finalRound < id \/ (~st.feed.haveLast /\ st.feed.reopened)
         /\ st.feed.haveValue => st.feed.lastRound < id
         /\ id >= st.feed.finalCursor \/ Neglected(st)
         /\ id \notin Listed(st) /\ \A r \in Listed(st) : r < id
<1>1. /\ st.feed.finalCursor \in Nat /\ st.feed.lastFinalized \in Nat
      /\ st.feed.haveLast => id > st.feed.lastFinalized
  BY DEF Finals, OnRecord, Cursors, NextRound
<1>2. NextRound(st.feed.haveLast, st.feed.lastFinalized) \in Nat
  BY <1>1 DEF NextRound
<1>3. ASSUME st.feed.haveFinal
      PROVE  st.feed.finalRound < id \/ (~st.feed.haveLast /\ st.feed.reopened)
  <2>1. st.feed.finalRound \in Nat /\ st.feed.finalRound < st.feed.finalCursor
    BY <1>3 DEF Finals, FinalSound, FileSound
  <2>2. CASE Neglected(st)
    BY <1>1, <1>3, <2>2 DEF Neglected
  <2>3. CASE ~Neglected(st)
    <3>1. st.feed.finalCursor <= NextRound(st.feed.haveLast, st.feed.lastFinalized)
      BY <2>3 DEF Finals, FinalSound
    <3> QED
      BY <1>1, <1>2, <2>1, <3>1
  <2> QED
    BY <2>2, <2>3
<1>4. st.feed.haveValue => st.feed.lastRound < id
  BY <1>1 DEF Finals, FinalSound
<1>5. id >= st.feed.finalCursor \/ Neglected(st)
  BY <1>1, <1>2 DEF Finals, FinalSound
<1>6. \A r \in Listed(st) : r \in Nat /\ r <= st.feed.lastFinalized /\ st.feed.haveLast
  BY ListedSettled DEF Finals
<1>7. \A r \in Listed(st) : r < id
  BY <1>1, <1>6
<1>8. id \notin Listed(st)
  BY <1>7
<1> QED
  BY <1>3, <1>4, <1>5, <1>7, <1>8

\* An open round is written.
LEMMA OpenPutUnmoved ==
  ASSUME NEW st, NEW t, NEW id \in Nat, NEW rd, Finals(st, t), ~Recurs => id = 0,
         id >= NextRound(st.feed.haveLast, st.feed.lastFinalized),
         DOMAIN rd = RoundFields, rd.status = "open",
         rd.tier = GetRound(st, id).tier, rd.disputeID = GetRound(st, id).disputeID,
         rd.finalisedAt = GetRound(st, id).finalisedAt
  PROVE  Unmoved(PutRound(st, id, rd), st, t)
<1> DEFINE u == PutRound(st, id, rd)
<1>1. OnRecord(st) /\ Dated(st) /\ FinalSound(st)
  BY DEF Finals
<1>2. OnRecord(u)
  BY <1>1, OpenRoundPut
<1>3. /\ u.feed = st.feed /\ u.disputes = st.disputes
      /\ u.rounds = [k \in DOMAIN st.rounds \cup {id} |-> IF k = id THEN rd ELSE st.rounds[k]]
  BY <1>1 DEF PutRound, OnRecord, Framed, Tables
<1> HIDE DEF u
<1>4. /\ DOMAIN u.rounds = DOMAIN st.rounds \cup {id} /\ u.rounds[id] = rd
      /\ \A k \in DOMAIN st.rounds \ {id} : u.rounds[k] = st.rounds[k]
  BY <1>3
<1>5. Running(u) = Running(st)
  BY <1>3 DEF Running
<1>6. Dated(u)
  <2>1. /\ rd.finalisedAt \in Nat /\ rd.disputeID \in 0 .. Len(st.disputes)
        /\ rd.disputeID \in Running(st) => st.disputes[rd.disputeID].round = id
    <3>1. CASE id \in DOMAIN st.rounds
      BY <1>1, <3>1 DEF GetRound, Dated
    <3>2. CASE id \notin DOMAIN st.rounds
      <4>1. rd.finalisedAt = 0 /\ rd.disputeID = 0
        BY <3>2 DEF GetRound, FreshRound
      <4>2. Len(st.disputes) \in Nat /\ DOMAIN st.disputes = 1 .. Len(st.disputes)
        BY <1>1, SequenceDomain DEF OnRecord, DisputesSound
      <4>3. 0 \notin Running(st)
        BY <4>2 DEF Running
      <4> QED
        BY <4>1, <4>2, <4>3
    <3> QED
      BY <3>1, <3>2
  <2>2. u.feed.disputeWindow \in Nat \ {0}
    BY ONLY <1>1, <1>3 DEF Dated
  <2>3. ASSUME NEW k \in DOMAIN u.rounds
        PROVE  /\ u.rounds[k].finalisedAt \in Nat
               /\ u.rounds[k].disputeID \in 0 .. Len(u.disputes)
               /\ u.rounds[k].disputeID \in Running(u) => u.disputes[u.rounds[k].disputeID].round = k
    <3>1. CASE k = id
      BY ONLY <1>3, <1>4, <1>5, <2>1, <3>1
    <3>2. CASE k # id
      <4>1. k \in DOMAIN st.rounds /\ u.rounds[k] = st.rounds[k]
        BY ONLY <1>4, <2>3, <3>2
      <4> QED
        BY ONLY <1>1, <1>3, <1>5, <4>1 DEF Dated
    <3> QED
      BY ONLY <3>1, <3>2
  <2> QED
    BY ONLY <2>2, <2>3 DEF Dated
<1>7. /\ st.feed.haveFinal => st.feed.finalRound # id \/ (~st.feed.haveLast /\ st.feed.reopened)
      /\ st.feed.haveValue => st.feed.lastRound # id
      /\ id \notin Listed(st)
  <2>1. /\ st.feed.haveFinal => st.feed.finalRound < id \/ (~st.feed.haveLast /\ st.feed.reopened)
        /\ st.feed.haveValue => st.feed.lastRound < id
        /\ id \notin Listed(st)
    BY NextIsNotServed
  <2> QED
    BY <1>1, <2>1 DEF FinalSound, FileSound
<1>8. FinalSound(u)
  <2>1. Neglected(u) <=> Neglected(st)
    BY <1>3 DEF Neglected
  <2>2. \A k \in DOMAIN u.rounds : u.rounds[k].status = "aggregated" => k \in DOMAIN st.rounds /\ u.rounds[k] = st.rounds[k]
    BY <1>4
  <2>3. u.feed.finalCursor <= NextRound(u.feed.haveLast, u.feed.lastFinalized) \/ Neglected(u)
    BY ONLY <1>1, <1>3, <2>1 DEF FinalSound
  <2>4. \A k \in DOMAIN u.rounds :
          (u.rounds[k].status = "aggregated" /\ k < u.feed.finalCursor) =>
            (u.feed.haveFinal /\ k <= u.feed.finalRound) \/ Neglected(u)
    BY ONLY <1>1, <1>3, <2>1, <2>2 DEF FinalSound
  <2>5. FileSound(u)
    <3>1. st.feed.finalRound # id /\ st.feed.finalRound \in DOMAIN u.rounds =>
            st.feed.finalRound \in DOMAIN st.rounds /\ u.rounds[st.feed.finalRound] = st.rounds[st.feed.finalRound]
      BY ONLY <1>4
    <3> QED
      BY ONLY <1>1, <1>3, <1>7, <3>1 DEF FinalSound, FileSound
  <2>6. u.feed.haveValue =>
          /\ u.feed.haveLast
          /\ u.feed.lastRound \in Nat /\ u.feed.lastRound <= u.feed.lastFinalized
          /\ u.feed.lastRound \in DOMAIN u.rounds =>
               /\ u.rounds[u.feed.lastRound].status = "aggregated" \/ u.rounds[u.feed.lastRound].tier = "void"
               /\ u.rounds[u.feed.lastRound].tier = u.feed.lastTier
               /\ u.rounds[u.feed.lastRound].value = u.feed.lastValue
    <3>1. st.feed.lastRound # id /\ st.feed.lastRound \in DOMAIN u.rounds =>
            st.feed.lastRound \in DOMAIN st.rounds /\ u.rounds[st.feed.lastRound] = st.rounds[st.feed.lastRound]
      BY ONLY <1>4
    <3> QED
      BY ONLY <1>1, <1>3, <1>7, <3>1 DEF FinalSound
  <2> QED
    BY ONLY <2>3, <2>4, <2>5, <2>6 DEF FinalSound
<1>9. Listed(u) = Listed(st) /\ \A k \in Listed(st) : u.rounds[k] = st.rounds[k]
  BY <1>3, <1>4, <1>7 DEF Listed
<1>10. Contested(u, t) = Contested(st, t)
  BY <1>3, <1>9 DEF Contested
<1>11. Face(u, t) = Face(st, t)
  BY <1>1, <1>3, <1>9, <1>10, SameFace
<1>12. Wavers(u, t) => Wavers(st, t)
  <2>1. Clear(u, t) = Clear(st, t)
    BY <1>9, <1>10 DEF Clear
  <2>2. (st.feed.haveFinal /\ st.feed.haveLast /\ st.feed.finalRound \in DOMAIN u.rounds) =>
          st.feed.finalRound \in DOMAIN st.rounds /\ u.rounds[st.feed.finalRound] = st.rounds[st.feed.finalRound]
    BY <1>4, <1>7
  <2> QED
    BY <1>3, <2>1, <2>2, DoubtKept
<1>13. Unmoved(u, st, t)
  BY <1>2, <1>3, <1>6, <1>8, <1>11, <1>12 DEF Unmoved, Finals
<1> QED
  BY <1>13 DEF u

\* The walk never goes back, nor past the settled rounds.
LEMMA WalkGoesOn ==
  ASSUME NEW st, NEW t, OnRecord(st)
  PROVE  /\ WalkEnd(st, t) \in Nat /\ st.feed.finalCursor <= WalkEnd(st, t)
         /\ WalkEnd(st, t) = st.feed.finalCursor \/ WalkEnd(st, t) <= NextRound(st.feed.haveLast, st.feed.lastFinalized)
<1> DEFINE f == st.feed
           held_at == { id \in f.finalCursor .. f.lastFinalized : HoldsPromotion(st, id, t) }
           end == WalkEnd(st, t)
<1>1. f.finalCursor \in Nat /\ f.lastFinalized \in Nat
  BY DEF OnRecord, Cursors
<1>2. end = IF ~f.haveLast \/ f.finalCursor > f.lastFinalized THEN f.finalCursor
            ELSE IF held_at = {} THEN f.lastFinalized + 1 ELSE Min(held_at)
  BY DEF WalkEnd
<1>3. held_at # {} => Min(held_at) \in held_at
  <2>1. held_at \in SUBSET Nat
    BY <1>1
  <2> HIDE DEF held_at
  <2> QED
    BY <2>1, LeastOf
<1>4. \A k \in held_at : k \in Nat /\ f.finalCursor <= k /\ k <= f.lastFinalized
  BY <1>1
<1> HIDE DEF held_at, end
<1> QED
  BY <1>1, <1>2, <1>3, <1>4 DEF NextRound, end

LEMMA SetFinalServes ==
  ASSUME NEW st, NEW lf, NEW cursor, Framed(st)
  PROVE  LET f == SetFinal(st, lf, cursor).feed IN
         /\ f.haveFinal = lf.ok /\ f.finalValue = lf.value /\ f.finalRound = lf.round /\ f.finalCursor = cursor
         /\ f.disputeWindow = st.feed.disputeWindow /\ f.haveValue = st.feed.haveValue
         /\ f.lastValue = st.feed.lastValue /\ f.lastTier = st.feed.lastTier /\ f.lastRound = st.feed.lastRound
<1> DEFINE f == SetFinal(st, lf, cursor).feed
<1>1. f = [st.feed EXCEPT !.haveFinal = lf.ok, !.finalValue = lf.value, !.finalRound = lf.round,
                          !.finalAt = lf.at, !.finalCursor = cursor]
  BY DEF SetFinal, Framed, Tables
<1> HIDE DEF f
<1>2. /\ f.haveFinal = lf.ok /\ f.finalValue = lf.value /\ f.finalRound = lf.round /\ f.finalCursor = cursor
      /\ f.disputeWindow = st.feed.disputeWindow /\ f.haveValue = st.feed.haveValue
      /\ f.lastValue = st.feed.lastValue /\ f.lastTier = st.feed.lastTier /\ f.lastRound = st.feed.lastRound
  BY <1>1 DEF Framed, FeedFields, NoFeed
<1> QED
  BY <1>2 DEF f

\* Promotion writes back what the face already shows.
LEMMA PromoteUnmoved ==
  ASSUME NEW st, Finals(st, now)
  PROVE  Unmoved(FeedPromoteFinal(st), st, now)
<1> DEFINE lf == LatestFinal(st, now)
           cursor == WalkEnd(st, now)
           clear == Clear(st, now)
           u == FeedPromoteFinal(st)
<1>1. OnRecord(st) /\ Dated(st) /\ FinalSound(st)
  BY DEF Finals
<1>2. SameRounds(u, st) /\ OnRecord(u)
  BY <1>1, OnRecordFramed, FeedPromoteFinalLeaves, RoundsKept
<1>3. /\ u.feed.haveFinal = lf.ok /\ u.feed.finalValue = lf.value /\ u.feed.finalRound = lf.round
      /\ u.feed.finalCursor = cursor
      /\ u.feed.disputeWindow = st.feed.disputeWindow /\ u.feed.haveValue = st.feed.haveValue
      /\ u.feed.lastValue = st.feed.lastValue /\ u.feed.lastTier = st.feed.lastTier
      /\ u.feed.lastRound = st.feed.lastRound
  BY <1>1, OnRecordFramed, SetFinalServes DEF FeedPromoteFinal
<1>4. /\ u.rounds = st.rounds /\ u.disputes = st.disputes
      /\ u.feed.haveLast = st.feed.haveLast /\ u.feed.lastFinalized = st.feed.lastFinalized
  BY <1>2 DEF SameRounds
<1>5. /\ cursor \in Nat /\ st.feed.finalCursor <= cursor /\ st.feed.finalCursor \in Nat
      /\ cursor = st.feed.finalCursor \/ cursor <= NextRound(st.feed.haveLast, st.feed.lastFinalized)
  BY <1>1, WalkGoesOn DEF OnRecord, Cursors
<1>6. Passed(st, cursor) = clear
  BY <1>1, WalkPassesClear
<1> HIDE DEF cursor
<1>7. \A id \in Listed(st) : id \in Nat /\ (id < cursor <=> id \in clear)
  <2>1. \A id \in Listed(st) : id \in Nat
    BY <1>1, ListedSettled
  <2> QED
    BY <1>5, <1>6, <2>1 DEF Passed, Listed
<1>8. /\ clear \subseteq Listed(st) /\ Contested(st, now) \subseteq Listed(st) \ clear
  BY <1>1, ClearFirst
<1>9. clear = {} => lf.ok = st.feed.haveFinal /\ lf.round = st.feed.finalRound /\ lf.value = st.feed.finalValue
  BY <1>6 DEF LatestFinal, cursor, Newest, Recorded
<1>10. clear # {} => lf.ok = TRUE /\ lf.round = Max(clear) /\ lf.value = st.rounds[Max(clear)].value
  BY <1>6 DEF LatestFinal, cursor, Newest, FinalRecord
<1>11. clear # {} => Max(clear) \in clear /\ \A y \in clear : y <= Max(clear)
  BY <1>1, <1>8, GreatestListed
<1>12. OnFile(u.feed) = FinalOf(st, now)
  BY <1>3, <1>9, <1>10 DEF OnFile, FinalOf
<1> HIDE DEF lf, u
<1>13. Listed(u) = Listed(st) \ clear
  <2>1. \A id \in DOMAIN st.rounds : id \in Nat
    BY <1>1 DEF OnRecord, RoundsSound
  <2>2. Listed(u) = { id \in Listed(st) : id >= cursor }
    BY <1>3, <1>4, <1>5, <2>1 DEF Listed
  <2> QED
    BY <1>5, <1>7, <2>2
<1>14. Contested(u, now) = Contested(st, now)
  BY <1>3, <1>4, <1>8, <1>13 DEF Contested
<1>15. Clear(u, now) = {}
  BY <1>13, <1>14 DEF Clear, Before
<1>16. Face(u, now) = Face(st, now)
  <2>1. FinalOf(u, now) = FinalOf(st, now)
    BY <1>12, <1>15 DEF FinalOf
  <2>2. PendingOf(u, now) = PendingOf(st, now)
    BY <1>4, <1>13, <1>15 DEF PendingOf
  <2> QED
    BY <1>14, <2>1, <2>2 DEF Face
<1>17. Dated(u)
  <2>1. Running(u) = Running(st)
    BY <1>4 DEF Running
  <2> QED
    BY <1>1, <1>3, <1>4, <2>1 DEF Dated
<1>18. Neglected(st) /\ clear = {} => Neglected(u)
  BY <1>2, <1>3, <1>9 DEF Neglected, SameRounds
<1>19. u.feed.finalCursor <= NextRound(u.feed.haveLast, u.feed.lastFinalized) \/ Neglected(u)
  <2>1. CASE cursor = st.feed.finalCursor
    <3>1. clear = {}
      <4>1. \A id \in Listed(st) : id >= cursor
        BY <2>1 DEF Listed
      <4> QED
        BY <1>5, <1>7, <1>8, <4>1
    <3> QED
      BY <1>1, <1>3, <1>4, <1>18, <2>1, <3>1 DEF FinalSound
  <2>2. CASE cursor <= NextRound(st.feed.haveLast, st.feed.lastFinalized)
    BY <1>3, <1>4, <2>2
  <2> QED
    BY <1>5, <2>1, <2>2
<1>20. ASSUME NEW id \in DOMAIN u.rounds, u.rounds[id].status = "aggregated", id < u.feed.finalCursor
       PROVE  (u.feed.haveFinal /\ id <= u.feed.finalRound) \/ Neglected(u)
  <2>1. id \in Nat /\ id \in DOMAIN st.rounds /\ st.rounds[id].status = "aggregated" /\ id < cursor
    BY <1>1, <1>3, <1>4, <1>20 DEF OnRecord, RoundsSound
  <2>2. CASE id \in Listed(st)
    <3>1. id \in clear
      BY <1>7, <2>1, <2>2
    <3> QED
      BY <1>3, <1>10, <1>11, <3>1
  <2>3. CASE id \notin Listed(st)
    <3>1. id < st.feed.finalCursor
      BY <1>5, <2>1, <2>3 DEF Listed
    <3>2. CASE clear = {}
      BY <1>1, <1>3, <1>4, <1>9, <1>18, <2>1, <3>1, <3>2 DEF FinalSound
    <3>3. CASE clear # {}
      <4>1. Max(clear) \in Nat /\ Max(clear) >= st.feed.finalCursor
        BY <1>7, <1>8, <1>11, <3>3 DEF Listed
      <4>2. id <= Max(clear)
        BY <1>5, <2>1, <3>1, <4>1
      <4> QED
        BY <1>3, <1>10, <3>3, <4>2
    <3> QED
      BY <3>2, <3>3
  <2> QED
    BY <2>2, <2>3
<1>21. u.feed.reopened = st.feed.reopened
  BY <1>2 DEF SameRounds
<1>22. clear = {} => /\ u.feed.haveFinal = st.feed.haveFinal /\ u.feed.finalRound = st.feed.finalRound
                     /\ u.feed.finalValue = st.feed.finalValue
  BY <1>3, <1>9
<1>23. clear # {} => /\ u.feed.haveLast /\ u.feed.finalRound \in Nat /\ u.feed.finalRound < u.feed.finalCursor
                     /\ u.feed.finalRound \in DOMAIN u.rounds
                     /\ u.rounds[u.feed.finalRound].status = "aggregated"
                     /\ u.rounds[u.feed.finalRound].value = u.feed.finalValue
                     /\ ~HeldBack(u.rounds[u.feed.finalRound], u.feed.disputeWindow, now)
  <2> SUFFICES ASSUME clear # {}
               PROVE  /\ u.feed.haveLast /\ u.feed.finalRound \in Nat /\ u.feed.finalRound < u.feed.finalCursor
                      /\ u.feed.finalRound \in DOMAIN u.rounds
                      /\ u.rounds[u.feed.finalRound].status = "aggregated"
                      /\ u.rounds[u.feed.finalRound].value = u.feed.finalValue
                      /\ ~HeldBack(u.rounds[u.feed.finalRound], u.feed.disputeWindow, now)
    OBVIOUS
  <2> DEFINE m == Max(clear)
  <2>1. m \in Listed(st) /\ m \in clear
    BY <1>8, <1>11
  <2>2. /\ st.feed.haveLast /\ m \in DOMAIN st.rounds /\ st.rounds[m].status = "aggregated"
        /\ ~HeldBack(st.rounds[m], st.feed.disputeWindow, now)
    BY <1>1, <2>1, ClearIsSure
  <2>3. u.feed.finalRound = m /\ u.feed.finalValue = st.rounds[m].value
    BY <1>3, <1>10
  <2> HIDE DEF m, clear
  <2> QED
    BY <1>3, <1>4, <1>7, <2>1, <2>2, <2>3
<1>24. FileSound(u)
  <2>1. CASE clear = {}
    <3>1. st.feed.haveFinal => st.feed.finalRound \in Nat /\ st.feed.finalRound < cursor
      BY <1>1, <1>5 DEF FinalSound, FileSound
    <3> QED
      BY <1>1, <1>3, <1>4, <1>21, <1>22, <2>1, <3>1 DEF FinalSound, FileSound
  <2>2. CASE clear # {}
    BY <1>23, <2>2 DEF FileSound
  <2> QED
    BY <2>1, <2>2
<1>25. FinalSound(u)
  BY <1>1, <1>3, <1>4, <1>19, <1>20, <1>24 DEF FinalSound
<1>26. Wavers(u, now) => Wavers(st, now)
  <2>1. CASE clear = {}
    BY <1>3, <1>4, <1>21, <1>22, <2>1, DoubtKept
  <2>2. CASE clear # {}
    BY <1>23, <2>2 DEF Wavers, Uncertain
  <2> QED
    BY <2>1, <2>2
<1>27. Unmoved(u, st, now)
  BY <1>2, <1>3, <1>16, <1>17, <1>25, <1>26 DEF Unmoved, Finals
<1> QED
  BY <1>27 DEF u

LEMMA PromotedUnmoved ==
  ASSUME NEW st, NEW agg, Finals(st, now)
  PROVE  Unmoved(Promoted(st, agg), st, now)
BY PromoteUnmoved DEF Promoted, Unmoved

-----------------------------------------------------------------------------
(* Rounds are settled. *)

\* The window is not longer and no final value comes in doubt, or one in doubt is rewritten, or
\* the window is longer.
Turns(u, s, st, t) ==
  \/ /\ u.feed.disputeWindow <= st.feed.disputeWindow
     /\ Wavers(u, s) => Wavers(st, t) /\ Face(u, s).final = Face(st, t).final
     /\ Moves(Face(u, s), Face(st, t), u.rounds)
  \/ /\ u.feed.disputeWindow = st.feed.disputeWindow
     /\ Wavers(st, t) /\ Overrules(Face(u, s), Face(st, t), u.rounds)
  \/ u.feed.disputeWindow > st.feed.disputeWindow /\ Widens(Face(u, s), Face(st, t))

\* u is sound and its face is that of st, or moved.
Moved(u, st, t) == Finals(u, t) /\ Turns(u, t, st, t)

LEMMA UnmovedMoves ==
  ASSUME NEW st, NEW u, NEW t, Unmoved(u, st, t)
  PROVE  Moved(u, st, t)
<1>1. u.feed.disputeWindow \in Nat /\ u.feed.disputeWindow = st.feed.disputeWindow
  BY DEF Unmoved, Finals, Dated
<1>2. u.feed.disputeWindow <= st.feed.disputeWindow
  BY <1>1
<1> QED
  BY <1>2 DEF Unmoved, Moved, Turns, Moves

\* What is in doubt is on file.
LEMMA DoubtedFinal ==
  ASSUME NEW st, NEW u, NEW t, NEW s, Wavers(u, s) => Wavers(st, t), OnFile(u.feed) = OnFile(st.feed)
  PROVE  Wavers(u, s) => Wavers(st, t) /\ Face(u, s).final = Face(st, t).final
BY DEF Wavers, Face, FinalOf

LEMMA MovesTurn ==
  ASSUME NEW st, NEW u, NEW t, NEW s, Dated(st), u.feed.disputeWindow = st.feed.disputeWindow,
         Wavers(u, s) => Wavers(st, t), OnFile(u.feed) = OnFile(st.feed),
         Moves(Face(u, s), Face(st, t), u.rounds)
  PROVE  Turns(u, s, st, t)
<1>1. Wavers(u, s) => Wavers(st, t) /\ Face(u, s).final = Face(st, t).final
  BY DoubtedFinal
<1>2. u.feed.disputeWindow <= st.feed.disputeWindow
  BY DEF Dated
<1> QED
  BY <1>1, <1>2 DEF Turns

LEMMA UnmovedThenMoved ==
  ASSUME NEW st, NEW u, NEW x, NEW t, Unmoved(u, st, t), Moved(x, u, t)
  PROVE  Moved(x, st, t)
<1>1. /\ Face(u, t) = Face(st, t) /\ u.feed.disputeWindow = st.feed.disputeWindow
      /\ Wavers(u, t) => Wavers(st, t)
  BY DEF Unmoved
<1>2. Finals(x, t) /\ Turns(x, t, u, t)
  BY DEF Moved
<1>3. Turns(x, t, st, t)
  BY <1>1, <1>2 DEF Turns
<1> QED
  BY <1>2, <1>3 DEF Moved

LEMMA MovedThenSame ==
  ASSUME NEW st, NEW u, NEW x, NEW t, Moved(u, st, t), SameRecord(x, u)
  PROVE  Moved(x, st, t)
<1>1. Unmoved(x, u, t)
  BY SameUnmoved DEF Moved
<1>2. x.rounds = u.rounds
  BY DEF SameRecord, SameRounds
<1>3. Finals(x, t) /\ Face(x, t) = Face(u, t) /\ x.feed.disputeWindow = u.feed.disputeWindow
  BY <1>1 DEF Unmoved
<1>4. Wavers(x, t) => Wavers(u, t)
  BY <1>1 DEF Unmoved
<1>5. Turns(u, t, st, t)
  BY DEF Moved
<1>6. Turns(x, t, st, t)
  BY <1>2, <1>3, <1>4, <1>5 DEF Turns
<1> QED
  BY <1>3, <1>6 DEF Moved

LEMMA RoundSettledFields ==
  ASSUME NEW st, NEW id, NEW status, NEW tier, NEW value, Framed(st), DOMAIN GetRound(st, id) = RoundFields
  PROVE  LET u == FeedSetCursor(RoundFinalise(st, id, status, tier, value), id) IN
         /\ u.disputes = st.disputes /\ SameServed(u.feed, st.feed) /\ u.feed.reopened = st.feed.reopened
         /\ u.feed.haveLast /\ u.feed.lastFinalized = id
         /\ DOMAIN u.rounds = DOMAIN st.rounds \cup {id}
         /\ \A k \in DOMAIN st.rounds \ {id} : u.rounds[k] = st.rounds[k]
         /\ u.rounds[id].status = status /\ u.rounds[id].tier = tier /\ u.rounds[id].value = value
         /\ u.rounds[id].finalisedAt = now /\ u.rounds[id].disputeID = GetRound(st, id).disputeID
<1> DEFINE rd == [GetRound(st, id) EXCEPT !.status = status, !.tier = tier, !.value = value, !.finalisedAt = now]
           w == PutRound(st, id, rd)
           u == FeedSetCursor(w, id)
<1>1. FeedSetCursor(RoundFinalise(st, id, status, tier, value), id) = u
  BY DEF RoundFinalise
<1>2. rd.status = status /\ rd.tier = tier /\ rd.value = value /\ rd.finalisedAt = now /\ rd.disputeID = GetRound(st, id).disputeID
  BY DEF RoundFields, FreshRound
<1> HIDE DEF rd
<1>3. /\ DOMAIN w = Tables /\ w.feed = st.feed /\ w.disputes = st.disputes
      /\ w.rounds = [k \in DOMAIN st.rounds \cup {id} |-> IF k = id THEN rd ELSE st.rounds[k]]
  BY DEF PutRound, Framed, Tables
<1> HIDE DEF w
<1>4. /\ u.rounds = w.rounds /\ u.disputes = w.disputes
      /\ u.feed = [w.feed EXCEPT !.haveLast = TRUE, !.lastFinalized = id]
  BY <1>3 DEF FeedSetCursor, Tables
<1> HIDE DEF u
<1>5. SameServed(u.feed, st.feed) /\ u.feed.reopened = st.feed.reopened /\ u.feed.haveLast /\ u.feed.lastFinalized = id
  BY <1>3, <1>4 DEF Framed, FeedFields, NoFeed, SameServed
<1>6. /\ DOMAIN u.rounds = DOMAIN st.rounds \cup {id} /\ u.rounds[id] = rd
      /\ \A k \in DOMAIN st.rounds \ {id} : u.rounds[k] = st.rounds[k]
  BY <1>3, <1>4
<1> QED
  BY <1>1, <1>2, <1>3, <1>4, <1>5, <1>6

\* The dates of the tables with round id settled now.
LEMMA SettledDated ==
  ASSUME NEW st, NEW u, NEW id, OnRecord(st), Dated(st), now \in Nat,
         u.disputes = st.disputes, u.feed.disputeWindow = st.feed.disputeWindow,
         DOMAIN u.rounds = DOMAIN st.rounds \cup {id},
         \A k \in DOMAIN st.rounds \ {id} : u.rounds[k] = st.rounds[k],
         u.rounds[id].finalisedAt = now, u.rounds[id].disputeID = GetRound(st, id).disputeID
  PROVE  Dated(u)
<1>1. Running(u) = Running(st)
  BY DEF Running
<1>2. /\ u.rounds[id].disputeID \in 0 .. Len(st.disputes)
      /\ u.rounds[id].disputeID \in Running(st) => st.disputes[u.rounds[id].disputeID].round = id
  <2>1. CASE id \in DOMAIN st.rounds
    BY <2>1 DEF GetRound, Dated
  <2>2. CASE id \notin DOMAIN st.rounds
    <3>1. u.rounds[id].disputeID = 0
      BY <2>2 DEF GetRound, FreshRound
    <3>2. Len(st.disputes) \in Nat /\ DOMAIN st.disputes = 1 .. Len(st.disputes)
      BY SequenceDomain DEF OnRecord, DisputesSound
    <3>3. 0 \notin Running(st)
      BY <3>2 DEF Running
    <3> QED
      BY <3>1, <3>2, <3>3
  <2> QED
    BY <2>1, <2>2
<1> QED
  BY <1>1, <1>2 DEF Dated

LEMMA NextRoundFields ==
  ASSUME NEW st, NEW id, OnRecord(st)
  PROVE  DOMAIN GetRound(st, id) = RoundFields
BY DEF GetRound, OnRecord, RoundsSound, RoundFields

\* The next round comes to nothing.
LEMMA EmptyUnmoved ==
  ASSUME NEW st, NEW id, NEW status \in {"empty", "skipped"}, NEW tier, NEW value,
         Finals(st, now), IsNextOf(st, id), tier # "disputed"
  PROVE  Unmoved(FeedSetCursor(RoundFinalise(st, id, status, tier, value), id), st, now)
<1> DEFINE u == FeedSetCursor(RoundFinalise(st, id, status, tier, value), id)
<1>1. /\ OnRecord(st) /\ Dated(st) /\ FinalSound(st) /\ now \in Nat
      /\ id \in Nat /\ id = NextRound(st.feed.haveLast, st.feed.lastFinalized) /\ (~Recurs => id = 0)
  BY DEF Finals, IsNextOf
<1>2. OnRecord(u)
  BY <1>1, NextRoundSettled DEF IsNextOf
<1>3. /\ u.disputes = st.disputes /\ SameServed(u.feed, st.feed) /\ u.feed.reopened = st.feed.reopened
      /\ u.feed.haveLast /\ u.feed.lastFinalized = id
      /\ DOMAIN u.rounds = DOMAIN st.rounds \cup {id}
      /\ \A k \in DOMAIN st.rounds \ {id} : u.rounds[k] = st.rounds[k]
      /\ u.rounds[id].status = status
      /\ u.rounds[id].finalisedAt = now /\ u.rounds[id].disputeID = GetRound(st, id).disputeID
  <2>1. Framed(st) /\ DOMAIN GetRound(st, id) = RoundFields
    BY <1>1, OnRecordFramed, NextRoundFields
  <2> QED
    BY <2>1, RoundSettledFields
<1> HIDE DEF u
<1>4. Dated(u)
  BY <1>1, <1>3, SettledDated DEF SameServed
<1>5. /\ st.feed.haveFinal => st.feed.finalRound < id \/ (~st.feed.haveLast /\ st.feed.reopened)
      /\ st.feed.haveValue => st.feed.lastRound < id
      /\ id \notin Listed(st)
  <2>1. id >= NextRound(st.feed.haveLast, st.feed.lastFinalized)
    BY <1>1
  <2> QED
    BY <1>1, <2>1, NextIsNotServed
<1>6. NextRound(st.feed.haveLast, st.feed.lastFinalized) <= NextRound(u.feed.haveLast, u.feed.lastFinalized)
  BY <1>1, <1>3 DEF NextRound
<1>7. Neglected(u) <=> Neglected(st)
  BY <1>3 DEF Neglected, SameServed
<1>8. (st.feed.haveFinal /\ (st.feed.haveLast \/ ~st.feed.reopened) /\ st.feed.finalRound \in DOMAIN u.rounds) =>
        st.feed.finalRound \in DOMAIN st.rounds /\ u.rounds[st.feed.finalRound] = st.rounds[st.feed.finalRound]
  <2>1. st.feed.haveFinal /\ (st.feed.haveLast \/ ~st.feed.reopened) => st.feed.finalRound # id
    BY <1>1, <1>5 DEF FinalSound, FileSound
  <2> QED
    BY ONLY <1>3, <2>1
<1>9. FinalSound(u)
  <2>1. u.feed.finalCursor <= NextRound(u.feed.haveLast, u.feed.lastFinalized) \/ Neglected(u)
    <3>1. /\ st.feed.finalCursor \in Nat /\ NextRound(u.feed.haveLast, u.feed.lastFinalized) \in Nat
          /\ u.feed.finalCursor = st.feed.finalCursor
      BY <1>1, <1>3 DEF OnRecord, Cursors, NextRound, SameServed
    <3> QED
      BY <1>1, <1>6, <1>7, <3>1 DEF FinalSound
  <2>2. \A k \in DOMAIN u.rounds : u.rounds[k].status = "aggregated" => k \in DOMAIN st.rounds /\ u.rounds[k] = st.rounds[k]
    BY <1>3
  <2>3. \A k \in DOMAIN u.rounds :
          (u.rounds[k].status = "aggregated" /\ k < u.feed.finalCursor) =>
            (u.feed.haveFinal /\ k <= u.feed.finalRound) \/ Neglected(u)
    BY <1>1, <1>3, <1>7, <2>2 DEF FinalSound, SameServed
  <2>4. FileSound(u)
    BY ONLY <1>1, <1>3, <1>8 DEF FinalSound, FileSound, SameServed
  <2>5. u.feed.haveValue =>
          /\ u.feed.haveLast
          /\ u.feed.lastRound \in Nat /\ u.feed.lastRound <= u.feed.lastFinalized
          /\ u.feed.lastRound \in DOMAIN u.rounds =>
               /\ u.rounds[u.feed.lastRound].status = "aggregated" \/ u.rounds[u.feed.lastRound].tier = "void"
               /\ u.rounds[u.feed.lastRound].tier = u.feed.lastTier
               /\ u.rounds[u.feed.lastRound].value = u.feed.lastValue
    BY <1>1, <1>3, <1>5 DEF FinalSound, SameServed
  <2> QED
    BY <2>1, <2>3, <2>4, <2>5 DEF FinalSound
<1>10. Listed(u) = Listed(st) /\ \A k \in Listed(st) : u.rounds[k] = st.rounds[k]
  BY <1>3, <1>5 DEF Listed, SameServed
<1>11. Contested(u, now) = Contested(st, now) /\ OnFile(u.feed) = OnFile(st.feed)
  BY <1>3, <1>10 DEF Contested, OnFile, SameServed
<1>12. Face(u, now) = Face(st, now)
  BY <1>1, <1>10, <1>11, SameFace
<1>13. Wavers(u, now) => Wavers(st, now)
  <2>1. Clear(u, now) = Clear(st, now)
    BY <1>10, <1>11 DEF Clear
  <2> QED
    BY ONLY <1>3, <1>8, <2>1, DoubtKept DEF SameServed
<1>14. Unmoved(u, st, now)
  BY <1>1, <1>2, <1>3, <1>4, <1>9, <1>12, <1>13 DEF Unmoved, Finals, SameServed
<1> QED
  BY <1>14 DEF u

LEMMA ValueServes ==
  ASSUME NEW st, NEW id, NEW value, NEW tier, Framed(st)
  PROVE  LET f == FeedSetValue(st, id, value, tier).feed IN
         /\ f.haveFinal = st.feed.haveFinal /\ f.finalValue = st.feed.finalValue
         /\ f.finalRound = st.feed.finalRound /\ f.finalCursor = st.feed.finalCursor
         /\ f.disputeWindow = st.feed.disputeWindow
         /\ f.haveValue /\ f.lastValue = value /\ f.lastTier = tier /\ f.lastRound = id
<1> DEFINE f == FeedSetValue(st, id, value, tier).feed
<1>1. f = [st.feed EXCEPT !.haveValue = TRUE, !.lastValue = value, !.lastTier = tier,
                          !.lastRound = id, !.lastFinalAt = now]
  BY DEF FeedSetValue, Framed, Tables
<1> HIDE DEF f
<1>2. /\ f.haveFinal = st.feed.haveFinal /\ f.finalValue = st.feed.finalValue
      /\ f.finalRound = st.feed.finalRound /\ f.finalCursor = st.feed.finalCursor
      /\ f.disputeWindow = st.feed.disputeWindow
      /\ f.haveValue /\ f.lastValue = value /\ f.lastTier = tier /\ f.lastRound = id
  BY <1>1 DEF Framed, FeedFields, NoFeed
<1> QED
  BY <1>2 DEF f

\* The next round is aggregated and served: it is published, unless promotion has passed it for good.
LEMMA AggregatedMoves ==
  ASSUME NEW st, NEW id, NEW tier, NEW value, Finals(st, now), IsNextOf(st, id), tier # "disputed"
  PROVE  Moved(FeedSetValue(FeedSetCursor(RoundFinalise(st, id, "aggregated", tier, value), id), id, value, tier),
               st, now)
<1> DEFINE w == FeedSetCursor(RoundFinalise(st, id, "aggregated", tier, value), id)
           u == FeedSetValue(w, id, value, tier)
<1>1. /\ OnRecord(st) /\ Dated(st) /\ FinalSound(st) /\ now \in Nat
      /\ id \in Nat /\ id = NextRound(st.feed.haveLast, st.feed.lastFinalized) /\ (~Recurs => id = 0)
  BY DEF Finals, IsNextOf
<1>2. OnRecord(w)
  BY <1>1, NextRoundSettled DEF IsNextOf
<1>3. /\ w.disputes = st.disputes /\ SameServed(w.feed, st.feed) /\ w.feed.reopened = st.feed.reopened
      /\ w.feed.haveLast /\ w.feed.lastFinalized = id
      /\ DOMAIN w.rounds = DOMAIN st.rounds \cup {id}
      /\ \A k \in DOMAIN st.rounds \ {id} : w.rounds[k] = st.rounds[k]
      /\ w.rounds[id].status = "aggregated" /\ w.rounds[id].tier = tier /\ w.rounds[id].value = value
      /\ w.rounds[id].finalisedAt = now /\ w.rounds[id].disputeID = GetRound(st, id).disputeID
  <2>1. Framed(st) /\ DOMAIN GetRound(st, id) = RoundFields
    BY <1>1, OnRecordFramed, NextRoundFields
  <2> QED
    BY <2>1, RoundSettledFields
<1> HIDE DEF w
<1>4. OnRecord(u) /\ SameRounds(u, w)
  BY <1>2, OnRecordFramed, FeedSetValueLeaves, RoundsKept
<1>5. /\ u.feed.haveFinal = st.feed.haveFinal /\ u.feed.finalValue = st.feed.finalValue
      /\ u.feed.finalRound = st.feed.finalRound /\ u.feed.finalCursor = st.feed.finalCursor
      /\ u.feed.disputeWindow = st.feed.disputeWindow
      /\ u.feed.haveValue /\ u.feed.lastValue = value /\ u.feed.lastTier = tier /\ u.feed.lastRound = id
  <2>1. Framed(w)
    BY <1>2, OnRecordFramed
  <2>2. /\ u.feed.haveFinal = w.feed.haveFinal /\ u.feed.finalValue = w.feed.finalValue
        /\ u.feed.finalRound = w.feed.finalRound /\ u.feed.finalCursor = w.feed.finalCursor
        /\ u.feed.disputeWindow = w.feed.disputeWindow
        /\ u.feed.haveValue /\ u.feed.lastValue = value /\ u.feed.lastTier = tier /\ u.feed.lastRound = id
    BY <2>1, ValueServes
  <2> HIDE DEF u
  <2> QED
    BY <1>3, <2>2 DEF SameServed
<1>6. /\ u.rounds = w.rounds /\ u.disputes = st.disputes /\ u.feed.reopened = st.feed.reopened
      /\ u.feed.haveLast /\ u.feed.lastFinalized = id
  BY <1>3, <1>4 DEF SameRounds
<1> HIDE DEF u
<1>7. Dated(u)
  BY <1>1, <1>3, <1>5, <1>6, SettledDated
<1>8. /\ st.feed.haveFinal => st.feed.finalRound < id \/ (~st.feed.haveLast /\ st.feed.reopened)
      /\ id >= st.feed.finalCursor \/ Neglected(st)
      /\ id \notin Listed(st) /\ \A r \in Listed(st) : r < id
  <2>1. id >= NextRound(st.feed.haveLast, st.feed.lastFinalized)
    BY <1>1
  <2> QED
    BY <1>1, <2>1, NextIsNotServed
<1>9. Neglected(u) <=> Neglected(st)
  BY <1>5, <1>6 DEF Neglected
<1>10. (st.feed.haveFinal /\ (st.feed.haveLast \/ ~st.feed.reopened) /\ st.feed.finalRound \in DOMAIN u.rounds) =>
         st.feed.finalRound \in DOMAIN st.rounds /\ u.rounds[st.feed.finalRound] = st.rounds[st.feed.finalRound]
  <2>1. st.feed.haveFinal /\ (st.feed.haveLast \/ ~st.feed.reopened) => st.feed.finalRound # id
    BY <1>1, <1>8 DEF FinalSound, FileSound
  <2> QED
    BY ONLY <1>3, <1>6, <2>1
<1>11. FinalSound(u)
  <2>1. u.feed.finalCursor <= NextRound(u.feed.haveLast, u.feed.lastFinalized) \/ Neglected(u)
    <3>1. st.feed.finalCursor \in Nat /\ NextRound(u.feed.haveLast, u.feed.lastFinalized) = id + 1
      BY <1>1, <1>6 DEF OnRecord, Cursors, NextRound
    <3> QED
      BY <1>1, <1>5, <1>8, <1>9, <3>1
  <2>2. ASSUME NEW k \in DOMAIN u.rounds, u.rounds[k].status = "aggregated", k < u.feed.finalCursor
        PROVE  (u.feed.haveFinal /\ k <= u.feed.finalRound) \/ Neglected(u)
    <3>1. CASE k = id
      <4>1. st.feed.finalCursor \in Nat
        BY <1>1 DEF OnRecord, Cursors
      <4> QED
        BY <1>1, <1>5, <1>8, <1>9, <2>2, <3>1, <4>1
    <3>2. CASE k # id
      <4>1. k \in DOMAIN st.rounds /\ u.rounds[k] = st.rounds[k]
        BY <1>3, <1>6, <3>2
      <4> QED
        BY <1>1, <1>5, <1>9, <2>2, <4>1 DEF FinalSound
    <3> QED
      BY <3>1, <3>2
  <2>3. FileSound(u)
    BY ONLY <1>1, <1>5, <1>6, <1>10 DEF FinalSound, FileSound
  <2> QED
    <3>1. u.feed.lastRound \in Nat /\ u.feed.lastRound <= u.feed.lastFinalized
      BY <1>1, <1>5, <1>6
    <3>2. /\ u.rounds[u.feed.lastRound].status = "aggregated"
          /\ u.rounds[u.feed.lastRound].tier = u.feed.lastTier
          /\ u.rounds[u.feed.lastRound].value = u.feed.lastValue
      BY <1>3, <1>5, <1>6
    <3> QED
      BY <1>6, <2>1, <2>2, <2>3, <3>1, <3>2 DEF FinalSound
<1>12. OnFile(u.feed) = OnFile(st.feed)
  BY <1>5 DEF OnFile
<1>13. ASSUME Clear(u, now) = {} => Clear(st, now) = {}
       PROVE  Wavers(u, now) => Wavers(st, now)
  BY ONLY <1>5, <1>6, <1>10, <1>13, DoubtKept
<1>14. CASE id >= st.feed.finalCursor
  <2>1. Listed(u) = Listed(st) \cup {id} /\ \A k \in Listed(st) : u.rounds[k] = st.rounds[k]
    BY <1>3, <1>5, <1>6, <1>8, <1>14 DEF Listed
  <2>2. HeldBack(u.rounds[id], u.feed.disputeWindow, now)
    <3>1. st.feed.disputeWindow \in Nat \ {0} /\ u.feed.disputeWindow = st.feed.disputeWindow
      BY ONLY <1>1, <1>5 DEF Dated
    <3> QED
      BY <1>1, <1>3, <1>6, <3>1 DEF HeldBack
  <2>3. Contested(u, now) = Contested(st, now) \cup {id}
    BY <1>5, <2>1, <2>2 DEF Contested
  <2>4. FinalOf(st, now).ok => FinalOf(st, now).round < id
    <3>1. CASE Clear(st, now) = {}
      <4>1. st.feed.haveFinal => st.feed.finalRound < id
        BY <1>1, <1>14 DEF FinalSound, FileSound, OnRecord, Cursors
      <4> QED
        BY <3>1, <4>1 DEF FinalOf, OnFile
    <3>2. CASE Clear(st, now) # {}
      <4>1. Max(Clear(st, now)) \in Listed(st)
        BY <1>1, <3>2, ClearFirst, GreatestListed
      <4> QED
        BY <1>8, <3>2, <4>1 DEF FinalOf
    <3> QED
      BY <3>1, <3>2
  <2>5. id \in DOMAIN u.rounds /\ u.rounds[id].status = "aggregated"
    BY <1>3, <1>6
  <2>6. Publishes(Face(u, now), Face(st, now), u.rounds)
    BY <1>1, <1>4, <1>8, <1>12, <2>1, <2>3, <2>4, <2>5, FacePublishes
  <2>7. Clear(st, now) \subseteq Clear(u, now)
    BY <1>1, <1>8, <2>1, <2>3, ClearFirst DEF Clear, Before
  <2>8. Turns(u, now, st, now)
    BY <1>1, <1>5, <1>12, <1>13, <2>6, <2>7, MovesTurn DEF Moves
  <2> QED
    BY <1>1, <1>4, <1>7, <1>11, <2>8 DEF Moved, Finals, u, w
<1>15. CASE id < st.feed.finalCursor
  <2>1. Listed(u) = Listed(st) /\ \A k \in Listed(st) : u.rounds[k] = st.rounds[k]
    <3>1. st.feed.finalCursor \in Nat /\ ~(id >= st.feed.finalCursor)
      BY <1>1, <1>15 DEF OnRecord, Cursors
    <3> QED
      BY <1>3, <1>5, <1>6, <1>8, <3>1 DEF Listed
  <2>2. Contested(u, now) = Contested(st, now)
    BY <1>5, <2>1 DEF Contested
  <2>3. Face(u, now) = Face(st, now)
    BY <1>1, <1>12, <2>1, <2>2, SameFace
  <2>4. Clear(u, now) = Clear(st, now)
    BY <2>1, <2>2 DEF Clear
  <2>5. Turns(u, now, st, now)
    BY <1>1, <1>5, <1>12, <1>13, <2>3, <2>4, MovesTurn DEF Moves
  <2> QED
    BY <1>1, <1>4, <1>7, <1>11, <2>5 DEF Moved, Finals, u, w
<1>16. st.feed.finalCursor \in Nat
  BY <1>1 DEF OnRecord, Cursors
<1> QED
  BY <1>1, <1>14, <1>15, <1>16

LEMMA ClosedMoves ==
  ASSUME NEW st, NEW id, NEW agg, NEW tier, Finals(st, now), IsNextOf(st, id), tier # "disputed"
  PROVE  Moved(Closed(st, id, agg, tier), st, now)
<1> DEFINE empty == FeedSetCursor(RoundFinalise(st, id, "empty", tier, agg.value), id)
           full == FeedSetCursor(RoundFinalise(st, id, "aggregated", tier, agg.value), id)
           served == FeedSetValue(full, id, agg.value, tier)
<1>1. Unmoved(empty, st, now)
  BY EmptyUnmoved
<1>2. Moved(served, st, now)
  BY AggregatedMoves
<1> HIDE DEF empty, served
<1>3. Framed(empty) /\ Framed(served)
  BY <1>1, <1>2, OnRecordFramed DEF Unmoved, Moved, Finals
<1>4. Moved(EmptyClosed(empty), st, now)
  BY <1>1, <1>3, UnmovedMoves, EmptyClosedLeaves, MovedThenSame
<1>5. Moved([served EXCEPT !.feed.emptyStreak = 0], st, now)
  BY <1>2, <1>3, StreakLeaves, MovedThenSame
<1> QED
  BY <1>4, <1>5 DEF Closed, empty, served, full

LEMMA SettledMoves ==
  ASSUME NEW st, NEW id, NEW agg, NEW tier, Finals(st, now), IsNextOf(st, id), tier # "disputed"
  PROVE  Moved(Settled(st, id, agg, tier), st, now)
<1> DEFINE paid == IF tier = "empty" THEN {} ELSE { ObligedHolder(st, s, id) : s \in agg.eligible }
           judged == Liveness(st, id, agg, st.feed.status = "active")
           payout == RoundPayout(judged, paid)
           closed == Closed(payout, id, agg, tier)
           status == FundingStatus(closed)
<1>1. Settled(st, id, agg, tier) = AfterEmpty(status)
  BY DEF Settled
<1>2. Framed(st) /\ now \in Nat /\ id \in Nat
  BY OnRecordFramed DEF Finals, IsNextOf
<1>3. SameRecord(judged, st)
  BY <1>2, LivenessLeaves
<1> HIDE DEF judged
<1>4. SameRecord(payout, judged)
  BY <1>3, RoundPayoutLeaves, FrameKept
<1> HIDE DEF payout, paid
<1>5. SameRecord(payout, st)
  BY <1>3, <1>4, RecordChained
<1>6. Unmoved(payout, st, now) /\ IsNextOf(payout, id)
  BY <1>5, SameUnmoved, NextKept
<1>7. Moved(closed, payout, now)
  BY <1>6, ClosedMoves DEF Unmoved
<1> HIDE DEF closed
<1>8. Moved(closed, st, now)
  BY <1>6, <1>7, UnmovedThenMoved
<1>9. Framed(closed)
  BY <1>8, OnRecordFramed DEF Moved, Finals
<1>10. SameRecord(status, closed)
  BY <1>9, FundingStatusLeaves
<1> HIDE DEF status
<1>11. Moved(status, st, now)
  BY <1>8, <1>10, MovedThenSame
<1>12. Framed(status) /\ status.feed.startAt \in Nat
  BY <1>11, OnRecordFramed DEF Moved, Finals
<1>13. SameRecord(AfterEmpty(status), status)
  BY <1>2, <1>12, AfterEmptyLeaves
<1> QED
  BY <1>1, <1>11, <1>13, MovedThenSame

LEMMA FinaliseMoves ==
  ASSUME NEW st, NEW id, Finals(st, now), IsNextOf(st, id)
  PROVE  Moved(Finalise(st, id), st, now)
<1> DEFINE asked == GetRound(st, id).status = "open"
           checked == Require(st, asked)
           put == PutRound(checked, id, GetRound(st, id))
           agg == AggregateOf(put, id)
           promoted == Promoted(put, agg)
           tier == TierOf(promoted, agg, Cardinality(ObligedSlots(put, id)))
<1>1. Finalise(st, id) = Settled(promoted, id, agg, tier)
  BY DEF Finalise, FinaliseOnRecord, FinaliseAs
<1>2. OnRecord(st) /\ Framed(st) /\ now \in Nat
  BY OnRecordFramed DEF Finals
<1>3. SameRecord(checked, st)
  BY <1>2, RequireLeaves
<1> HIDE DEF asked, checked
<1>4. Unmoved(checked, st, now) /\ IsNextOf(checked, id) /\ GetRound(checked, id) = GetRound(st, id)
  BY <1>3, SameUnmoved, NextKept DEF SameRecord, SameRounds, GetRound
<1>5. DOMAIN GetRound(st, id) = RoundFields /\ GetRound(st, id).status = "open"
  <2>1. CASE id \in DOMAIN st.rounds
    <3>1. ~(st.feed.haveLast /\ id <= st.feed.lastFinalized)
      BY <1>2, NextIsPastOldest DEF OnRecord, IsNextOf, Cursors, NextRound
    <3> QED
      BY <1>2, <2>1, <3>1 DEF GetRound, OnRecord, RoundsSound
  <2>2. CASE id \notin DOMAIN st.rounds
    BY <2>2 DEF GetRound, FreshRound, RoundFields
  <2> QED
    BY <2>1, <2>2
<1>6. Unmoved(put, checked, now) /\ IsNextOf(put, id)
  <2>1. id \in Nat /\ id >= NextRound(checked.feed.haveLast, checked.feed.lastFinalized) /\ (~Recurs => id = 0)
    BY <1>4 DEF IsNextOf
  <2>2. Finals(checked, now)
    BY <1>4 DEF Unmoved
  <2>3. Unmoved(put, checked, now)
    BY <1>4, <1>5, <2>1, <2>2, OpenPutUnmoved
  <2>4. put.feed = checked.feed
    BY <1>3, FrameKept DEF PutRound, Framed, Tables
  <2> QED
    BY <1>4, <2>3, <2>4 DEF IsNextOf
<1> HIDE DEF put, agg
<1>7. Unmoved(promoted, put, now)
  BY <1>6, PromotedUnmoved DEF Unmoved
<1>8. IsNextOf(promoted, id)
  <2>1. Framed(put)
    BY <1>6, OnRecordFramed DEF Unmoved, Finals
  <2> QED
    BY <1>6, <2>1, PromotedLeaves, NextRoundKept
<1>9. tier # "disputed"
  BY TierNotDisputed
<1> HIDE DEF promoted, tier
<1>10. Unmoved(promoted, st, now)
  BY <1>4, <1>6, <1>7, UnmovedChained
<1>11. Moved(Settled(promoted, id, agg, tier), promoted, now)
  BY <1>8, <1>9, <1>10, SettledMoves DEF Unmoved
<1> QED
  BY <1>1, <1>10, <1>11, UnmovedThenMoved

LEMMA SkipMoves ==
  ASSUME NEW st, NEW id, Finals(st, now), IsNextOf(st, id)
  PROVE  Moved(Skip(st, id), st, now)
<1> DEFINE closed == FeedSetCursor(RoundFinalise(st, id, "skipped", "", 0), id)
           counted == EmptyClosed(closed)
<1>1. Unmoved(closed, st, now)
  BY EmptyUnmoved
<1>2. Skip(st, id) = AfterEmpty(counted)
  BY DEF Skip
<1> HIDE DEF closed
<1>3. Framed(closed)
  BY <1>1, OnRecordFramed DEF Unmoved, Finals
<1>4. Moved(counted, st, now)
  BY <1>1, <1>3, UnmovedMoves, EmptyClosedLeaves, MovedThenSame
<1> HIDE DEF counted
<1>5. Framed(counted) /\ counted.feed.startAt \in Nat /\ now \in Nat
  BY <1>4, OnRecordFramed DEF Moved, Finals
<1>6. SameRecord(AfterEmpty(counted), counted)
  BY <1>5, AfterEmptyLeaves
<1> QED
  BY <1>2, <1>4, <1>6, MovedThenSame

-----------------------------------------------------------------------------
(* Rounds go, and the feed with them. *)

\* Rounds go, none of them listed.
LEMMA FewerUnmoved ==
  ASSUME NEW st, NEW u, NEW t, Finals(st, t), OnRecord(u),
         u.disputes = st.disputes, SameServed(u.feed, st.feed), u.feed.reopened = st.feed.reopened,
         u.feed.haveLast = st.feed.haveLast, u.feed.lastFinalized = st.feed.lastFinalized,
         Listed(st) \subseteq DOMAIN u.rounds, DOMAIN u.rounds \subseteq DOMAIN st.rounds,
         \A id \in DOMAIN u.rounds : u.rounds[id] = st.rounds[id]
  PROVE  Unmoved(u, st, t)
<1>1. OnRecord(st) /\ Dated(st) /\ FinalSound(st) /\ t \in Nat
  BY DEF Finals
<1>2. Running(u) = Running(st)
  BY DEF Running
<1>3. Dated(u)
  BY <1>1, <1>2 DEF Dated, SameServed
<1>4. Neglected(u) <=> Neglected(st)
  BY DEF Neglected, SameServed
<1>5. FinalSound(u)
  <2>1. FileSound(u)
    BY <1>1 DEF FinalSound, FileSound, SameServed
  <2> QED
    BY SMTT(30), <1>1, <1>4, <2>1 DEF FinalSound, SameServed
<1>6. Listed(u) = Listed(st)
  BY DEF Listed, SameServed
<1>7. Contested(u, t) = Contested(st, t) /\ OnFile(u.feed) = OnFile(st.feed)
  BY <1>6 DEF Contested, OnFile, SameServed
<1>8. Face(u, t) = Face(st, t)
  BY <1>1, <1>6, <1>7, SameFace
<1>9. Wavers(u, t) => Wavers(st, t)
  <2>1. Clear(u, t) = Clear(st, t)
    BY <1>6, <1>7 DEF Clear
  <2> QED
    BY <2>1, DoubtKept DEF SameServed
<1> QED
  BY <1>1, <1>3, <1>5, <1>8, <1>9 DEF Unmoved, Finals, SameServed

LEMMA DroppedUnmoved ==
  ASSUME NEW st, NEW t, NEW next \in Nat, Finals(st, t), OnRecord(DropRounds(st, next)),
         next <= st.feed.finalCursor \/ next = st.feed.oldestRound
  PROVE  Unmoved(DropRounds(st, next), st, t)
<1> DEFINE u == DropRounds(st, next)
           gone == st.feed.oldestRound .. (next - 1)
<1>1. /\ u.disputes = st.disputes
      /\ u.rounds = [id \in DOMAIN st.rounds \ gone |-> st.rounds[id]]
      /\ u.feed = [st.feed EXCEPT !.oldestRound = next]
      /\ DOMAIN st.feed = FeedFields
  BY DEF DropRounds, Finals, OnRecord, Framed, Tables
<1>2. OnRecord(u)
  OBVIOUS
<1> HIDE DEF u
<1>3. /\ SameServed(u.feed, st.feed) /\ u.feed.reopened = st.feed.reopened
      /\ u.feed.haveLast = st.feed.haveLast /\ u.feed.lastFinalized = st.feed.lastFinalized
  BY <1>1 DEF FeedFields, NoFeed, SameServed
<1>4. \A id \in Listed(st) : id \notin gone /\ id \in DOMAIN st.rounds
  <2>1. st.feed.oldestRound \in Nat /\ st.feed.finalCursor \in Nat
    BY DEF Finals, OnRecord, Cursors
  <2>2. \A id \in Listed(st) : id \in Nat /\ id >= st.feed.finalCursor /\ id \in DOMAIN st.rounds
    BY ListedSettled DEF Finals
  <2> QED
    BY <2>1, <2>2
<1> HIDE DEF gone
<1>5. Unmoved(u, st, t)
  BY <1>1, <1>2, <1>3, <1>4, FewerUnmoved
<1> QED
  BY <1>5 DEF u

LEMMA PrunedUnmoved ==
  ASSUME NEW st, NEW t, NEW most \in Nat, Finals(st, t), st.feed.haveLast
  PROVE  Unmoved(Pruned(st, most), st, t)
<1> DEFINE end == PruneEnd(st.feed)
           next == Smaller(PruneStop(st, end), st.feed.oldestRound + most)
<1>1. /\ st.feed.lastFinalized \in Nat /\ st.feed.finalCursor \in Nat /\ st.feed.oldestRound \in Nat
  BY DEF Finals, OnRecord, Cursors
<1>2. end \in Nat /\ end <= st.feed.finalCursor
  BY <1>1 DEF PruneEnd, Smaller
<1>3. Pruned(st, most) = DropRounds(st, next) /\ OnRecord(Pruned(st, most))
  BY PrunedKeepsRecord DEF Pruned, Finals
<1> HIDE DEF end
<1>4. next \in Nat /\ (next <= end \/ next = st.feed.oldestRound)
  BY <1>1, <1>2, PruneStopsAtKept
<1> HIDE DEF next
<1>5. next <= st.feed.finalCursor \/ next = st.feed.oldestRound
  BY <1>1, <1>2, <1>4
<1> QED
  BY <1>3, <1>4, <1>5, DroppedUnmoved

LEMMA GoneUnmoved ==
  ASSUME NEW st, NEW t, Finals(st, t), Running(st) = {}
  PROVE  Unmoved([st EXCEPT !.feed.status = "pruned", !.slotlog = {}], st, t)
<1> DEFINE u == [st EXCEPT !.feed.status = "pruned", !.slotlog = {}]
<1>1. OnRecord(u)
  BY GoneKeepsRecord DEF Finals
<1>2. /\ u.disputes = st.disputes /\ u.rounds = st.rounds
      /\ u.feed = [st.feed EXCEPT !.status = "pruned"] /\ DOMAIN st.feed = FeedFields
  BY DEF Finals, OnRecord, Framed, Tables
<1> HIDE DEF u
<1>3. /\ SameServed(u.feed, st.feed) /\ u.feed.reopened = st.feed.reopened
      /\ u.feed.haveLast = st.feed.haveLast /\ u.feed.lastFinalized = st.feed.lastFinalized
  BY <1>2 DEF FeedFields, NoFeed, SameServed
<1>4. Listed(st) \subseteq DOMAIN u.rounds
  BY <1>2 DEF Listed
<1>5. Unmoved(u, st, t)
  BY <1>1, <1>2, <1>3, <1>4, FewerUnmoved
<1> QED
  BY <1>5 DEF u

\* A one-off feed is reopened: it had no final value, or one in doubt.
LEMMA ReopenUnmoved ==
  ASSUME NEW st, NEW t, NEW at, Finals(st, t), OnRecord(FeedResetForReopen(st, at)),
         ~Recurs, ~st.feed.reopened, 0 \in DOMAIN st.rounds, st.rounds[0].status \in {"void", "empty", "skipped"}
  PROVE  Unmoved(FeedResetForReopen(st, at), st, t)
<1> DEFINE u == FeedResetForReopen(st, at)
<1>1. OnRecord(st) /\ Dated(st) /\ FinalSound(st) /\ t \in Nat /\ OnRecord(u)
  BY DEF Finals
<1>2. /\ u.disputes = st.disputes
      /\ u.rounds = [id \in DOMAIN st.rounds \ {0} |-> st.rounds[id]]
      /\ u.feed = [st.feed EXCEPT !.startAt = at, !.reopened = TRUE, !.haveLast = FALSE, !.lastFinalized = 0,
                                  !.haveValue = FALSE, !.lastTier = "", !.emptyStreak = 0]
      /\ DOMAIN st.feed = FeedFields
  BY <1>1 DEF FeedResetForReopen, OnRecord, Framed, Tables
<1> HIDE DEF u
<1>3. /\ u.feed.haveFinal = st.feed.haveFinal /\ u.feed.finalValue = st.feed.finalValue
      /\ u.feed.finalRound = st.feed.finalRound /\ u.feed.finalCursor = st.feed.finalCursor
      /\ u.feed.disputeWindow = st.feed.disputeWindow /\ ~u.feed.haveValue /\ u.feed.reopened
  BY <1>2 DEF FeedFields, NoFeed
<1>4. DOMAIN st.rounds = {0} /\ DOMAIN u.rounds = {}
  <2>1. DOMAIN st.rounds \subseteq {0}
    BY <1>1 DEF OnRecord, RoundsSound
  <2> QED
    BY <1>2, <2>1
<1>5. ASSUME st.feed.haveFinal
      PROVE  st.feed.finalRound = 0
  <2>1. /\ st.feed.haveLast /\ st.feed.finalRound \in Nat /\ st.feed.finalRound < st.feed.finalCursor
        /\ st.feed.finalCursor <= NextRound(st.feed.haveLast, st.feed.lastFinalized)
    BY <1>1, <1>5 DEF FinalSound, FileSound, Neglected
  <2>2. st.feed.lastFinalized \in Nat /\ st.feed.oldestRound \in Nat /\ st.feed.finalCursor \in Nat
    BY <1>1 DEF OnRecord, Cursors
  <2>3. st.feed.oldestRound <= 0 /\ st.feed.oldestRound .. st.feed.lastFinalized \subseteq {0}
    BY <1>1, <1>4, <2>1 DEF OnRecord, RoundsSound
  <2>4. st.feed.lastFinalized = 0
    BY <2>2, <2>3
  <2> QED
    BY <2>1, <2>2, <2>4 DEF NextRound
<1>6. Dated(u)
  BY <1>1, <1>3, <1>4 DEF Dated
<1>7. FinalSound(u)
  BY <1>1, <1>3, <1>4 DEF FinalSound, FileSound, Neglected
<1>8. Listed(st) = {} /\ Listed(u) = {}
  BY <1>4 DEF Listed
<1>9. Contested(st, t) = {} /\ Contested(u, t) = {} /\ OnFile(u.feed) = OnFile(st.feed)
  BY <1>3, <1>8 DEF Contested, OnFile
<1>10. Face(u, t) = Face(st, t)
  BY <1>1, <1>8, <1>9, SameFace
<1>11. Wavers(u, t) => Wavers(st, t)
  <2>1. Clear(st, t) = {}
    BY <1>8 DEF Clear, Before
  <2>2. st.rounds[0].status # "aggregated"
    OBVIOUS
  <2>3. st.feed.haveFinal => Uncertain(st, t)
    BY <1>5, <2>2 DEF Uncertain
  <2> QED
    BY <1>3, <2>1, <2>3 DEF Wavers, Uncertain
<1>12. Unmoved(u, st, t)
  BY <1>1, <1>3, <1>6, <1>7, <1>10, <1>11 DEF Unmoved, Finals
<1> QED
  BY <1>12 DEF u

-----------------------------------------------------------------------------
(* Disputes. *)

\* What is served follows the round id, which was old and is rd.
LEMMA RewrittenServed ==
  ASSUME NEW st, NEW u, NEW t, NEW id \in DOMAIN st.rounds, Finals(st, t),
         SameCursors(u.feed, st.feed), st.rounds[id].status = "aggregated",
         DOMAIN u.rounds = DOMAIN st.rounds,
         \A k \in DOMAIN st.rounds \ {id} : u.rounds[k] = st.rounds[k],
         ServedThrough(u.feed, st.feed, id, st.rounds[id], u.rounds[id]),
         u.rounds[id].status = "aggregated" \/ u.rounds[id].tier = "void"
  PROVE  u.feed.haveValue =>
           /\ u.feed.haveLast
           /\ u.feed.lastRound \in Nat /\ u.feed.lastRound <= u.feed.lastFinalized
           /\ u.feed.lastRound \in DOMAIN u.rounds =>
                /\ u.rounds[u.feed.lastRound].status = "aggregated" \/ u.rounds[u.feed.lastRound].tier = "void"
                /\ u.rounds[u.feed.lastRound].tier = u.feed.lastTier
                /\ u.rounds[u.feed.lastRound].value = u.feed.lastValue
<1> SUFFICES ASSUME u.feed.haveValue
             PROVE  /\ u.feed.haveLast
                    /\ u.feed.lastRound \in Nat /\ u.feed.lastRound <= u.feed.lastFinalized
                    /\ u.feed.lastRound \in DOMAIN u.rounds =>
                         /\ u.rounds[u.feed.lastRound].status = "aggregated" \/ u.rounds[u.feed.lastRound].tier = "void"
                         /\ u.rounds[u.feed.lastRound].tier = u.feed.lastTier
                         /\ u.rounds[u.feed.lastRound].value = u.feed.lastValue
  OBVIOUS
<1> DEFINE r == st.feed.lastRound
<1>1. /\ u.feed.haveLast = st.feed.haveLast /\ u.feed.lastFinalized = st.feed.lastFinalized
      /\ u.feed.lastRound = r /\ st.feed.haveValue
  BY DEF SameCursors, ServedThrough
<1>2. /\ st.feed.haveLast /\ r \in Nat /\ r <= st.feed.lastFinalized
      /\ r \in DOMAIN st.rounds =>
           /\ st.rounds[r].status = "aggregated" \/ st.rounds[r].tier = "void"
           /\ st.rounds[r].tier = st.feed.lastTier
           /\ st.rounds[r].value = st.feed.lastValue
  BY <1>1 DEF Finals, FinalSound
<1> HIDE DEF r
<1>3. CASE r = id
  <2>1. u.feed.lastTier = u.rounds[id].tier /\ (st.feed.lastValue = st.rounds[id].value => u.feed.lastValue = u.rounds[id].value)
    BY <1>1, <1>3 DEF ServedThrough, r
  <2> QED
    BY <1>1, <1>2, <1>3, <2>1
<1>4. CASE r # id
  <2>1. u.feed.lastTier = st.feed.lastTier /\ u.feed.lastValue = st.feed.lastValue
    BY <1>1, <1>4 DEF ServedThrough, r
  <2> QED
    BY <1>1, <1>2, <1>4, <2>1
<1> QED
  BY <1>3, <1>4

\* An aggregate is rewritten: the tables are as sound.
LEMMA RewrittenFinals ==
  ASSUME NEW st, NEW u, NEW t, NEW id \in DOMAIN st.rounds, Finals(st, t), OnRecord(u),
         st.rounds[id].status = "aggregated",
         SameCursors(u.feed, st.feed),
         DOMAIN u.rounds = DOMAIN st.rounds,
         \A k \in DOMAIN st.rounds \ {id} : u.rounds[k] = st.rounds[k],
         ServedThrough(u.feed, st.feed, id, st.rounds[id], u.rounds[id]),
         u.rounds[id].status \in {"aggregated", "void"}, u.rounds[id].status = "void" => u.rounds[id].tier = "void",
         Dated(u)
  PROVE  Finals(u, t)
<1>1. FinalSound(st) /\ t \in Nat
  BY DEF Finals
<1>2. /\ u.feed.haveFinal = st.feed.haveFinal /\ u.feed.finalRound = st.feed.finalRound
      /\ u.feed.disputeWindow = st.feed.disputeWindow /\ u.feed.finalCursor = st.feed.finalCursor
      /\ u.feed.haveLast = st.feed.haveLast /\ u.feed.lastFinalized = st.feed.lastFinalized
      /\ u.feed.reopened = st.feed.reopened
  BY DEF ServedThrough, SameCursors
<1>3. Neglected(u) <=> Neglected(st)
  BY <1>2 DEF Neglected
<1>4. u.feed.finalCursor <= NextRound(u.feed.haveLast, u.feed.lastFinalized) \/ Neglected(u)
  BY <1>1, <1>2, <1>3 DEF FinalSound
<1>5. ASSUME NEW k \in DOMAIN u.rounds, u.rounds[k].status = "aggregated", k < u.feed.finalCursor
      PROVE  (u.feed.haveFinal /\ k <= u.feed.finalRound) \/ Neglected(u)
  <2>1. k \in DOMAIN st.rounds /\ st.rounds[k].status = "aggregated"
    BY <1>5
  <2> QED
    BY <1>1, <1>2, <1>3, <1>5, <2>1 DEF FinalSound
<1>6. FileSound(u)
  <2>1. FileSound(st)
    BY <1>1 DEF FinalSound
  <2>2. CASE st.feed.haveFinal /\ st.feed.finalRound = id
    <3>1. \/ u.rounds[id].status = "aggregated" /\ u.feed.finalValue = u.rounds[id].value
          \/ u.rounds[id].value = st.rounds[id].value /\ u.feed.finalValue = st.feed.finalValue
      BY <2>2 DEF ServedThrough
    <3> QED
      BY <1>2, <2>1, <2>2, <3>1 DEF FileSound
  <2>3. CASE st.feed.haveFinal /\ st.feed.finalRound # id
    <3>1. u.feed.finalValue = st.feed.finalValue
      BY <2>3 DEF ServedThrough
    <3> QED
      BY <1>2, <2>1, <2>3, <3>1 DEF FileSound
  <2>4. CASE ~st.feed.haveFinal
    BY <1>2, <2>4 DEF FileSound
  <2> QED
    BY <2>2, <2>3, <2>4
<1>7. FinalSound(u)
  <2>1. u.feed.haveValue =>
          /\ u.feed.haveLast
          /\ u.feed.lastRound \in Nat /\ u.feed.lastRound <= u.feed.lastFinalized
          /\ u.feed.lastRound \in DOMAIN u.rounds =>
               /\ u.rounds[u.feed.lastRound].status = "aggregated" \/ u.rounds[u.feed.lastRound].tier = "void"
               /\ u.rounds[u.feed.lastRound].tier = u.feed.lastTier
               /\ u.rounds[u.feed.lastRound].value = u.feed.lastValue
    BY RewrittenServed
  <2> QED
    BY <1>4, <1>5, <1>6, <2>1 DEF FinalSound
<1> QED
  BY <1>1, <1>7 DEF Finals

\* What the other fields of the feed say of the final value stays.
LEMMA RewrittenFile ==
  ASSUME NEW st, NEW u, NEW t, NEW id \in DOMAIN st.rounds, SameCursors(u.feed, st.feed),
         \A k \in DOMAIN st.rounds \ {id} : u.rounds[k] = st.rounds[k], DOMAIN u.rounds = DOMAIN st.rounds,
         ServedThrough(u.feed, st.feed, id, st.rounds[id], u.rounds[id]),
         Clear(u, t) = {} => Clear(st, t) = {}, ~(st.feed.haveFinal /\ st.feed.finalRound = id)
  PROVE  OnFile(u.feed) = OnFile(st.feed) /\ (Wavers(u, t) => Wavers(st, t))
<1>1. /\ u.feed.haveFinal = st.feed.haveFinal /\ u.feed.finalRound = st.feed.finalRound
      /\ u.feed.finalValue = st.feed.finalValue /\ u.feed.disputeWindow = st.feed.disputeWindow
      /\ u.feed.haveLast = st.feed.haveLast /\ u.feed.reopened = st.feed.reopened
  BY DEF ServedThrough, SameCursors
<1>2. OnFile(u.feed) = OnFile(st.feed)
  BY <1>1 DEF OnFile
<1>3. (st.feed.haveFinal /\ st.feed.finalRound \in DOMAIN u.rounds) =>
        st.feed.finalRound \in DOMAIN st.rounds /\ u.rounds[st.feed.finalRound] = st.rounds[st.feed.finalRound]
  OBVIOUS
<1>4. Wavers(u, t) => Wavers(st, t)
  BY <1>1, <1>3, DoubtKept
<1> QED
  BY <1>2, <1>4

\* A dispute opens: the round it is about was held back by its window, and is by its tier.
LEMMA OpensUnmoved ==
  ASSUME NEW st, NEW u, NEW id, NEW d, Finals(st, now), OnRecord(u), Opens(u, st, id, d)
  PROVE  Unmoved(u, st, now)
<1> DEFINE n == Len(st.disputes) + 1
           old == st.rounds[id]
           rd == [old EXCEPT !.disputeID = n, !.tier = "disputed"]
<1>1. OnRecord(st) /\ Dated(st) /\ now \in Nat
  BY DEF Finals
<1>2. /\ id \in DOMAIN st.rounds /\ old.status = "aggregated" /\ d.round = id /\ d.status = "open"
      /\ now < old.finalisedAt + st.feed.disputeWindow
      /\ SameCursors(u.feed, st.feed) /\ u.disputes = Append(st.disputes, d)
      /\ ServedThrough(u.feed, st.feed, id, old, rd)
  BY DEF Opens
<1>3. DOMAIN u.rounds = DOMAIN st.rounds /\ u.rounds[id] = rd /\ \A k \in DOMAIN st.rounds \ {id} : u.rounds[k] = st.rounds[k]
  BY <1>2 DEF Opens
<1>4. /\ rd.status = old.status /\ rd.tier = "disputed" /\ rd.value = old.value /\ rd.disputeID = n
      /\ rd.finalisedAt = old.finalisedAt
  <2>1. DOMAIN old = RoundFields
    BY ONLY <1>1, <1>2 DEF OnRecord, RoundsSound
  <2> QED
    BY ONLY <2>1 DEF RoundFields, FreshRound
<1> HIDE DEF rd
<1>5. HeldBack(old, st.feed.disputeWindow, now) /\ HeldBack(rd, st.feed.disputeWindow, now)
  BY <1>1, <1>2, <1>4 DEF HeldBack, Dated
<1>6. /\ Len(st.disputes) \in Nat /\ DOMAIN st.disputes = 1 .. Len(st.disputes)
      /\ Len(u.disputes) = n /\ u.disputes[n] = d /\ n \in DOMAIN u.disputes
      /\ \A i \in DOMAIN st.disputes : u.disputes[i] = st.disputes[i] /\ i \in DOMAIN u.disputes
  <2>1. IsSequence(st.disputes) /\ IsSequence(u.disputes)
    BY <1>1 DEF OnRecord, DisputesSound
  <2>2. Len(st.disputes) \in Nat /\ DOMAIN st.disputes = 1 .. Len(st.disputes)
    BY <2>1, SequenceDomain
  <2>3. Len(u.disputes) \in Nat /\ DOMAIN u.disputes = 1 .. Len(u.disputes)
    BY <2>1, SequenceDomain
  <2>4. /\ DOMAIN u.disputes = DOMAIN st.disputes \cup {n} /\ u.disputes[n] = d
        /\ \A i \in DOMAIN st.disputes : u.disputes[i] = st.disputes[i]
    BY <1>2, <2>1, Appended
  <2>5. Len(u.disputes) = n
    <3> DEFINE l == Len(u.disputes)
    <3>1. 1 .. l = (1 .. (n - 1)) \cup {n} /\ l \in Nat /\ n \in Nat
      BY <2>2, <2>3, <2>4
    <3> HIDE DEF l, n
    <3>2. n \in 1 .. l
      BY <3>1
    <3>3. l \in 1 .. l
      BY <3>1, <3>2
    <3>4. l \in 1 .. (n - 1) \/ l = n
      BY <3>1, <3>3
    <3>5. l = n
      BY <3>1, <3>2, <3>4
    <3> QED
      BY <3>5 DEF l
  <2> QED
    BY <2>2, <2>4, <2>5
<1> HIDE DEF n
<1>7. n \in Nat /\ n = Len(st.disputes) + 1
  BY <1>6 DEF n
<1>8. Dated(u)
  <2>1. u.feed.disputeWindow = st.feed.disputeWindow
    BY <1>2 DEF ServedThrough
  <2>2. u.rounds[id].finalisedAt \in Nat /\ u.rounds[id].disputeID = n /\ u.disputes[n].round = id
    BY <1>1, <1>2, <1>3, <1>4, <1>6 DEF Dated
  <2>3. ASSUME NEW k \in DOMAIN st.rounds \ {id}
        PROVE  /\ u.rounds[k].finalisedAt \in Nat
               /\ u.rounds[k].disputeID \in 0 .. n
               /\ u.rounds[k].disputeID \in Running(u) => u.disputes[u.rounds[k].disputeID].round = k
    <3>1. /\ st.rounds[k].finalisedAt \in Nat
          /\ st.rounds[k].disputeID \in 0 .. Len(st.disputes)
          /\ st.rounds[k].disputeID \in Running(st) => st.disputes[st.rounds[k].disputeID].round = k
      BY <1>1 DEF Dated
    <3> DEFINE i == st.rounds[k].disputeID
    <3>2. u.rounds[k] = st.rounds[k]
      BY <1>3
    <3>3. i \in Running(u) => i \in DOMAIN st.disputes /\ u.disputes[i] = st.disputes[i] /\ i \in Running(st)
      <4>1. i \in Running(u) => i \in DOMAIN u.disputes
        BY DEF Running
      <4>2. i \in 0 .. Len(st.disputes) /\ 0 \notin DOMAIN u.disputes
        <5>1. DOMAIN u.disputes = DOMAIN st.disputes \cup {n}
          <6>1. IsSequence(st.disputes) /\ u.disputes = Append(st.disputes, d)
            BY ONLY <1>1, <1>2 DEF OnRecord, DisputesSound
          <6> QED
            BY ONLY <6>1, Appended DEF n
        <5> QED
          BY <1>6, <1>7, <3>1, <5>1
      <4>3. i \in Running(u) => i \in DOMAIN st.disputes
        BY <1>6, <4>1, <4>2
      <4> HIDE DEF i
      <4> QED
        BY <1>6, <4>3 DEF Running
    <3> QED
      BY <1>6, <1>7, <3>1, <3>2, <3>3
  <2>4. n \in 0 .. n
    BY <1>7
  <2> QED
    BY <1>1, <1>3, <1>6, <2>1, <2>2, <2>3, <2>4 DEF Dated
<1>9. Finals(u, now)
  BY <1>2, <1>3, <1>4, <1>8, RewrittenFinals
<1>10. Listed(u) = Listed(st)
  BY <1>2, <1>3, <1>4 DEF Listed, SameCursors
<1>11. Contested(u, now) = Contested(st, now)
  <2>1. u.feed.disputeWindow = st.feed.disputeWindow
    BY <1>2 DEF ServedThrough
  <2>2. \A k \in Listed(st) : HeldBack(u.rounds[k], u.feed.disputeWindow, now) <=> HeldBack(st.rounds[k], st.feed.disputeWindow, now)
    BY <1>3, <1>5, <2>1 DEF Listed
  <2> QED
    BY <1>10, <2>2 DEF Contested
<1>12. \A k \in Listed(st) : u.rounds[k].value = st.rounds[k].value
  BY <1>3, <1>4 DEF Listed
<1>13. Clear(u, now) = Clear(st, now)
  BY <1>10, <1>11 DEF Clear
<1>14. OnFile(u.feed) = OnFile(st.feed) /\ (Wavers(u, now) => Wavers(st, now))
  <2>1. CASE st.feed.haveFinal /\ st.feed.finalRound = id
    <3>1. Uncertain(st, now)
      BY <1>2, <1>5, <2>1 DEF Uncertain
    <3>2. u.feed.haveFinal = st.feed.haveFinal /\ u.feed.finalRound = id /\ u.feed.finalValue = st.feed.finalValue
      BY <1>2, <1>4, <2>1 DEF ServedThrough
    <3> QED
      BY <1>13, <2>1, <3>1, <3>2 DEF Wavers, Uncertain, OnFile
  <2>2. CASE ~(st.feed.haveFinal /\ st.feed.finalRound = id)
    BY <1>2, <1>3, <1>13, <2>2, RewrittenFile
  <2> QED
    BY <2>1, <2>2
<1>15. Face(u, now) = Face(st, now)
  BY <1>1, <1>9, <1>10, <1>11, <1>12, <1>14, SameFace
<1> QED
  BY <1>2, <1>9, <1>14, <1>15 DEF Unmoved, ServedThrough

\* A dispute goes on: nothing of its round changes.
LEMMA AmendsUnmoved ==
  ASSUME NEW st, NEW u, NEW n, NEW e, NEW t, Finals(st, t), OnRecord(u), Amends(u, st, n, e)
  PROVE  Unmoved(u, st, t)
<1>1. OnRecord(st) /\ Dated(st) /\ FinalSound(st) /\ t \in Nat
  BY DEF Finals
<1>2. /\ u.feed = st.feed /\ u.rounds = st.rounds /\ n \in Running(st) /\ n \in DOMAIN st.disputes
      /\ e.round = st.disputes[n].round /\ e.status # "resolved" /\ u.disputes = [st.disputes EXCEPT ![n] = e]
  BY DEF Amends, Running
<1>3. /\ DOMAIN u.disputes = DOMAIN st.disputes /\ Len(u.disputes) = Len(st.disputes) /\ u.disputes[n] = e
      /\ \A i \in DOMAIN st.disputes \ {n} : u.disputes[i] = st.disputes[i]
  <2>1. IsSequence(st.disputes) /\ IsSequence(u.disputes)
    BY <1>1 DEF OnRecord, DisputesSound
  <2>2. /\ DOMAIN u.disputes = DOMAIN st.disputes /\ u.disputes[n] = e
        /\ \A i \in DOMAIN st.disputes \ {n} : u.disputes[i] = st.disputes[i]
    BY <1>2, <2>1, Amended
  <2>3. Len(st.disputes) \in Nat /\ DOMAIN st.disputes = 1 .. Len(st.disputes)
    BY <2>1, SequenceDomain
  <2>4. Len(u.disputes) \in Nat /\ DOMAIN u.disputes = 1 .. Len(u.disputes)
    BY <2>1, SequenceDomain
  <2> QED
    BY <2>2, <2>3, <2>4
<1>4. Running(u) = Running(st) /\ \A i \in Running(st) : u.disputes[i].round = st.disputes[i].round
  BY <1>2, <1>3 DEF Running
<1>5. Dated(u)
  BY <1>1, <1>2, <1>3, <1>4 DEF Dated
<1>6. FinalSound(u)
  BY <1>1, <1>2 DEF FinalSound, FileSound, Neglected
<1>7. Listed(u) = Listed(st) /\ Contested(u, t) = Contested(st, t) /\ OnFile(u.feed) = OnFile(st.feed)
  BY <1>2 DEF Listed, Contested, OnFile
<1>8. Face(u, t) = Face(st, t)
  BY <1>1, <1>2, <1>7, SameFace
<1>9. Wavers(u, t) => Wavers(st, t)
  BY <1>2, <1>7 DEF Wavers, Uncertain, Clear
<1> QED
  BY <1>1, <1>2, <1>5, <1>6, <1>8, <1>9 DEF Unmoved, Finals

\* A dispute ends: its round keeps its value, has another, or is void.
LEMMA EndsMoves ==
  ASSUME NEW st, NEW u, NEW n, NEW e, NEW rd, Finals(st, now), OnRecord(u), Ends(u, st, n, e, rd)
  PROVE  Moved(u, st, now)
<1> DEFINE id == st.disputes[n].round
           old == st.rounds[id]
<1>1. OnRecord(st) /\ Dated(st) /\ now \in Nat
  BY DEF Finals
<1>2. /\ n \in Running(st) /\ n \in DOMAIN st.disputes
      /\ u.disputes = [st.disputes EXCEPT ![n] = e] /\ e.status = "resolved"
      /\ SameCursors(u.feed, st.feed) /\ ServedThrough(u.feed, st.feed, id, old, rd)
  BY DEF Ends, Running
<1>3. id \in DOMAIN st.rounds /\ old.disputeID = n /\ old.status = "aggregated" /\ old.tier = "disputed"
  BY <1>1, <1>2 DEF OnRecord, DisputesSound
<1>4. DOMAIN u.rounds = DOMAIN st.rounds /\ u.rounds[id] = rd /\ \A k \in DOMAIN st.rounds \ {id} : u.rounds[k] = st.rounds[k]
  BY <1>3 DEF Ends
<1>5. /\ rd.status \in {"aggregated", "void"} /\ (rd.status = "void" => rd.tier = "void")
      /\ rd.tier # "disputed" /\ rd.disputeID = old.disputeID
      /\ rd.finalisedAt \in {old.finalisedAt, now}
  BY DEF Ends, Ruled
<1> HIDE DEF id, old
<1>6. HeldBack(old, st.feed.disputeWindow, now)
  BY <1>3 DEF HeldBack
<1>7. /\ DOMAIN u.disputes = DOMAIN st.disputes /\ Len(u.disputes) = Len(st.disputes) /\ u.disputes[n] = e
      /\ \A i \in DOMAIN st.disputes \ {n} : u.disputes[i] = st.disputes[i]
  <2>1. IsSequence(st.disputes) /\ IsSequence(u.disputes)
    BY <1>1 DEF OnRecord, DisputesSound
  <2>2. /\ DOMAIN u.disputes = DOMAIN st.disputes /\ u.disputes[n] = e
        /\ \A i \in DOMAIN st.disputes \ {n} : u.disputes[i] = st.disputes[i]
    BY <1>2, <2>1, Amended
  <2>3. Len(st.disputes) \in Nat /\ DOMAIN st.disputes = 1 .. Len(st.disputes)
    BY <2>1, SequenceDomain
  <2>4. Len(u.disputes) \in Nat /\ DOMAIN u.disputes = 1 .. Len(u.disputes)
    BY <2>1, SequenceDomain
  <2> QED
    BY <2>2, <2>3, <2>4
<1>8. Running(u) = Running(st) \ {n} /\ \A i \in Running(u) : u.disputes[i] = st.disputes[i]
  BY <1>2, <1>7 DEF Running
<1>9. Dated(u)
  <2>1. u.feed.disputeWindow = st.feed.disputeWindow
    BY <1>2 DEF ServedThrough
  <2>2. old.finalisedAt \in Nat /\ old.disputeID \in 0 .. Len(st.disputes)
    BY <1>1, <1>3 DEF Dated, old
  <2>3. u.rounds[id].finalisedAt \in Nat /\ u.rounds[id].disputeID \in 0 .. Len(u.disputes) /\ u.rounds[id].disputeID \notin Running(u)
    BY <1>1, <1>3, <1>4, <1>5, <1>7, <1>8, <2>2
  <2>4. ASSUME NEW k \in DOMAIN st.rounds \ {id}
        PROVE  /\ u.rounds[k].finalisedAt \in Nat
               /\ u.rounds[k].disputeID \in 0 .. Len(u.disputes)
               /\ u.rounds[k].disputeID \in Running(u) => u.disputes[u.rounds[k].disputeID].round = k
    <3>1. u.rounds[k] = st.rounds[k]
      BY ONLY <1>4, <2>4
    <3>2. /\ st.rounds[k].finalisedAt \in Nat /\ st.rounds[k].disputeID \in 0 .. Len(st.disputes)
          /\ st.rounds[k].disputeID \in Running(st) => st.disputes[st.rounds[k].disputeID].round = k
      BY ONLY <1>1, <2>4 DEF Dated
    <3> QED
      BY ONLY <1>7, <1>8, <3>1, <3>2
  <2> QED
    BY <1>1, <1>4, <2>1, <2>3, <2>4 DEF Dated
<1>10. /\ HeldBack(st.rounds[id], st.feed.disputeWindow, now) /\ st.rounds[id].status = "aggregated"
       /\ u.rounds[id].status \in {"aggregated", "void"} /\ (u.rounds[id].status = "void" => u.rounds[id].tier = "void")
       /\ ServedThrough(u.feed, st.feed, id, st.rounds[id], u.rounds[id])
  BY <1>2, <1>3, <1>4, <1>5, <1>6 DEF old
<1>11. Finals(u, now)
  BY <1>2, <1>3, <1>4, <1>9, <1>10, RewrittenFinals
<1>12. ASSUME Clear(u, now) = {} => Clear(st, now) = {}, ~(st.feed.haveFinal /\ st.feed.finalRound = id)
       PROVE  OnFile(u.feed) = OnFile(st.feed) /\ (Wavers(u, now) => Wavers(st, now))
  BY <1>2, <1>3, <1>4, <1>10, <1>12, RewrittenFile
<1>13. ASSUME Clear(u, now) = {} => Clear(st, now) = {}, ~(st.feed.haveFinal /\ st.feed.finalRound = id),
              Moves(Face(u, now), Face(st, now), u.rounds)
       PROVE  Moved(u, st, now)
  <2>1. OnFile(u.feed) = OnFile(st.feed) /\ (Wavers(u, now) => Wavers(st, now))
    BY <1>13, <1>12
  <2>2. u.feed.disputeWindow = st.feed.disputeWindow
    BY <1>2 DEF ServedThrough
  <2>3. Turns(u, now, st, now)
    BY <1>1, <1>13, <2>1, <2>2, MovesTurn
  <2> QED
    BY <1>11, <2>3 DEF Moved
<1>14. u.feed.disputeWindow = st.feed.disputeWindow /\ u.feed.finalCursor = st.feed.finalCursor
  BY <1>2 DEF ServedThrough, SameCursors
<1>15. \A k \in Listed(st) \ {id} : u.rounds[k] = st.rounds[k]
  BY <1>4 DEF Listed
<1>16. Listed(u) \ {id} = Listed(st) \ {id} /\ Contested(u, now) \ {id} = Contested(st, now) \ {id}
  BY <1>4, <1>14, <1>15 DEF Listed, Contested
<1>17. CASE id \notin Listed(st)
  <2>1. id \notin Listed(u)
    BY <1>3, <1>10, <1>14, <1>17 DEF Listed
  <2>2. Listed(u) = Listed(st) /\ Contested(u, now) = Contested(st, now)
    BY <1>16, <1>17, <2>1 DEF Contested
  <2>3. Clear(u, now) = Clear(st, now) /\ \A k \in Listed(st) : u.rounds[k].value = st.rounds[k].value
    BY <1>15, <1>17, <2>2 DEF Clear
  <2>4. CASE ~(st.feed.haveFinal /\ st.feed.finalRound = id)
    <3>1. Clear(u, now) = {} => Clear(st, now) = {}
      BY <2>3
    <3>2. OnFile(u.feed) = OnFile(st.feed)
      BY <1>12, <2>4, <3>1
    <3>3. Face(u, now) = Face(st, now)
      BY <1>1, <2>2, <2>3, <3>2, SameFace
    <3> QED
      BY <1>13, <2>4, <3>1, <3>3 DEF Moves
  <2>5. CASE st.feed.haveFinal /\ st.feed.finalRound = id
    <3>1. u.feed.haveFinal = st.feed.haveFinal /\ u.feed.finalRound = st.feed.finalRound
      BY <1>10 DEF ServedThrough
    <3>2. \/ u.rounds[id].status = "aggregated" /\ u.feed.finalValue = u.rounds[id].value
          \/ u.feed.finalValue = st.feed.finalValue
      BY <1>10, <2>5 DEF ServedThrough
    <3>3. Uncertain(st, now)
      BY <1>3, <1>10, <2>5 DEF Uncertain
    <3>4. CASE Clear(st, now) = {} /\ u.feed.finalValue # st.feed.finalValue
      <4>1. Overrules(Face(u, now), Face(st, now), u.rounds)
        BY <1>1, <1>3, <1>4, <2>2, <2>3, <2>5, <3>1, <3>2, <3>4, FaceOverrules
      <4>2. Wavers(st, now)
        BY <3>3, <3>4 DEF Wavers
      <4> QED
        BY <1>11, <1>14, <4>1, <4>2 DEF Moved, Turns
    <3>5. CASE ~(Clear(st, now) = {} /\ u.feed.finalValue # st.feed.finalValue)
      <4>1. Clear(st, now) = {} => OnFile(u.feed) = OnFile(st.feed)
        BY <3>1, <3>5 DEF OnFile
      <4>2. Face(u, now) = Face(st, now)
        BY <1>1, <2>2, <2>3, <4>1, SameFace
      <4>3. Wavers(u, now) => Wavers(st, now)
        BY <2>3, <3>3 DEF Wavers
      <4>4. Unmoved(u, st, now)
        BY <1>11, <1>14, <4>2, <4>3 DEF Unmoved
      <4> QED
        BY <4>4, UnmovedMoves
    <3> QED
      BY <3>4, <3>5
  <2> QED
    BY <2>4, <2>5
<1>18. CASE id \in Listed(st)
  <2>1. ~(st.feed.haveFinal /\ st.feed.finalRound = id)
    BY <1>1, <1>18 DEF Finals, FinalSound, FileSound, Listed, OnRecord, Cursors
  <2>2. st.feed.haveFinal => st.feed.finalRound # id
    BY <2>1
  <2>3. OnFile(u.feed) = OnFile(st.feed)
    BY <1>2, <1>4, <2>2 DEF ServedThrough, OnFile
  <2>4. id \in Contested(st, now)
    BY <1>10, <1>18 DEF Contested
  <2>5. CASE rd.status = "void"
    <3>1. Listed(u) = Listed(st) \ {id} /\ Contested(u, now) = Contested(st, now) \ {id}
      BY <1>4, <1>16, <2>5 DEF Listed, Contested
    <3>2. Withdraws(Face(u, now), Face(st, now))
      BY <1>1, <1>11, <1>15, <2>4, <2>3, <3>1, FaceWithdraws DEF Finals
    <3>3. Clear(st, now) \subseteq Clear(u, now)
      <4>1. id \notin Clear(st, now)
        BY <1>1, <2>4, ClearFirst
      <4> QED
        BY <3>1, <4>1 DEF Clear, Before
    <3> QED
      BY <1>13, <2>1, <3>2, <3>3 DEF Moves
  <2>6. CASE rd.status = "aggregated"
    <3>1. id \in Listed(u)
      BY <1>4, <1>14, <1>18, <2>6 DEF Listed
    <3>2. Listed(u) = Listed(st) /\ Contested(u, now) \in {Contested(st, now), Contested(st, now) \ {id}}
      BY <1>16, <1>18, <2>4, <3>1
    <3>3. Revises(Face(u, now), Face(st, now), u.rounds)
      BY <1>1, <1>4, <1>11, <1>15, <2>4, <2>6, <2>3, <3>2, FaceRevises DEF Finals
    <3>4. Clear(st, now) \subseteq Clear(u, now)
      BY <3>2 DEF Clear, Before
    <3> QED
      BY <1>13, <2>1, <3>3, <3>4 DEF Moves
  <2> QED
    BY <1>5, <2>5, <2>6
<1> QED
  BY <1>17, <1>18

-----------------------------------------------------------------------------
(* Windows pass, and governance changes them. *)

LEMMA WindowChanged ==
  ASSUME NEW st, NEW u, NEW t, NEW s \in Nat, Finals(st, t), t <= s, OnRecord(u),
         u.rounds = st.rounds, u.disputes = st.disputes,
         SameServed([u.feed EXCEPT !.disputeWindow = st.feed.disputeWindow], st.feed), DOMAIN u.feed = FeedFields,
         u.feed.haveLast = st.feed.haveLast, u.feed.lastFinalized = st.feed.lastFinalized,
         u.feed.reopened = st.feed.reopened,
         u.feed.disputeWindow \in Nat \ {0}, u.feed.disputeWindow <= st.feed.disputeWindow \/ s = t
  PROVE  Finals(u, s) /\ Turns(u, s, st, t)
<1>1. OnRecord(st) /\ Dated(st) /\ FinalSound(st) /\ t \in Nat
  BY DEF Finals
<1>2. /\ u.feed.haveFinal = st.feed.haveFinal /\ u.feed.finalValue = st.feed.finalValue
      /\ u.feed.finalRound = st.feed.finalRound /\ u.feed.finalCursor = st.feed.finalCursor
      /\ u.feed.haveValue = st.feed.haveValue /\ u.feed.lastValue = st.feed.lastValue
      /\ u.feed.lastTier = st.feed.lastTier /\ u.feed.lastRound = st.feed.lastRound
  BY DEF SameServed, FeedFields, NoFeed
<1>3. Running(u) = Running(st)
  BY DEF Running
<1>4. Dated(u)
  BY <1>1, <1>3 DEF Dated
<1>5. Neglected(u) <=> Neglected(st)
  BY <1>2 DEF Neglected
<1>6. FinalSound(u)
  <2>1. FileSound(u)
    BY <1>1, <1>2 DEF FinalSound, FileSound
  <2>2. u.feed.finalCursor <= NextRound(u.feed.haveLast, u.feed.lastFinalized) \/ Neglected(u)
    BY <1>1, <1>2, <1>5 DEF FinalSound
  <2> QED
    BY <1>1, <1>2, <1>5, <2>1, <2>2 DEF FinalSound
<1>7. Listed(u) = Listed(st)
  BY <1>2 DEF Listed
<1>8. OnFile(u.feed) = OnFile(st.feed)
  BY <1>2 DEF OnFile
<1>9. st.feed.disputeWindow \in Nat /\ \A id \in DOMAIN st.rounds : st.rounds[id].finalisedAt \in Nat
  BY <1>1 DEF Dated
<1>10. CASE u.feed.disputeWindow <= st.feed.disputeWindow
  <2>1. \A id \in DOMAIN st.rounds : HeldBack(u.rounds[id], u.feed.disputeWindow, s) =>
                                     HeldBack(st.rounds[id], st.feed.disputeWindow, t)
    BY <1>1, <1>9, <1>10 DEF HeldBack
  <2>2. Contested(u, s) \subseteq Contested(st, t)
    BY <1>7, <2>1 DEF Contested, Listed
  <2>3. Settles(Face(u, s), Face(st, t))
    BY <1>1, <1>7, <1>8, <2>2, FaceSettles
  <2>4. Clear(u, s) = {} => Clear(st, t) = {}
    BY <1>7, <2>2 DEF Clear, Before
  <2>5. Wavers(u, s) => Wavers(st, t)
    BY <1>2, <2>1, <2>4, DoubtKept
  <2>6. Wavers(u, s) => Wavers(st, t) /\ Face(u, s).final = Face(st, t).final
    BY <1>8, <2>5, DoubtedFinal
  <2> QED
    BY <1>4, <1>6, <1>10, <2>3, <2>6 DEF Turns, Moves, Finals
<1>11. CASE u.feed.disputeWindow > st.feed.disputeWindow
  <2>1. s = t
    BY <1>9, <1>11
  <2>2. \A id \in DOMAIN st.rounds : HeldBack(st.rounds[id], st.feed.disputeWindow, t) =>
                                     HeldBack(u.rounds[id], u.feed.disputeWindow, t)
    BY <1>1, <1>9, <1>11 DEF HeldBack
  <2>3. Contested(st, t) \subseteq Contested(u, t)
    BY <1>7, <2>2 DEF Contested, Listed
  <2>4. st.feed.haveFinal => st.feed.finalRound \in Nat /\ st.feed.finalRound < st.feed.finalCursor
    BY <1>1 DEF FinalSound, FileSound
  <2>5. Widens(Face(u, t), Face(st, t))
    BY <1>1, <1>7, <1>8, <2>3, <2>4, FaceWidens
  <2> QED
    BY <1>4, <1>6, <1>11, <2>1, <2>5 DEF Turns, Finals
<1> QED
  BY <1>9, <1>10, <1>11

\* The feed with the economics governance gives it.
Repriced(st, a, b, c, d, e, f, g) ==
  [st EXCEPT !.feed.subscriberPrice = a, !.feed.subscriptionPrice = b, !.feed.providerMinStake = c,
             !.feed.toleranceBps = d, !.feed.quarantineBps = e, !.feed.disputeWindow = f,
             !.feed.drip = g]

LEMMA RepricedServes ==
  ASSUME NEW st, NEW a, NEW b, NEW c, NEW d, NEW e, NEW f, NEW g, Framed(st)
  PROVE  /\ Repriced(st, a, b, c, d, e, f, g).feed.disputeWindow = f
         /\ DOMAIN Repriced(st, a, b, c, d, e, f, g).feed = FeedFields
         /\ SameServed([Repriced(st, a, b, c, d, e, f, g).feed EXCEPT !.disputeWindow = st.feed.disputeWindow], st.feed)
         /\ SameRounds(Repriced(st, a, b, c, d, e, f, g), st)
<1> DEFINE u == Repriced(st, a, b, c, d, e, f, g)
           h == [st.feed EXCEPT
            !.subscriberPrice = a, !.subscriptionPrice = b, !.providerMinStake = c,
            !.toleranceBps = d, !.quarantineBps = e, !.disputeWindow = f, !.drip = g]
<1>1. SameRounds(u, st)
  BY RepricedLeaves DEF Repriced
<1>2. u.feed = h
  BY DEF Framed, Tables, Repriced
<1>3. /\ DOMAIN h = FeedFields /\ h.disputeWindow = f
      /\ h.haveFinal = st.feed.haveFinal /\ h.finalValue = st.feed.finalValue
      /\ h.finalRound = st.feed.finalRound /\ h.finalCursor = st.feed.finalCursor
  BY DEF Framed, FeedFields, NoFeed
<1>4. /\ h.haveValue = st.feed.haveValue /\ h.lastValue = st.feed.lastValue
      /\ h.lastTier = st.feed.lastTier /\ h.lastRound = st.feed.lastRound
  BY DEF Framed, FeedFields, NoFeed
<1> HIDE DEF h, u
<1>5. SameServed([h EXCEPT !.disputeWindow = st.feed.disputeWindow], st.feed)
  BY <1>3, <1>4 DEF SameServed, FeedFields, NoFeed
<1>6. /\ u.feed.disputeWindow = f /\ DOMAIN u.feed = FeedFields
      /\ SameServed([u.feed EXCEPT !.disputeWindow = st.feed.disputeWindow], st.feed)
  BY ONLY <1>2, <1>3, <1>5
<1> QED
  BY <1>1, <1>6 DEF u

-----------------------------------------------------------------------------
(* The actions. *)

Finalising == Finals(Store, now)

\* A step turns the tables as FinalFeed may.
FaceMoved == Turns(Store', now', Store, now)

LEMMA FinalisingRecords ==
  ASSUME Finalising
  PROVE  Recording
BY DEF Finalising, Finals, Recording

LEMMA MoveCommitted ==
  ASSUME Finalising, NEW st, Moved(st, Store, now), Commit(st)
  PROVE  Finalising' /\ FaceMoved
<1> DEFINE t == Store'
<1>1. /\ DOMAIN t = Tables
      /\ t.feed = st.feed /\ t.rounds = st.rounds /\ t.disputes = st.disputes /\ t.slotlog = st.slotlog
      /\ now' = now /\ rounds' = st.rounds
  BY DEF Store, Commit, Tables
<1> HIDE DEF t
<1>2. OnRecord(st)
  BY DEF Moved, Finals
<1>3. SameRecord(t, st)
  BY <1>1, <1>2 DEF SameRecord, SameRounds, SameServed, OnRecord, Framed
<1>4. Moved(t, Store, now)
  BY <1>3, MovedThenSame
<1>5. Finals(t, now) /\ Turns(t, now, Store, now)
  BY <1>4 DEF Moved
<1>6. Finals(Store, now)' <=> Finals(t, now)
  BY <1>1 DEF t
<1> QED
  BY <1>1, <1>5, <1>6 DEF Finalising, FaceMoved, t

LEMMA MoveCommittedOver ==
  ASSUME Finalising, NEW t, NEW s, Commit(t), SameRecord(s, Store), Finals(s, now) => Moved(t, s, now)
  PROVE  Finalising' /\ FaceMoved
<1>1. Unmoved(s, Store, now)
  BY SameUnmoved DEF Finalising
<1>2. Moved(t, Store, now)
  BY <1>1, UnmovedThenMoved DEF Unmoved
<1> QED
  BY <1>2, MoveCommitted

LEMMA QuietMoves ==
  ASSUME Finalising, Quiet
  PROVE  Finalising' /\ FaceMoved
<1>1. PICK t : SameRecord(t, Store) /\ Commit(t)
  BY DEF Quiet
<1>2. Moved(t, Store, now)
  BY <1>1, SameUnmoved, UnmovedMoves DEF Finalising
<1> QED
  BY <1>1, <1>2, MoveCommitted

LEMMA SubmitMoves ==
  ASSUME Finalising, NEW p \in Providers, NEW id \in OpenedRounds, NEW v, Submit(p, id, v)
  PROVE  Finalising' /\ FaceMoved
<1> DEFINE rd == GetRound(Store, id)
           s == providers[p].slot
           subs == [x \in DOMAIN rd.subs \cup {s} |-> IF x = s THEN v ELSE rd.subs[x]]
           answered == [rd EXCEPT !.subs = subs]
           submitted == PutRound(Store, id, answered)
<1>1. Commit(IF AllSubmitted(submitted, id) /\ IsNext(id) THEN Finalise(submitted, id) ELSE submitted)
  BY DEF Submit, Submitted, Answered, Completes
<1>2. /\ feed.haveLast => id > feed.lastFinalized
      /\ rd.status = "open"
      /\ Exists(Sched(feed), id, now)
  BY DEF Submit, MaySubmit, MayAnswer
<1>3. Recording
  BY FinalisingRecords
<1>4. id \in Nat /\ (~Recurs => id = 0)
  <2>1. id \in Nat
    BY DEF OpenedRounds
  <2> QED
    BY <1>2, <2>1, OneOffSchedule DEF Exists
<1>5. id >= NextRound(Store.feed.haveLast, Store.feed.lastFinalized)
  BY <1>3, <1>2, <1>4, StoreOnRecord DEF NextRound, OnRecord, Cursors
<1>6. /\ DOMAIN answered = RoundFields /\ answered.status = "open" /\ answered.tier = rd.tier
      /\ answered.disputeID = rd.disputeID /\ answered.finalisedAt = rd.finalisedAt
  <2>1. DOMAIN rd = RoundFields
    BY <1>3, StoreOnRecord DEF GetRound, OnRecord, RoundsSound, RoundFields
  <2> HIDE DEF rd, subs
  <2> QED
    BY <1>2, <2>1 DEF RoundFields, FreshRound
<1> HIDE DEF answered, subs
<1>7. Unmoved(submitted, Store, now)
  BY <1>4, <1>5, <1>6, OpenPutUnmoved DEF Finalising
<1>8. submitted.feed = feed
  BY DEF PutRound, Store
<1> HIDE DEF submitted, rd
<1>9. IsNext(id) => IsNextOf(submitted, id)
  BY <1>4, <1>8 DEF IsNext, IsNextOf
<1>10. IsNext(id) => Moved(Finalise(submitted, id), Store, now)
  BY <1>7, <1>9, FinaliseMoves, UnmovedThenMoved DEF Unmoved
<1>11. Moved(submitted, Store, now)
  BY <1>7, UnmovedMoves
<1> QED
  BY <1>1, <1>10, <1>11, MoveCommitted

LEMMA RoundOpsMove ==
  ASSUME Finalising, RoundOps
  PROVE  Finalising' /\ FaceMoved
<1>1. Recording
  BY FinalisingRecords
<1>2. feed.lastFinalized \in Nat
  BY <1>1, StoreOnRecord DEF OnRecord, Cursors
<1>3. ASSUME NEW id, IsNextOf(Store, id), Commit(Finalise(Store, id)) \/ Commit(Skip(Store, id))
      PROVE  Finalising' /\ FaceMoved
  BY <1>3, FinaliseMoves, SkipMoves, MoveCommitted DEF Finalising
<1>4. ASSUME NEW id \in OpenedRounds, Finalize(id)
      PROVE  Finalising' /\ FaceMoved
  <2>1. IsNext(id) /\ Exists(Sched(feed), id, now) /\ Commit(Finalise(Store, id))
    BY <1>4 DEF Finalize
  <2>2. id \in Nat
    BY DEF OpenedRounds
  <2>3. IsNextOf(Store, id)
    BY <1>1, <2>1, <2>2, OneOffSchedule, StoreOnRecord DEF IsNext, IsNextOf, Exists
  <2> QED
    BY <1>3, <2>1, <2>3
<1>5. CASE CatchUp
  <2>1. PICK id \in Finalisable(Sched(feed), feed.haveLast, feed.lastFinalized, now, 1) :
          Commit(IF id \in DOMAIN rounds THEN Finalise(Store, id) ELSE Skip(Store, id))
    BY <1>5 DEF CatchUp
  <2>2. id = NextRound(feed.haveLast, feed.lastFinalized) /\ id \in Nat /\ (~Recurs => id = 0)
    <3>1. NextRound(feed.haveLast, feed.lastFinalized) \in Nat
      BY <1>2 DEF NextRound
    <3> QED
      BY <2>1, <3>1, OneOffSchedule DEF Finalisable
  <2>3. IsNextOf(Store, id)
    BY <1>1, <2>2, StoreOnRecord DEF IsNextOf
  <2> QED
    BY <1>3, <2>1, <2>3
<1> QED
  BY <1>4, <1>5, SubmitMoves DEF RoundOps

LEMMA DisputeOpsMove ==
  ASSUME Finalising, Seating, DisputeOps
  PROVE  Finalising' /\ FaceMoved
<1>1. Recording
  BY FinalisingRecords
<1>2. ASSUME NEW acct, NEW id \in DOMAIN rounds, NEW v, NEW tier, Dispute(acct, id, v, tier)
      PROVE  Finalising' /\ FaceMoved
  <2>1. PICK t, s, d : Commit(t) /\ SameRecord(s, Store) /\ s.feed.status # "pruned" /\ Opens(t, s, id, d)
    BY <1>1, <1>2, DisputeOpens
  <2>2. Finals(s, now) => Moved(t, s, now)
    BY <2>1, DisputeOpened, OpensUnmoved, UnmovedMoves DEF Finals
  <2> QED
    BY <2>1, <2>2, MoveCommittedOver
<1>3. ASSUME NEW acct, NEW n \in DOMAIN disputes, Appeal(acct, n)
      PROVE  Finalising' /\ FaceMoved
  <2>1. PICK t, s, e : Commit(t) /\ SameRecord(s, Store) /\ Amends(t, s, n, e)
    BY <1>1, <1>3, AppealAmends
  <2>2. Finals(s, now) => Moved(t, s, now)
    BY <2>1, DisputeAmended, AmendsUnmoved, UnmovedMoves DEF Finals
  <2> QED
    BY <2>1, <2>2, MoveCommittedOver
<1>4. ASSUME NEW n \in DOMAIN disputes, ResolveDispute(n)
      PROVE  Finalising' /\ FaceMoved
  <2>1. CASE ResolveOpen(n)
    <3>1. PICK t, e : Commit(t) /\ Amends(t, Store, n, e)
      BY <1>1, <2>1, ResolveOpenAmends
    <3>2. Moved(t, Store, now)
      BY <3>1, DisputeAmended, AmendsUnmoved, UnmovedMoves DEF Finals, Finalising
    <3> QED
      BY <3>1, <3>2, MoveCommitted
  <2>2. CASE Applies(n)
    <3>1. PICK t, s, e, rd : Commit(t) /\ SameRecord(s, Store) /\ Ends(t, s, n, e, rd)
      BY <1>1, <2>2, AppliedEnds
    <3>2. Finals(s, now) => Moved(t, s, now)
      BY <3>1, DisputeEnded, EndsMoves DEF Finals
    <3> QED
      BY <3>1, <3>2, MoveCommittedOver
  <2> QED
    BY <1>4, <2>1, <2>2, ResolvingApplies
<1>5. ASSUME NEW resolveAt \in (now + ResolveLead.min) .. (now + ResolveLead.max), ReopenOneOff(resolveAt)
      PROVE  Finalising' /\ FaceMoved
  <2>1. resolveAt \in Nat
    <3>1. ResolveLead.min \in Nat /\ now \in Nat
      BY <1>1, TimesAssumption, StoreOnRecord
    <3> QED
      BY <3>1
  <2>2. OnRecord(FeedResetForReopen(Store, resolveAt))
    BY <1>1, <1>5, <2>1, StoreOnRecord, StoreShaped, ReopenKeepsRecord DEF ReopenOneOff
  <2>3. Moved(FeedResetForReopen(Store, resolveAt), Store, now)
    BY <1>1, <1>5, <2>2, StoreOnRecord, ReopenUnmoved, UnmovedMoves DEF ReopenOneOff, Finalising
  <2> QED
    BY <1>5, <2>3, MoveCommitted DEF ReopenOneOff
<1> QED
  BY <1>2, <1>3, <1>4, <1>5 DEF DisputeOps

\* Governance may make the window shorter or longer.
LEMMA UpdateMoves ==
  ASSUME Finalising, NEW u, UpdateFeed(u)
  PROVE  Finalising' /\ FaceMoved
<1> DEFINE drip == IF Recurs /\ u.subscriptionPrice # feed.subscriptionPrice
                   THEN DripFor(u.subscriptionPrice) ELSE Store.feed.drip
           t == Repriced(Store, u.subscriberPrice, u.subscriptionPrice, u.providerMinStake, u.toleranceBps,
                         u.quarantineBps, u.disputeWindow, drip)
<1>1. Recording
  BY FinalisingRecords
<1>2. Commit(t)
  BY DEF UpdateFeed, Store, Repriced
<1> HIDE DEF drip
<1>3. Framed(Store) /\ OnRecord(Store) /\ Store.feed = feed /\ now \in Nat
  BY <1>1, StoreOnRecord
<1>4. /\ t.feed.disputeWindow = u.disputeWindow /\ DOMAIN t.feed = FeedFields
      /\ SameServed([t.feed EXCEPT !.disputeWindow = Store.feed.disputeWindow], Store.feed)
      /\ SameRounds(t, Store)
  BY ONLY <1>3, RepricedServes
<1> HIDE DEF t
<1>5. u.disputeWindow \in Nat \ {0}
  <2>1. u.disputeWindow \in MinDisputeWindow .. MaxDisputeWindow
    BY DEF UpdateFeed
  <2>2. MinDisputeWindow \in Nat \ {0} /\ MaxDisputeWindow \in Int
    BY WindowsAssumption DEF MaxDisputeWindow, Smaller
  <2> QED
    BY <2>1, <2>2
<1>6. OnRecord(t)
  BY <1>3, <1>4, RoundsKept
<1>7. Moved(t, Store, now)
  <2>1. now <= now
    BY <1>3
  <2>2. /\ t.rounds = Store.rounds /\ t.disputes = Store.disputes
        /\ t.feed.haveLast = Store.feed.haveLast /\ t.feed.lastFinalized = Store.feed.lastFinalized
        /\ t.feed.reopened = Store.feed.reopened
    BY <1>4 DEF SameRounds
  <2> QED
    BY <1>3, <1>4, <1>5, <1>6, <2>1, <2>2, WindowChanged DEF Moved, Finalising
<1> QED
  BY <1>2, <1>7, MoveCommitted

LEMMA FeedOpsMove ==
  ASSUME Finalising, FeedOps
  PROVE  Finalising' /\ FaceMoved
<1>1. Recording
  BY FinalisingRecords
<1>2. CASE FeedLifeOps
  BY <1>1, <1>2, FeedLifeIsQuiet, QuietMoves
<1>3. ASSUME NEW maxRounds \in PruneBatches, PruneRounds(maxRounds)
      PROVE  Finalising' /\ FaceMoved
  <2>1. feed.haveLast /\ Commit(Pruned(FeedPromoteFinal(Store), maxRounds))
    BY <1>3 DEF PruneRounds
  <2> DEFINE st == FeedPromoteFinal(Store)
  <2>2. SameRounds(st, Store)
    BY <1>1, StoreOnRecord, FeedPromoteFinalLeaves
  <2>3. Unmoved(st, Store, now)
    BY PromoteUnmoved DEF Finalising
  <2> HIDE DEF st
  <2>4. st.feed.haveLast
    BY <1>1, <2>1, <2>2, StoreOnRecord DEF SameRounds
  <2>5. maxRounds \in Nat
    BY TimesAssumption
  <2>6. Unmoved(Pruned(st, maxRounds), st, now)
    BY <2>3, <2>4, <2>5, PrunedUnmoved DEF Unmoved
  <2>7. Moved(Pruned(st, maxRounds), Store, now)
    BY <2>3, <2>6, UnmovedChained, UnmovedMoves
  <2> QED
    BY <2>1, <2>7, MoveCommitted DEF st
<1>4. CASE PruneFeed
  <2>1. PICK t : SameRecord(t, Store) /\ Running(t) = {} /\ Commit([t EXCEPT !.feed.status = "pruned", !.slotlog = {}])
    BY <1>1, <1>4, PruneFeedLeaves
  <2>2. Finals(t, now) => Moved([t EXCEPT !.feed.status = "pruned", !.slotlog = {}], t, now)
    BY <2>1, GoneUnmoved, UnmovedMoves
  <2> QED
    BY <2>1, <2>2, MoveCommittedOver
<1> QED
  BY <1>2, <1>3, <1>4, UpdateMoves DEF FeedOps, FeedLifeOps

\* Windows pass with time.
LEMMA TickMoves ==
  ASSUME Finalising, UNCHANGED tables, now' \in {now, now + 1}
  PROVE  Finalising' /\ FaceMoved
<1> DEFINE st == Store
           s == now'
<1>1. Store' = st /\ rounds' = st.rounds
  BY DEF Store, tables
<1>2. Finals(st, now) /\ OnRecord(st) /\ now \in Nat /\ s \in Nat /\ now <= s
  BY DEF Finalising, Finals
<1>3. /\ st.feed.disputeWindow \in Nat \ {0} /\ DOMAIN st.feed = FeedFields
      /\ st.feed.disputeWindow <= st.feed.disputeWindow
  BY <1>2 DEF Finals, Dated, OnRecord, Framed
<1> HIDE DEF st, s
<1>4. SameServed([st.feed EXCEPT !.disputeWindow = st.feed.disputeWindow], st.feed)
  BY <1>3 DEF SameServed, FeedFields, NoFeed
<1>5. Finals(st, s) /\ Turns(st, s, st, now)
  BY <1>2, <1>3, <1>4, WindowChanged
<1>6. Finals(Store, now)' <=> Finals(st, s)
  BY <1>1 DEF s
<1> QED
  BY <1>1, <1>5, <1>6 DEF Finalising, FaceMoved, st, s

LEMMA InitFinalising ==
  ASSUME Init
  PROVE  Finalising
<1> DEFINE st == Store
<1>1. OnRecord(st) /\ now \in Nat
  BY InitRecording DEF Recording
<1>2. st.feed = NoFeed /\ st.rounds = << >>
  BY DEF Init, Installed, NewStore, Store
<1> HIDE DEF st
<1>3. DOMAIN st.rounds = {}
  BY <1>2
<1>4. NoFeed.disputeWindow \in Nat \ {0} /\ NoFeed.haveFinal = FALSE /\ NoFeed.haveValue = FALSE
      /\ NoFeed.finalCursor = 0 /\ NoFeed.haveLast = FALSE /\ NoFeed.lastFinalized = 0
  BY WindowsAssumption DEF NoFeed
<1>5. Dated(st)
  BY <1>2, <1>3, <1>4 DEF Dated
<1>6. FinalSound(st)
  BY <1>2, <1>3, <1>4 DEF FinalSound, FileSound, NextRound
<1> QED
  BY <1>1, <1>5, <1>6 DEF Finalising, Finals, st

LEMMA StepFinalising ==
  ASSUME Finalising, Seating, [Next]_vars
  PROVE  Finalising' /\ FaceMoved
<1>1. Recording
  BY FinalisingRecords
<1>2. CASE ProviderOps
  BY <1>1, <1>2, ProviderOpsAreQuiet, QuietMoves
<1>3. CASE FundingOps
  BY <1>1, <1>3, FundingOpsAreQuiet, QuietMoves
<1> QED
  BY <1>2, <1>3, TickMoves, RoundOpsMove, DisputeOpsMove, FeedOpsMove DEF Next, Tick, vars, tables

-----------------------------------------------------------------------------
(* What is read. *)

\* What the walk finds is the final round of the face.
LEMMA LatestIsFinal ==
  ASSUME NEW st, NEW t, OnRecord(st), Dated(st)
  PROVE  /\ LatestFinal(st, t).ok <=> FinalOf(st, t).ok
         /\ LatestFinal(st, t).ok => /\ LatestFinal(st, t).round = FinalOf(st, t).round
                                     /\ LatestFinal(st, t).value = FinalOf(st, t).value
<1>1. LatestFinal(st, t) = Newest(st, Clear(st, t))
  BY WalkPassesClear DEF LatestFinal
<1>2. CASE Clear(st, t) = {}
  <2>1. /\ LatestFinal(st, t).ok = st.feed.haveFinal
        /\ LatestFinal(st, t).round = st.feed.finalRound /\ LatestFinal(st, t).value = st.feed.finalValue
    BY <1>1, <1>2 DEF Newest, Recorded
  <2>2. FinalOf(st, t) = OnFile(st.feed)
    BY <1>2 DEF FinalOf
  <2> QED
    BY <2>1, <2>2 DEF OnFile
<1>3. CASE Clear(st, t) # {}
  <2> DEFINE m == Max(Clear(st, t))
  <2>1. LatestFinal(st, t) = [ok |-> TRUE, value |-> st.rounds[m].value, round |-> m, at |-> st.rounds[m].finalisedAt]
    BY <1>1, <1>3 DEF Newest, FinalRecord
  <2>2. FinalOf(st, t) = [ok |-> TRUE, round |-> m, value |-> st.rounds[m].value]
    BY <1>3 DEF FinalOf
  <2> HIDE DEF m
  <2> QED
    BY <2>1, <2>2
<1> QED
  BY <1>2, <1>3

\* What is in doubt is what the walk finds.
LEMMA DoubtedIsWavering ==
  ASSUME Finalising
  PROVE  FinalDoubted <=> Wavers(Store, now)
<1> DEFINE lf == LatestFinal(Store, now)
           clear == Clear(Store, now)
<1>1. OnRecord(Store) /\ Dated(Store) /\ Store.feed = feed /\ Store.rounds = rounds
  BY FinalisingRecords, StoreOnRecord DEF Finalising, Finals
<1>2. lf = Newest(Store, clear)
  BY <1>1, WalkPassesClear DEF LatestFinal
<1>3. \A r \in DOMAIN rounds :
        HoldsPromotion(Store, r, now) <=> (rounds[r].status = "open" \/ HeldBack(rounds[r], feed.disputeWindow, now))
  BY <1>1, HoldingIsHeldBack
<1>4. CASE clear = {}
  <2>1. lf.ok = feed.haveFinal /\ lf.round = feed.finalRound /\ lf.value = feed.finalValue
    BY <1>1, <1>2, <1>4 DEF Newest, Recorded
  <2> HIDE DEF lf, clear
  <2>2. Wavers(Store, now) <=> Uncertain(Store, now)
    BY <1>4 DEF Wavers, clear
  <2>3. lf = LatestFinal(Store, now)
    BY DEF lf
  <2> QED
    BY <1>1, <1>3, <2>1, <2>2, <2>3 DEF FinalDoubted, Uncertain
<1>5. CASE clear # {}
  <2> DEFINE m == Max(clear)
  <2>1. m \in clear
    BY <1>1, <1>5, ClearFirst, GreatestListed
  <2>2. /\ feed.haveLast /\ m \in DOMAIN rounds /\ rounds[m].status = "aggregated"
        /\ ~HeldBack(rounds[m], feed.disputeWindow, now)
    BY <1>1, <2>1, ClearIsSure
  <2>3. lf.round = m /\ lf.value = rounds[m].value
    BY <1>1, <1>2, <1>5 DEF Newest, FinalRecord
  <2>4. lf = LatestFinal(Store, now)
    OBVIOUS
  <2> HIDE DEF lf, m
  <2>5. ~FinalDoubted
    BY <1>3, <2>2, <2>3, <2>4 DEF FinalDoubted
  <2> QED
    BY <1>5, <2>5 DEF Wavers
<1> QED
  BY <1>4, <1>5

\* The final round, if it is still there, stands.
LEMMA FinalStands ==
  ASSUME NEW st, NEW t, Finals(st, t), FinalOf(st, t).ok, FinalOf(st, t).round \in DOMAIN st.rounds,
         ~Wavers(st, t)
  PROVE  LET r == FinalOf(st, t).round IN
         /\ st.rounds[r].status = "aggregated" /\ st.rounds[r].value = FinalOf(st, t).value
         /\ st.rounds[r].tier # "disputed"
<1>1. OnRecord(st) /\ FinalSound(st)
  BY DEF Finals
<1>2. CASE Clear(st, t) = {}
  <2>1. FinalOf(st, t) = OnFile(st.feed)
    BY <1>2 DEF FinalOf
  <2>2. st.feed.haveFinal /\ FinalOf(st, t).round = st.feed.finalRound /\ FinalOf(st, t).value = st.feed.finalValue
    BY <2>1 DEF OnFile
  <2> DEFINE r == st.feed.finalRound
  <2>3. ~Uncertain(st, t)
    BY <1>2 DEF Wavers
  <2>4. /\ st.rounds[r].status = "aggregated" /\ ~HeldBack(st.rounds[r], st.feed.disputeWindow, t)
        /\ st.feed.reopened => st.rounds[r].value = st.feed.finalValue
    BY <2>2, <2>3 DEF Uncertain
  <2>5. st.rounds[r].value = st.feed.finalValue
    BY <1>1, <2>2, <2>4 DEF FinalSound, FileSound
  <2> QED
    BY <2>2, <2>4, <2>5 DEF HeldBack
<1>3. CASE Clear(st, t) # {}
  <2> DEFINE m == Max(Clear(st, t))
  <2>1. m \in Clear(st, t)
    BY <1>1, <1>3, ClearFirst, GreatestListed
  <2>2. FinalOf(st, t).round = m /\ FinalOf(st, t).value = st.rounds[m].value
    BY <1>3 DEF FinalOf
  <2>3. m \in Listed(st) /\ m \notin Contested(st, t)
    BY <1>1, <2>1, ClearFirst
  <2> HIDE DEF m
  <2>4. st.rounds[m].status = "aggregated" /\ ~HeldBack(st.rounds[m], st.feed.disputeWindow, t)
    BY <2>3 DEF Listed, Contested
  <2> QED
    BY <2>2, <2>4 DEF HeldBack
<1> QED
  BY <1>2, <1>3

\* The round r names stands.
Stands(r) ==
  rounds[r.round].status = "aggregated" /\ rounds[r.round].value = r.value /\ rounds[r.round].tier # "disputed"

LEMMA FinalisingServes ==
  ASSUME Finalising
  PROVE  ServedIsStanding
<1> DEFINE lf == LatestFinal(Store, now)
<1>1. /\ OnRecord(Store) /\ Dated(Store) /\ FinalSound(Store) /\ Finals(Store, now)
      /\ Store.feed = feed /\ Store.rounds = rounds
  BY FinalisingRecords, StoreOnRecord DEF Finalising, Finals
<1>2. (lf.ok /\ lf.round \in DOMAIN rounds /\ ~FinalDoubted) =>
        /\ rounds[lf.round].status = "aggregated" /\ rounds[lf.round].value = lf.value
        /\ rounds[lf.round].tier # "disputed"
  <2>1. ~FinalDoubted => ~Wavers(Store, now)
    BY DoubtedIsWavering
  <2>2. lf.ok => FinalOf(Store, now).ok /\ lf.round = FinalOf(Store, now).round /\ lf.value = FinalOf(Store, now).value
    BY <1>1, LatestIsFinal
  <2> HIDE DEF lf
  <2> QED
    BY <1>1, <2>1, <2>2, FinalStands
<1> HIDE DEF lf
<1>3. ReadFinal = FinalAnswer(lf) /\ (lf.ok => FinalAnswer(lf).round = lf.round /\ FinalAnswer(lf).value = lf.value)
  BY DEF ReadFinal, FinalAnswer, lf
<1>4. (feed.haveValue /\ feed.lastTier \notin {"disputed", "void"} /\ feed.lastRound \in DOMAIN rounds) =>
        /\ rounds[feed.lastRound].status = "aggregated" /\ rounds[feed.lastRound].value = feed.lastValue
        /\ rounds[feed.lastRound].tier # "disputed"
  BY <1>1 DEF FinalSound
<1>5. ASSUME NEW tier, Answer(lf, tier).ok, Answer(lf, tier).round \in DOMAIN rounds
      PROVE  LET r == Answer(lf, tier) IN
             Stands(r) \/ (FinalDoubted /\ r.round = ReadFinal.round /\ r.value = ReadFinal.value)
  <2> DEFINE r == Answer(lf, tier)
  <2>1. \/ lf.ok /\ r.round = lf.round /\ r.value = lf.value
        \/ /\ feed.haveValue /\ feed.lastTier \notin {"disputed", "void"}
           /\ r.round = feed.lastRound /\ r.value = feed.lastValue
    BY <1>5 DEF Answer, Unserved
  <2> HIDE DEF r
  <2>2. r.round \in DOMAIN rounds
    BY <1>5 DEF r
  <2>3. Stands(r) \/ (FinalDoubted /\ r.round = ReadFinal.round /\ r.value = ReadFinal.value)
    BY <1>2, <1>3, <1>4, <2>1, <2>2 DEF Stands
  <2> QED
    BY <2>3 DEF r
<1>6. ASSUME FinalAnswer(lf).ok, FinalAnswer(lf).round \in DOMAIN rounds
      PROVE  Stands(FinalAnswer(lf)) \/ FinalDoubted
  <2>1. lf.ok /\ FinalAnswer(lf).round = lf.round /\ FinalAnswer(lf).value = lf.value
    BY <1>6 DEF FinalAnswer, Unserved
  <2> QED
    BY <1>2, <1>6, <2>1 DEF Stands
<1>7. Read = Answer(lf, ServedTier(lf))
  BY DEF Read, lf
<1>8. /\ (Read.ok /\ Read.round \in DOMAIN rounds) =>
           Stands(Read) \/ (FinalDoubted /\ Read.round = ReadFinal.round /\ Read.value = ReadFinal.value)
      /\ (ReadFinal.ok /\ ReadFinal.round \in DOMAIN rounds) => Stands(ReadFinal) \/ FinalDoubted
  BY <1>3, <1>5, <1>6, <1>7
<1> QED
  BY <1>8 DEF ServedIsStanding, Stands

\* ReadFinal reads the final round of the face.
LEMMA FinalIsRead ==
  ASSUME Finalising
  PROVE  /\ ReadFinal.ok <=> Face(Store, now).final.ok
         /\ ReadFinal.ok => /\ ReadFinal.round = Face(Store, now).final.round
                            /\ ReadFinal.value = Face(Store, now).final.value
<1> DEFINE lf == LatestFinal(Store, now)
<1>1. /\ lf.ok <=> FinalOf(Store, now).ok
      /\ lf.ok => lf.round = FinalOf(Store, now).round /\ lf.value = FinalOf(Store, now).value
  BY LatestIsFinal DEF Finalising, Finals
<1>2. ReadFinal = FinalAnswer(lf) /\ Face(Store, now).final = FinalOf(Store, now)
  BY FaceFields DEF ReadFinal
<1> HIDE DEF lf
<1>3. /\ FinalAnswer(lf).ok <=> lf.ok
      /\ lf.ok => FinalAnswer(lf).round = lf.round /\ FinalAnswer(lf).value = lf.value
  BY DEF FinalAnswer, Unserved
<1> QED
  BY <1>1, <1>2, <1>3

\* The final round of a recurring feed keeps up with the rounds.
LEMMA FinalisingKeepsUp ==
  ASSUME Finalising, Recurs
  PROVE  FinalKeepsUp
<1> DEFINE st == Store
           t == now
<1>1. OnRecord(st) /\ Dated(st) /\ FinalSound(st) /\ st.rounds = rounds
  BY FinalisingRecords, StoreOnRecord DEF Finalising, Finals
<1>2. /\ ReadFinal.ok <=> FinalOf(st, t).ok
      /\ ReadFinal.ok => ReadFinal.round = FinalOf(st, t).round
  <2>1. Face(st, t).final = FinalOf(st, t)
    BY DEF Face
  <2> QED
    BY <2>1, FinalIsRead
<1> SUFFICES ASSUME NEW id \in DOMAIN rounds, rounds[id].status = "aggregated",
                    \A k \in DOMAIN rounds : k <= id => ~HoldsPromotion(Store, k, now)
             PROVE  ReadFinal.ok /\ ReadFinal.round >= id
  BY DEF FinalKeepsUp
<1>3. \A k \in DOMAIN st.rounds : k <= id => ~HeldBack(st.rounds[k], st.feed.disputeWindow, t)
  BY <1>1, HoldingIsHeldBack
<1> HIDE DEF st, t
<1>4. id \in Nat /\ st.feed.finalCursor \in Nat /\ Listed(st) \subseteq Nat
  BY <1>1, ListedSettled DEF OnRecord, RoundsSound, Cursors
<1>5. CASE id < st.feed.finalCursor
  <2>1. st.feed.haveFinal /\ id <= st.feed.finalRound
    BY <1>1, <1>5 DEF FinalSound, Neglected
  <2>2. CASE Clear(st, t) = {}
    <3>1. FinalOf(st, t).ok /\ FinalOf(st, t).round = st.feed.finalRound
      BY <2>1, <2>2 DEF FinalOf, OnFile
    <3>2. st.feed.finalRound \in Nat
      BY <1>1, <2>1 DEF FinalSound, FileSound
    <3> QED
      BY <1>2, <1>4, <2>1, <3>1, <3>2
  <2>3. CASE Clear(st, t) # {}
    <3>1. Max(Clear(st, t)) \in Listed(st)
      BY <1>1, <2>3, ClearFirst, GreatestListed
    <3>2. Max(Clear(st, t)) \in Nat /\ Max(Clear(st, t)) >= st.feed.finalCursor
      BY <1>4, <3>1 DEF Listed
    <3>3. FinalOf(st, t).ok /\ FinalOf(st, t).round = Max(Clear(st, t))
      BY <2>3 DEF FinalOf
    <3> QED
      BY <1>2, <1>4, <1>5, <3>2, <3>3
  <2> QED
    BY <2>2, <2>3
<1>6. CASE ~(id < st.feed.finalCursor)
  <2>1. id \in Listed(st)
    BY <1>1, <1>4, <1>6 DEF Listed
  <2>2. \A k \in Contested(st, t) : k \in Nat /\ ~(k <= id)
    BY <1>1, <1>3, <1>4 DEF Contested, Listed
  <2>3. id \in Clear(st, t)
    BY <1>4, <2>1, <2>2 DEF Clear, Before
  <2>4. Max(Clear(st, t)) \in Clear(st, t) /\ id <= Max(Clear(st, t)) /\ Clear(st, t) \subseteq Nat
    BY <1>1, <1>4, <2>3, ClearFirst, GreatestListed
  <2>5. FinalOf(st, t).ok /\ FinalOf(st, t).round = Max(Clear(st, t))
    BY <2>3 DEF FinalOf
  <2> QED
    BY <1>2, <1>4, <2>4, <2>5
<1> QED
  BY <1>5, <1>6

\* How the face of the core moves: what is doubted is the final value.
Turned(g, f, rs) ==
  \/ /\ feed'.disputeWindow <= feed.disputeWindow
     /\ FinalDoubted' => FinalDoubted /\ g.final = f.final
     /\ Moves(g, f, rs)
  \/ feed'.disputeWindow = feed.disputeWindow /\ FinalDoubted /\ Overrules(g, f, rs)
  \/ feed'.disputeWindow > feed.disputeWindow /\ Widens(g, f)

LEMMA FaceTurned ==
  ASSUME Finalising, Finalising', FaceMoved
  PROVE  /\ Turned(Face(Store, now)', Face(Store, now), rounds')
         /\ feed'.disputeWindow <= feed.disputeWindow => ~(feed'.disputeWindow > feed.disputeWindow)
<1>1. /\ Turns(Store', now', Store, now) /\ Store'.rounds = rounds'
      /\ Store'.feed = feed' /\ Store.feed = feed
  BY DEF FaceMoved, Store
<1>2. feed.disputeWindow \in Nat /\ feed'.disputeWindow \in Nat
  <2>1. Dated(Store) /\ Dated(Store')
    BY DEF Finalising, Finals
  <2> QED
    BY <1>1, <2>1 DEF Dated
<1>3. FinalDoubted <=> Wavers(Store, now)
  BY DoubtedIsWavering
<1>4. FinalDoubted' <=> Wavers(Store', now')
  <2>1. (FinalDoubted <=> Wavers(Store, now))'
    BY DoubtedIsWavering, PTL
  <2> QED
    BY <2>1
<1>5. Face(Store, now)' = Face(Store', now')
  OBVIOUS
<1> QED
  BY <1>1, <1>2, <1>3, <1>4, <1>5 DEF Turns, Turned

\* A move leaves the final round, or replaces it by a later one.
LEMMA AdvancedOn ==
  ASSUME NEW g, NEW f, NEW p, NEW c, NEW n \in Nat, Advanced(g, f, p, c), f.final.ok,
         DOMAIN p \subseteq Nat, \A r \in DOMAIN p : f.final.round < r /\ r <= n
  PROVE  g.final = f.final \/ (g.final.ok /\ g.final.round > f.final.round /\ g.final.round \in Nat)
<1> DEFINE clear == Before(DOMAIN p, c)
<1>1. g.final = IF clear = {} THEN f.final ELSE [ok |-> TRUE, round |-> Max(clear), value |-> p[Max(clear)]]
  BY DEF Advanced
<1>2. clear \subseteq DOMAIN p
  BY DEF Before
<1> HIDE DEF clear
<1>3. CASE clear = {}
  BY <1>1, <1>3
<1>4. CASE clear # {}
  <2>1. clear \in SUBSET Nat /\ \A y \in clear : y <= n
    BY <1>2
  <2>2. Max(clear) \in clear
    BY <1>4, <2>1, GreatestIn
  <2>3. f.final.round < Max(clear) /\ Max(clear) \in Nat
    BY <1>2, <2>2
  <2>4. g.final.ok /\ g.final.round = Max(clear)
    BY <1>1, <1>4
  <2> QED
    BY <2>3, <2>4
<1> QED
  BY <1>3, <1>4

LEMMA MoveGoesOn ==
  ASSUME Finalising, Finalising', FaceMoved, ReadFinal.ok, feed'.disputeWindow <= feed.disputeWindow
  PROVE  /\ ReadFinal'.ok
         /\ ReadFinal'.round >= ReadFinal.round
         /\ ReadFinal'.round = ReadFinal.round => ReadFinal'.value = ReadFinal.value \/ FinalDoubted
<1> DEFINE st == Store
           t == now
           f == Face(st, t)
           g == Face(Store, now)'
           rs == rounds'
           r0 == f.final.round
<1>1. /\ Finals(st, t) /\ OnRecord(st) /\ FinalSound(st) /\ st.feed.lastFinalized \in Nat
      /\ st.feed.finalCursor \in Nat
  BY DEF Finalising, Finals, OnRecord, Cursors
<1>2. DOMAIN rs \subseteq Nat
  <2>1. Recording'
    BY FinalisingRecords, PTL
  <2>2. DOMAIN Store'.rounds \subseteq Nat
    BY <2>1 DEF Recording, OnRecord, RoundsSound
  <2> QED
    BY <2>2 DEF Store
<1>3. f.final.ok /\ ReadFinal.round = r0 /\ ReadFinal.value = f.final.value
  BY FinalIsRead
<1>4. /\ ReadFinal'.ok <=> g.final.ok
      /\ ReadFinal'.ok => ReadFinal'.round = g.final.round /\ ReadFinal'.value = g.final.value
  <2>1. (/\ ReadFinal.ok <=> Face(Store, now).final.ok
         /\ ReadFinal.ok => /\ ReadFinal.round = Face(Store, now).final.round
                            /\ ReadFinal.value = Face(Store, now).final.value)'
    BY FinalIsRead, PTL
  <2> QED
    BY <2>1
<1>5. Moves(g, f, rs) \/ (FinalDoubted /\ Overrules(g, f, rs))
  <2>1. Turned(g, f, rs) /\ ~(feed'.disputeWindow > feed.disputeWindow)
    BY FaceTurned
  <2> HIDE DEF f, g, rs
  <2> QED
    BY <2>1 DEF Turned
<1>6. /\ f.final = FinalOf(st, t) /\ f.contested = Contested(st, t)
      /\ DOMAIN f.pending = Listed(st) \ Clear(st, t)
  BY FaceFields
<1>7. Listed(st) \subseteq Nat /\ \A r \in Listed(st) : r <= st.feed.lastFinalized
  BY <1>1, ListedSettled
<1>8. Contested(st, t) \subseteq Listed(st) \ Clear(st, t)
  BY <1>1, ClearFirst
<1>9. r0 \in Nat
  <2>1. CASE Clear(st, t) = {}
    BY <1>1, <1>3, <1>6, <2>1 DEF FinalOf, OnFile, FinalSound, FileSound
  <2>2. CASE Clear(st, t) # {}
    <3>1. Max(Clear(st, t)) \in Nat
      BY <1>1, <1>7, <2>2, ClearFirst, GreatestListed
    <3> QED
      BY <1>6, <2>2, <3>1 DEF FinalOf
  <2> QED
    BY <2>1, <2>2
<1>10. \A r \in DOMAIN f.pending : r0 < r
  BY <1>1, <1>3, <1>6, FinalFirst DEF FinalSound, FileSound
<1> HIDE DEF st, t, f, g, rs, r0
<1>11. Moves(g, f, rs) => g.final = f.final \/ (g.final.ok /\ g.final.round > r0 /\ g.final.round \in Nat)
  <2>1. \A r \in DOMAIN f.pending : r \in Nat /\ r <= st.feed.lastFinalized /\ r0 < r
    BY <1>6, <1>7, <1>10
  <2>2. ASSUME NEW p, NEW c, Advanced(g, f, p, c), DOMAIN p \subseteq DOMAIN f.pending
        PROVE  g.final = f.final \/ (g.final.ok /\ g.final.round > r0 /\ g.final.round \in Nat)
    <3>1. DOMAIN p \subseteq Nat /\ \A r \in DOMAIN p : r0 < r /\ r <= st.feed.lastFinalized
      BY <2>1, <2>2
    <3> QED
      BY <1>1, <1>3, <2>2, <3>1, AdvancedOn DEF r0
  <2>3. CASE g = f
    BY <2>3
  <2>4. CASE Publishes(g, f, rs)
    <3>1. PICK id \in DOMAIN rs :
            /\ \A r \in DOMAIN f.pending : r < id
            /\ f.final.ok => f.final.round < id
            /\ Advanced(g, f, [r \in DOMAIN f.pending \cup {id} |-> IF r = id THEN rs[id].value ELSE f.pending[r]],
                        f.contested \cup {id})
      BY <2>4 DEF Publishes
    <3> DEFINE p == [r \in DOMAIN f.pending \cup {id} |-> IF r = id THEN rs[id].value ELSE f.pending[r]]
               c == f.contested \cup {id}
    <3>2. DOMAIN p = DOMAIN f.pending \cup {id} /\ Advanced(g, f, p, c)
      BY <3>1
    <3> HIDE DEF p, c
    <3>3. id \in Nat /\ r0 < id
      BY <1>2, <1>3, <3>1 DEF r0
    <3>4. DOMAIN p \subseteq Nat /\ \A r \in DOMAIN p : r0 < r /\ r <= id
      BY <2>1, <3>1, <3>2, <3>3
    <3> QED
      BY <1>3, <3>2, <3>3, <3>4, AdvancedOn DEF r0
  <2>5. CASE Revises(g, f, rs)
    <3>1. PICK id, c : Advanced(g, f, [f.pending EXCEPT ![id] = rs[id].value], c)
      BY <2>5 DEF Revises
    <3>2. DOMAIN [f.pending EXCEPT ![id] = rs[id].value] \subseteq DOMAIN f.pending
      OBVIOUS
    <3> QED
      BY <2>2, <3>1, <3>2
  <2>6. CASE Withdraws(g, f)
    <3>1. PICK id \in f.contested :
            Advanced(g, f, [r \in DOMAIN f.pending \ {id} |-> f.pending[r]], f.contested \ {id})
      BY <2>6 DEF Withdraws
    <3>2. DOMAIN [r \in DOMAIN f.pending \ {id} |-> f.pending[r]] \subseteq DOMAIN f.pending
      OBVIOUS
    <3> QED
      BY <2>2, <3>1, <3>2
  <2>7. CASE Settles(g, f)
    BY <2>2, <2>7 DEF Settles
  <2> QED
    BY <2>3, <2>4, <2>5, <2>6, <2>7 DEF Moves
<1>12. CASE FinalDoubted /\ Overrules(g, f, rs)
  <2>1. g.final = [ok |-> TRUE, round |-> f.final.round, value |-> rs[f.final.round].value]
    BY <1>12 DEF Overrules
  <2>2. g.final.ok /\ g.final.round = r0
    BY <2>1 DEF r0
  <2> QED
    BY <1>3, <1>4, <1>9, <1>12, <2>2
<1> QED
  BY <1>3, <1>4, <1>5, <1>9, <1>11, <1>12 DEF r0

-----------------------------------------------------------------------------

LEMMA AlwaysFinalising == Spec => [](Finalising /\ Seating)
<1>1. Init => Finalising /\ Seating
  BY InitFinalising, InitSeats
<1>2. Finalising /\ Seating /\ [Next]_vars => (Finalising /\ Seating)'
  BY StepFinalising, FinalisingRecords, StepSeats
<1> QED
  BY <1>1, <1>2, PTL DEF Spec

\* Whatever is read is a standing value, for every set of providers, every calendar, every
\* course of disputes and every change of the parameters: the round it names is aggregated, has
\* that value and is not under dispute, or it is a final value which a longer dispute window
\* has put in doubt (Read and ReadFinal, consumers.gno; UpdateFeed, feeds.gno).
THEOREM ServedAlwaysStands == Spec => []ServedIsStanding
<1>1. Finalising => ServedIsStanding
  BY FinalisingServes
<1> QED
  BY <1>1, AlwaysFinalising, PTL

\* The final value is never retracted: but for a step that makes the dispute window longer the
\* last final round only moves on, and only a value in doubt is rewritten (FeedPromoteFinal and
\* RoundOverturn, state.gno; latestFinal, consumers.gno; UpdateFeed, feeds.gno).
THEOREM FinalNeverGoesBack == Spec => FinalNeverRetracted
<1>1. Finalising /\ Seating /\ [Next]_vars /\ (Finalising /\ Seating)' =>
        [(ReadFinal.ok /\ feed'.disputeWindow <= feed.disputeWindow) =>
           /\ ReadFinal'.ok
           /\ ReadFinal'.round >= ReadFinal.round
           /\ ReadFinal'.round = ReadFinal.round => ReadFinal'.value = ReadFinal.value \/ FinalDoubted]_vars
  BY StepFinalising, MoveGoesOn
<1> QED
  BY <1>1, AlwaysFinalising, PTL DEF Spec, FinalNeverRetracted

\* The final value of a recurring feed keeps up with its undisputed rounds, however its dispute
\* window is changed: the walk of promotion stops at nothing but what may still change
\* (FeedPromoteFinal, state.gno).  A one-off feed that is reopened does not: MCOneOffStuck.
THEOREM FinalAlwaysKeepsUp == Spec => [](Recurs => FinalKeepsUp)
<1>1. Finalising => (Recurs => FinalKeepsUp)
  BY FinalisingKeepsUp
<1> QED
  BY <1>1, AlwaysFinalising, PTL

-----------------------------------------------------------------------------
(* The values that are named. *)

\* The slots that submitted v or less.
UpTo(subs, v) == { s \in DOMAIN subs : subs[s] <= v }

Below(subs, v) == { s \in DOMAIN subs : subs[s] < v }

Numbers(subs) == IsFiniteSet(DOMAIN subs) /\ \A s \in DOMAIN subs : subs[s] \in Int

LEMMA UpToCounts ==
  ASSUME NEW subs, NEW v, NEW D \in SUBSET UpTo(subs, v), Numbers(subs)
  PROVE  /\ Cardinality(UpTo(subs, v)) \in Nat /\ Cardinality(D) \in Nat
         /\ Cardinality(UpTo(subs, v)) <= Cardinality(DOMAIN subs)
         /\ Cardinality(D) <= Cardinality(UpTo(subs, v))
         /\ D # UpTo(subs, v) => Cardinality(D) < Cardinality(UpTo(subs, v))
<1>1. UpTo(subs, v) \subseteq DOMAIN subs /\ IsFiniteSet(DOMAIN subs)
  BY DEF UpTo, Numbers
<1>2. /\ IsFiniteSet(UpTo(subs, v)) /\ Cardinality(UpTo(subs, v)) <= Cardinality(DOMAIN subs)
      /\ Cardinality(UpTo(subs, v)) \in Nat
  BY <1>1, FS_Subset, FS_CardinalityType
<1>3. /\ IsFiniteSet(D) /\ Cardinality(D) \in Nat /\ Cardinality(D) <= Cardinality(UpTo(subs, v))
      /\ Cardinality(UpTo(subs, v)) = Cardinality(D) => UpTo(subs, v) = D
  BY <1>2, FS_Subset, FS_CardinalityType
<1> QED
  BY <1>2, <1>3

\* Among some of the submissions one is the greatest.
LEMMA GreatestSubmission ==
  ASSUME NEW subs, NEW D \in SUBSET DOMAIN subs, D # {}, Numbers(subs)
  PROVE  \E t \in D : \A s \in D : subs[s] <= subs[t]
<1> DEFINE count(s) == Cardinality(UpTo(subs, subs[s]))
           counts == { count(s) : s \in D }
           n == Cardinality(DOMAIN subs)
<1>1. n \in Nat
  BY FS_CardinalityType DEF Numbers
<1>2. \A s \in D : count(s) \in Nat /\ count(s) <= n
  BY UpToCounts
<1> HIDE DEF count, n
<1>3. counts \in SUBSET Nat /\ counts # {} /\ \A c \in counts : c <= n
  BY <1>2
<1>4. Max(counts) \in counts /\ \A c \in counts : c <= Max(counts)
  BY <1>1, <1>3, GreatestIn
<1>5. PICK t \in D : Max(counts) = count(t)
  BY <1>4
<1>6. ASSUME NEW s \in D, ~(subs[s] <= subs[t])
      PROVE  FALSE
  <2>1. subs[s] \in Int /\ subs[t] \in Int /\ subs[t] < subs[s]
    BY <1>6 DEF Numbers
  <2>2. UpTo(subs, subs[t]) \subseteq UpTo(subs, subs[s])
    BY <2>1 DEF UpTo, Numbers
  <2>3. s \in UpTo(subs, subs[s]) /\ s \notin UpTo(subs, subs[t])
    BY <1>6, <2>1 DEF UpTo
  <2>4. count(t) < count(s)
    BY <2>2, <2>3, UpToCounts DEF count
  <2>5. count(s) <= count(t)
    BY <1>4, <1>5
  <2> QED
    BY <1>2, <2>4, <2>5
<1> QED
  BY <1>6

\* The element in the middle of the sorted submissions is there, and is one of them.
LEMMA MedianIsInTheMiddle ==
  ASSUME NEW subs, DOMAIN subs # {}, Numbers(subs)
  PROVE  LET mid == (Cardinality(DOMAIN subs) - 1) \div 2
             m == LowerMedian(subs)
         IN /\ \E s \in DOMAIN subs : m = subs[s]
            /\ Cardinality(Below(subs, m)) <= mid
            /\ Cardinality(UpTo(subs, m)) > mid
<1> DEFINE n == Cardinality(DOMAIN subs)
           mid == (n - 1) \div 2
           count(s) == Cardinality(UpTo(subs, subs[s]))
           high == { s \in DOMAIN subs : count(s) > mid }
           counts == { count(s) : s \in high }
<1>1. n \in Nat /\ n # 0
  BY FS_CardinalityType, FS_EmptySet DEF Numbers
<1>2. mid \in Nat /\ mid < n
  BY <1>1
<1>3. \A s \in DOMAIN subs : count(s) \in Nat
  BY UpToCounts
<1>4. high # {}
  <2>1. PICK t \in DOMAIN subs : \A s \in DOMAIN subs : subs[s] <= subs[t]
    BY GreatestSubmission
  <2>2. UpTo(subs, subs[t]) = DOMAIN subs
    BY <2>1 DEF UpTo
  <2>3. count(t) = n
    BY <2>2
  <2> QED
    BY <1>2, <2>3
<1> HIDE DEF count, n, mid
<1>5. counts \in SUBSET Nat /\ counts # {}
  BY <1>3, <1>4
<1>6. Min(counts) \in counts /\ \A c \in counts : Min(counts) <= c
  BY <1>5, LeastOf
<1>7. PICK s \in high : Min(counts) = count(s)
  BY <1>6
<1> DEFINE lower == Below(subs, subs[s])
<1>8. /\ s \in DOMAIN subs /\ subs[s] \in Int
      /\ lower \subseteq DOMAIN subs /\ lower \subseteq UpTo(subs, subs[s]) /\ lower # UpTo(subs, subs[s])
  BY DEF Below, UpTo, Numbers
<1>9. Cardinality(lower) \in Nat /\ Cardinality(lower) < count(s)
  BY <1>8, UpToCounts DEF count
<1>10. Cardinality(lower) <= mid
  <2> SUFFICES ASSUME Cardinality(lower) > mid
               PROVE  FALSE
    BY <1>2, <1>9
  <2>1. lower # {}
    BY <1>2, FS_EmptySet
  <2>2. PICK t \in lower : \A x \in lower : subs[x] <= subs[t]
    BY <1>8, <2>1, GreatestSubmission
  <2>3. UpTo(subs, subs[t]) = lower
    BY <1>8, <2>2 DEF UpTo, Below, Numbers
  <2>4. count(t) = Cardinality(lower)
    BY <2>3 DEF count
  <2>5. t \in high
    BY <1>8, <2>4
  <2>6. count(s) <= count(t)
    BY <1>6, <1>7, <2>5
  <2> QED
    BY <1>3, <1>8, <1>9, <2>4, <2>6
<1>11. \E v \in { subs[x] : x \in DOMAIN subs } :
         /\ Cardinality({ x \in DOMAIN subs : subs[x] < v }) <= mid
         /\ Cardinality({ x \in DOMAIN subs : subs[x] <= v }) > mid
  BY <1>8, <1>10 DEF Below, UpTo, count
<1>12. /\ LowerMedian(subs) \in { subs[x] : x \in DOMAIN subs }
       /\ Cardinality({ x \in DOMAIN subs : subs[x] < LowerMedian(subs) }) <= mid
       /\ Cardinality({ x \in DOMAIN subs : subs[x] <= LowerMedian(subs) }) > mid
  BY <1>11 DEF LowerMedian, mid, n
<1> QED
  BY <1>12 DEF Below, UpTo, mid, n

\* Whatever the others submit, the aggregate of a round lies between two submissions of any
\* strict majority, and a slot that submitted it is eligible under every tolerance (package
\* agg, AggregateNumeric): no minority moves the value out of the majority's range, and there
\* is always somebody to pay.
THEOREM MajorityBoundsMedian ==
  ASSUME NEW subs, DOMAIN subs # {}, Numbers(subs),
         NEW M \in SUBSET DOMAIN subs, 2 * Cardinality(M) > Cardinality(DOMAIN subs), NEW bps \in Nat
  PROVE  /\ \E s \in M : subs[s] <= LowerMedian(subs)
         /\ \E s \in M : subs[s] >= LowerMedian(subs)
         /\ \E s \in EligibleNumeric(subs, LowerMedian(subs), bps) : subs[s] = LowerMedian(subs)
<1> DEFINE n == Cardinality(DOMAIN subs)
           mid == (n - 1) \div 2
           m == LowerMedian(subs)
           low == Below(subs, m)
           upto == UpTo(subs, m)
<1>1. Cardinality(low) <= mid /\ Cardinality(upto) > mid
  BY MedianIsInTheMiddle
<1>2. PICK s \in DOMAIN subs : m = subs[s]
  BY MedianIsInTheMiddle
<1>3. m \in Int /\ \A x \in DOMAIN subs : subs[x] \in Int
  BY <1>2 DEF Numbers
<1>4. low \subseteq DOMAIN subs /\ upto \subseteq DOMAIN subs /\ IsFiniteSet(DOMAIN subs)
  BY DEF Below, UpTo, Numbers
<1>5. /\ n \in Nat /\ Cardinality(low) \in Nat /\ Cardinality(upto) \in Nat /\ Cardinality(M) \in Nat
      /\ IsFiniteSet(low) /\ IsFiniteSet(upto) /\ IsFiniteSet(M)
  BY <1>4, FS_Subset, FS_CardinalityType
<1> HIDE DEF m
<1>6. \E x \in M : subs[x] <= m
  <2> SUFFICES ASSUME \A x \in M : ~(subs[x] <= m)
               PROVE  FALSE
    OBVIOUS
  <2>1. M \cap upto = {}
    BY DEF UpTo
  <2>2. Cardinality(M \cup upto) = Cardinality(M) + Cardinality(upto)
    <3>1. Cardinality(M \cap upto) = 0
      BY <2>1, FS_EmptySet
    <3>2. Cardinality(M \cup upto) = Cardinality(M) + Cardinality(upto) - Cardinality(M \cap upto)
      BY <1>5, FS_Union
    <3> HIDE DEF upto
    <3> QED
      BY <1>5, <3>1, <3>2
  <2>3. Cardinality(M \cup upto) <= n
    BY <1>4, FS_Subset
  <2> HIDE DEF n, upto, low
  <2> QED
    BY <1>1, <1>5, <2>2, <2>3 DEF n
<1>7. \E x \in M : subs[x] >= m
  <2> SUFFICES ASSUME \A x \in M : ~(subs[x] >= m)
               PROVE  FALSE
    OBVIOUS
  <2>1. M \subseteq low
    BY <1>3 DEF Below
  <2>2. Cardinality(M) <= Cardinality(low)
    BY <1>5, <2>1, FS_Subset
  <2> HIDE DEF n, upto, low
  <2> QED
    BY <1>1, <1>5, <2>2 DEF n
<1>8. s \in EligibleNumeric(subs, m, bps)
  <2>1. AbsDiff(m, m) = 0 /\ Abs(m) \in Nat
    BY <1>3 DEF AbsDiff, Abs
  <2>2. 0 <= Abs(m) * bps
    BY <2>1
  <2>3. WithinTolerance(m, m, bps)
    BY <2>1, <2>2 DEF WithinTolerance, Bps
  <2> QED
    BY <1>2, <2>3 DEF EligibleNumeric
<1> QED
  BY <1>2, <1>6, <1>7, <1>8 DEF m

\* All that submissions name.
Names(subs) == \A s \in DOMAIN subs : subs[s] \in Values

\* A value that is aggregated is one that was submitted.
LEMMA AggregateIsNamed ==
  ASSUME NEW f, NEW subs, IsFiniteSet(DOMAIN subs), Names(subs), Aggregate(f, subs).ok
  PROVE  Aggregate(f, subs).value \in Values
<1>1. CASE Spec0.numeric
  <2>1. DOMAIN subs # {}
    BY <1>1 DEF Aggregate
  <2>2. Numbers(subs)
    BY ValuesAssumption DEF Names, Numbers
  <2>3. PICK s \in DOMAIN subs : LowerMedian(subs) = subs[s]
    BY <2>1, <2>2, MedianIsInTheMiddle
  <2>4. Aggregate(f, subs).value = LowerMedian(subs)
    BY <1>1, <2>1 DEF Aggregate
  <2> QED
    BY <2>3, <2>4 DEF Names
<1>2. CASE ~Spec0.numeric
  <2>1. HasWinner(subs, Values)
    BY <1>2 DEF Aggregate
  <2>2. Leaders(subs, Values) # {}
    BY <1>2 DEF Aggregate
  <2>3. PICK o : Leaders(subs, Values) = {o}
    <3>1. IsFiniteSet(Leaders(subs, Values))
      <4>1. ASSUME NEW o \in Leaders(subs, Values)
            PROVE  o \in { subs[s] : s \in DOMAIN subs }
        <5>1. Votes(subs, o) > 0
          BY DEF Leaders
        <5>2. { s \in DOMAIN subs : subs[s] = o } # {}
          BY <5>1, FS_EmptySet DEF Votes
        <5> QED
          BY <5>2
      <4>2. IsFiniteSet({ subs[s] : s \in DOMAIN subs })
        <5> DEFINE T == { subs[s] : s \in DOMAIN subs }
                   g == [s \in DOMAIN subs |-> subs[s]]
        <5>1. g \in Surjection(DOMAIN subs, T)
          BY DEF Surjection
        <5> QED
          BY <5>1, FS_Surjection
      <4> QED
        BY <4>1, <4>2, FS_Subset
    <3> QED
      BY <2>1, <3>1, FS_Singleton DEF HasWinner
  <2>4. o \in Values /\ o \in Int
    BY <2>3, ValuesAssumption DEF Leaders
  <2>5. Plurality(subs, Values) = o
    BY <2>3, <2>4 DEF Plurality
  <2>6. Aggregate(f, subs).value = Plurality(subs, Values)
    BY <1>2, <2>1, <2>2 DEF Aggregate
  <2> QED
    BY <2>4, <2>5, <2>6
<1> QED
  BY <1>1, <1>2

\* What the tables name: every submission, every aggregate and every dispute names a value.
Named(st) ==
  /\ \A id \in DOMAIN st.rounds :
       Names(st.rounds[id].subs) /\ (st.rounds[id].status = "aggregated" => st.rounds[id].value \in Values)
  /\ \A n \in DOMAIN st.disputes : st.disputes[n].proposedValue \in Values

\* The tables of st, on the way through a handler.
Underway(st) == Framed(st) /\ st.feed.startAt \in Nat /\ Named(st)

LEMMA SameNamed ==
  ASSUME NEW st, NEW t, SameRounds(t, st), Underway(st)
  PROVE  Underway(t)
BY DEF SameRounds, Named, Underway

LEMMA RecordNamed ==
  ASSUME NEW st, NEW t, SameRecord(t, st), Underway(st)
  PROVE  Underway(t)
BY SameNamed, RoundsOfRecord

LEMMA FreshNames == Names(FreshRound.subs) /\ FreshRound.status # "aggregated"
<1>1. FreshRound.subs = << >> /\ FreshRound.status = "open"
  BY DEF FreshRound
<1>2. DOMAIN FreshRound.subs = {}
  BY <1>1
<1> QED
  BY <1>1, <1>2 DEF Names

LEMMA GotNamed ==
  ASSUME NEW st, NEW id, Underway(st)
  PROVE  Names(GetRound(st, id).subs) /\ (GetRound(st, id).status = "aggregated" => GetRound(st, id).value \in Values)
BY FreshNames DEF GetRound, Underway, Named

LEMMA PutNamed ==
  ASSUME NEW st, NEW id, NEW rd, Underway(st), Names(rd.subs), rd.status = "aggregated" => rd.value \in Values
  PROVE  Underway(PutRound(st, id, rd))
<1> DEFINE u == PutRound(st, id, rd)
<1>1. /\ Framed(u) /\ u.feed = st.feed /\ u.disputes = st.disputes
      /\ u.rounds = [k \in DOMAIN st.rounds \cup {id} |-> IF k = id THEN rd ELSE st.rounds[k]]
  BY DEF PutRound, Underway, Framed, Tables
<1> HIDE DEF u
<1>2. \A k \in DOMAIN u.rounds : u.rounds[k] = rd \/ (k \in DOMAIN st.rounds /\ u.rounds[k] = st.rounds[k])
  BY <1>1
<1>3. Underway(u)
  BY <1>1, <1>2 DEF Underway, Named
<1> QED
  BY <1>3 DEF u

LEMMA SettledRoundNamed ==
  ASSUME NEW st, NEW id, NEW status, NEW tier, NEW value, Underway(st), OnRecord(st),
         status = "aggregated" => value \in Values
  PROVE  Underway(FeedSetCursor(RoundFinalise(st, id, status, tier, value), id))
<1> DEFINE rd == [GetRound(st, id) EXCEPT !.status = status, !.tier = tier, !.value = value, !.finalisedAt = now]
           t == PutRound(st, id, rd)
           u == FeedSetCursor(t, id)
<1>1. rd.subs = GetRound(st, id).subs /\ rd.status = status /\ rd.value = value
  BY NextRoundFields DEF RoundFields, FreshRound
<1>2. RoundFinalise(st, id, status, tier, value) = t
  BY DEF RoundFinalise
<1> HIDE DEF rd
<1>3. Underway(t)
  BY <1>1, GotNamed, PutNamed
<1> HIDE DEF t
<1>4. /\ DOMAIN u = Tables /\ u.rounds = t.rounds /\ u.disputes = t.disputes
      /\ u.feed = [t.feed EXCEPT !.haveLast = TRUE, !.lastFinalized = id]
  BY <1>3 DEF FeedSetCursor, Underway, Framed, Tables
<1> HIDE DEF u
<1>5. DOMAIN u.feed = FeedFields /\ u.feed.startAt = t.feed.startAt
  BY <1>3, <1>4 DEF Underway, Framed, FeedFields, NoFeed
<1>6. Underway(u)
  BY <1>3, <1>4, <1>5 DEF Underway, Framed, Named
<1> QED
  BY <1>2, <1>6 DEF u

LEMMA ClosedNamed ==
  ASSUME NEW st, NEW id, NEW agg, NEW tier, Underway(st), OnRecord(st), tier # "empty" => agg.value \in Values
  PROVE  Underway(Closed(st, id, agg, tier))
<1> DEFINE empty == FeedSetCursor(RoundFinalise(st, id, "empty", tier, agg.value), id)
           full == FeedSetCursor(RoundFinalise(st, id, "aggregated", tier, agg.value), id)
           served == FeedSetValue(full, id, agg.value, tier)
<1>1. Underway(empty) /\ (tier # "empty" => Underway(full))
  BY SettledRoundNamed
<1> HIDE DEF empty, full
<1>2. Underway(EmptyClosed(empty))
  BY <1>1, EmptyClosedLeaves, RecordNamed DEF Underway
<1>3. tier # "empty" => Underway(served)
  BY <1>1, FeedSetValueLeaves, SameNamed DEF Underway
<1> HIDE DEF served
<1>4. tier # "empty" => Underway([served EXCEPT !.feed.emptyStreak = 0])
  BY <1>3, StreakLeaves, RecordNamed DEF Underway
<1> QED
  BY <1>2, <1>4 DEF Closed, empty, served, full

LEMMA SettledNamed ==
  ASSUME NEW st, NEW id \in Nat, NEW agg, NEW tier, Underway(st), OnRecord(st), now \in Nat,
         tier # "empty" => agg.value \in Values
  PROVE  Underway(Settled(st, id, agg, tier))
<1> DEFINE paid == IF tier = "empty" THEN {} ELSE { ObligedHolder(st, s, id) : s \in agg.eligible }
           judged == Liveness(st, id, agg, st.feed.status = "active")
           payout == RoundPayout(judged, paid)
           closed == Closed(payout, id, agg, tier)
           status == FundingStatus(closed)
<1>1. Settled(st, id, agg, tier) = AfterEmpty(status)
  BY DEF Settled
<1>2. SameRecord(judged, st)
  BY LivenessLeaves DEF Underway
<1> HIDE DEF judged
<1>3. SameRecord(payout, judged)
  BY <1>2, RoundPayoutLeaves, FrameKept
<1> HIDE DEF payout, paid
<1>4. Underway(payout) /\ OnRecord(payout)
  BY <1>2, <1>3, RecordChained, RecordNamed, RecordKept
<1>5. Underway(closed)
  BY <1>4, ClosedNamed
<1> HIDE DEF closed
<1>6. Underway(status)
  BY <1>5, FundingStatusLeaves, RecordNamed DEF Underway
<1> HIDE DEF status
<1>7. SameRecord(AfterEmpty(status), status)
  BY <1>6, AfterEmptyLeaves DEF Underway
<1> QED
  BY <1>1, <1>6, <1>7, RecordNamed

\* A round that is finalised names what was submitted.
LEMMA FinaliseNamed ==
  ASSUME NEW st, NEW id, Underway(st), OnRecord(st), now \in Nat, IsNextOf(st, id)
  PROVE  Underway(Finalise(st, id))
<1> DEFINE asked == GetRound(st, id).status = "open"
           checked == Require(st, asked)
           put == PutRound(checked, id, GetRound(st, id))
           agg == AggregateOf(put, id)
           promoted == Promoted(put, agg)
           tier == TierOf(promoted, agg, Cardinality(ObligedSlots(put, id)))
<1>1. Finalise(st, id) = Settled(promoted, id, agg, tier)
  BY DEF Finalise, FinaliseOnRecord, FinaliseAs
<1>2. SameRecord(checked, st)
  BY RequireLeaves DEF Underway
<1> HIDE DEF asked, checked
<1>3. Underway(checked) /\ OnRecord(checked) /\ IsNextOf(checked, id) /\ GetRound(checked, id) = GetRound(st, id)
  BY <1>2, RecordNamed, RecordKept, NextKept DEF SameRecord, SameRounds, GetRound
<1>4. DOMAIN GetRound(st, id) = RoundFields /\ GetRound(st, id).status = "open"
  <2>1. CASE id \in DOMAIN st.rounds
    <3>1. ~(st.feed.haveLast /\ id <= st.feed.lastFinalized)
      BY NextIsPastOldest DEF OnRecord, IsNextOf, Cursors, NextRound
    <3> QED
      BY <2>1, <3>1 DEF GetRound, OnRecord, RoundsSound
  <2>2. CASE id \notin DOMAIN st.rounds
    BY <2>2 DEF GetRound, FreshRound, RoundFields
  <2> QED
    BY <2>1, <2>2
<1>5. Underway(put) /\ OnRecord(put)
  <2>1. id \in Nat /\ id >= NextRound(checked.feed.haveLast, checked.feed.lastFinalized) /\ (~Recurs => id = 0)
    BY <1>3 DEF IsNextOf
  <2>2. OnRecord(put)
    BY <1>3, <1>4, <2>1, OpenRoundPut
  <2>3. Underway(put)
    BY <1>3, GotNamed, PutNamed
  <2> QED
    BY <2>2, <2>3
<1> HIDE DEF put
<1>6. SameRounds(promoted, put)
  BY <1>5, PromotedLeaves DEF Underway
<1>7. Underway(promoted) /\ OnRecord(promoted)
  BY <1>5, <1>6, SameNamed, RoundsKept
<1>8. tier # "empty" => agg.value \in Values
  <2> SUFFICES ASSUME tier # "empty"
               PROVE  agg.value \in Values
    OBVIOUS
  <2> DEFINE all == put.rounds[id].subs
             owed == [s \in DOMAIN all \cap ObligedSlots(put, id) |-> all[s]]
  <2>1. agg = Aggregate(put.feed, owed)
    BY DEF AggregateOf
  <2>2. agg.ok
    BY DEF TierOf
  <2>3. id \in DOMAIN put.rounds
    BY <1>5 DEF put, PutRound
  <2>4. Names(all)
    BY <1>5, <2>3 DEF Underway, Named
  <2>5. DOMAIN owed \subseteq Slots /\ IsFiniteSet(Slots)
    BY ConstantsAssumption DEF ObligedSlots
  <2>6. IsFiniteSet(DOMAIN owed)
    BY <2>5, FS_Subset
  <2> HIDE DEF all, agg
  <2>7. Names(owed)
    BY <2>4 DEF Names
  <2> HIDE DEF owed
  <2> QED
    BY <2>1, <2>2, <2>6, <2>7, AggregateIsNamed
<1>9. id \in Nat
  BY DEF IsNextOf
<1> HIDE DEF promoted, tier, agg
<1> QED
  BY <1>1, <1>7, <1>8, <1>9, SettledNamed

LEMMA SkipNamed ==
  ASSUME NEW st, NEW id, Underway(st), OnRecord(st), now \in Nat
  PROVE  Underway(Skip(st, id))
<1> DEFINE closed == FeedSetCursor(RoundFinalise(st, id, "skipped", "", 0), id)
           counted == EmptyClosed(closed)
<1>1. Underway(closed)
  BY SettledRoundNamed
<1>2. Skip(st, id) = AfterEmpty(counted)
  BY DEF Skip
<1> HIDE DEF closed
<1>3. Underway(counted)
  BY <1>1, EmptyClosedLeaves, RecordNamed DEF Underway
<1> HIDE DEF counted
<1> QED
  BY <1>2, <1>3, AfterEmptyLeaves, RecordNamed DEF Underway

\* Rounds that go name nothing.
LEMMA FewerNamed ==
  ASSUME NEW st, NEW t, Underway(st), StillThere(t, st), t.disputes = st.disputes,
         DOMAIN t.rounds \subseteq DOMAIN st.rounds, \A id \in DOMAIN t.rounds : t.rounds[id] = st.rounds[id]
  PROVE  Underway(t)
BY DEF Underway, Named, StillThere

LEMMA PrunedNamed ==
  ASSUME NEW st, NEW most, Underway(st)
  PROVE  Underway(Pruned(st, most))
<1> DEFINE next == Smaller(PruneStop(st, PruneEnd(st.feed)), st.feed.oldestRound + most)
           t == DropRounds(st, next)
<1>1. Pruned(st, most) = t
  BY DEF Pruned
<1>2. t.disputes = st.disputes /\ t.rounds = [id \in DOMAIN st.rounds \ (st.feed.oldestRound .. (next - 1)) |-> st.rounds[id]]
  BY DEF DropRounds, Underway, Framed, Tables
<1>3. StillThere(Pruned(st, most), st)
  BY PrunedStillThere DEF Underway
<1> HIDE DEF t, next
<1> QED
  BY <1>1, <1>2, <1>3, FewerNamed

LEMMA ReopenNamed ==
  ASSUME NEW st, NEW at \in Nat, Underway(st)
  PROVE  Underway(FeedResetForReopen(st, at))
<1> DEFINE t == FeedResetForReopen(st, at)
<1>1. t.disputes = st.disputes /\ t.rounds = [id \in DOMAIN st.rounds \ {0} |-> st.rounds[id]]
  BY DEF FeedResetForReopen, Underway, Framed, Tables
<1>2. StillThere(t, st)
  BY ReopenStillThere DEF Underway
<1> HIDE DEF t
<1>3. Underway(t)
  BY <1>1, <1>2, FewerNamed
<1> QED
  BY <1>3 DEF t

LEMMA GoneNamed ==
  ASSUME NEW st, Underway(st)
  PROVE  Underway([st EXCEPT !.feed.status = "pruned", !.slotlog = {}])
<1> DEFINE t == [st EXCEPT !.feed.status = "pruned", !.slotlog = {}]
<1>1. /\ DOMAIN t = Tables /\ t.rounds = st.rounds /\ t.disputes = st.disputes
      /\ t.feed = [st.feed EXCEPT !.status = "pruned"]
  BY DEF Underway, Framed, Tables
<1> HIDE DEF t
<1>2. DOMAIN t.feed = FeedFields /\ t.feed.startAt = st.feed.startAt
  BY <1>1 DEF Underway, Framed, FeedFields, NoFeed
<1>3. Underway(t)
  BY <1>1, <1>2 DEF Underway, Framed, Named
<1> QED
  BY <1>3 DEF t

\* A dispute that opens names a value, and a round that is decided has its value or that of the
\* dispute.
LEMMA OpensNamed ==
  ASSUME NEW st, NEW t, NEW id, NEW d, Underway(st), OnRecord(st), Opens(t, st, id, d), d.proposedValue \in Values
  PROVE  Underway(t)
<1> DEFINE old == st.rounds[id]
           rd == [old EXCEPT !.disputeID = Len(st.disputes) + 1, !.tier = "disputed"]
<1>1. /\ Framed(t) /\ t.feed.startAt = st.feed.startAt /\ id \in DOMAIN st.rounds
      /\ t.disputes = Append(st.disputes, d)
      /\ t.rounds = [k \in DOMAIN st.rounds \cup {id} |-> IF k = id THEN rd ELSE st.rounds[k]]
  BY DEF Opens, SameCursors
<1>2. rd.subs = old.subs /\ rd.status = old.status /\ rd.value = old.value
  BY <1>1 DEF OnRecord, RoundsSound, RoundFields, FreshRound
<1> HIDE DEF rd
<1>3. \A k \in DOMAIN t.rounds :
        Names(t.rounds[k].subs) /\ (t.rounds[k].status = "aggregated" => t.rounds[k].value \in Values)
  BY <1>1, <1>2 DEF Underway, Named
<1>4. \A n \in DOMAIN t.disputes : t.disputes[n].proposedValue \in Values
  <2>1. IsSequence(st.disputes)
    BY DEF OnRecord, DisputesSound
  <2>2. \A n \in DOMAIN t.disputes : t.disputes[n] = d \/ (n \in DOMAIN st.disputes /\ t.disputes[n] = st.disputes[n])
    BY <1>1, <2>1, Appended
  <2> QED
    BY <2>2 DEF Underway, Named
<1> QED
  BY <1>1, <1>3, <1>4 DEF Underway, Named

LEMMA AmendedNames ==
  ASSUME NEW st, NEW t, NEW n, NEW e, Underway(st), OnRecord(st), n \in Running(st),
         e.proposedValue = st.disputes[n].proposedValue, t.disputes = [st.disputes EXCEPT ![n] = e]
  PROVE  \A i \in DOMAIN t.disputes : t.disputes[i].proposedValue \in Values
<1>1. IsSequence(st.disputes) /\ n \in DOMAIN st.disputes
  BY DEF OnRecord, DisputesSound, Running
<1>2. /\ DOMAIN t.disputes = DOMAIN st.disputes /\ t.disputes[n] = e
      /\ \A i \in DOMAIN st.disputes \ {n} : t.disputes[i] = st.disputes[i]
  BY <1>1, Amended
<1> QED
  BY <1>1, <1>2 DEF Underway, Named

LEMMA AmendsNamed ==
  ASSUME NEW st, NEW t, NEW n, NEW e, Underway(st), OnRecord(st), Amends(t, st, n, e)
  PROVE  Underway(t)
<1>1. \A i \in DOMAIN t.disputes : t.disputes[i].proposedValue \in Values
  BY AmendedNames DEF Amends
<1> QED
  BY <1>1 DEF Amends, Underway, Named

LEMMA EndsNamed ==
  ASSUME NEW st, NEW t, NEW n, NEW e, NEW rd, Underway(st), OnRecord(st), Ends(t, st, n, e, rd)
  PROVE  Underway(t)
<1> DEFINE id == st.disputes[n].round
           old == st.rounds[id]
<1>1. /\ Framed(t) /\ t.feed.startAt = st.feed.startAt /\ n \in Running(st)
      /\ t.rounds = [k \in DOMAIN st.rounds \cup {id} |-> IF k = id THEN rd ELSE st.rounds[k]]
      /\ rd.subs = old.subs /\ rd.value \in {old.value, st.disputes[n].proposedValue}
  BY DEF Ends, SameCursors, Ruled
<1>2. id \in DOMAIN st.rounds /\ old.status = "aggregated" /\ n \in DOMAIN st.disputes
  BY <1>1 DEF OnRecord, DisputesSound, Running
<1>3. Names(rd.subs) /\ rd.value \in Values
  BY <1>1, <1>2 DEF Underway, Named
<1> HIDE DEF id
<1>4. \A k \in DOMAIN t.rounds :
        Names(t.rounds[k].subs) /\ (t.rounds[k].status = "aggregated" => t.rounds[k].value \in Values)
  BY <1>1, <1>3 DEF Underway, Named
<1>5. \A i \in DOMAIN t.disputes : t.disputes[i].proposedValue \in Values
  BY AmendedNames DEF Ends
<1> QED
  BY <1>1, <1>4, <1>5 DEF Underway, Named

-----------------------------------------------------------------------------
(* The actions name only values. *)

Naming == Named(Store)

LEMMA NamingUnderway ==
  ASSUME Naming, Recording
  PROVE  Underway(Store)
BY StoreOnRecord DEF Naming, Underway

LEMMA NamedCommitted ==
  ASSUME NEW st, Underway(st), Commit(st)
  PROVE  Naming'
<1>1. Store'.rounds = st.rounds /\ Store'.disputes = st.disputes
  BY DEF Store, Commit
<1> QED
  BY <1>1 DEF Naming, Named, Underway

LEMMA QuietNames ==
  ASSUME Naming, Recording, Quiet
  PROVE  Naming'
<1>1. PICK t : SameRecord(t, Store) /\ Commit(t)
  BY DEF Quiet
<1> QED
  BY <1>1, NamingUnderway, RecordNamed, NamedCommitted

LEMMA SubmitNames ==
  ASSUME Naming, Recording, NEW p \in Providers, NEW id \in OpenedRounds, NEW v \in Values, Submit(p, id, v)
  PROVE  Naming'
<1> DEFINE rd == GetRound(Store, id)
           s == providers[p].slot
           subs == [x \in DOMAIN rd.subs \cup {s} |-> IF x = s THEN v ELSE rd.subs[x]]
           answered == [rd EXCEPT !.subs = subs]
           submitted == PutRound(Store, id, answered)
<1>1. Commit(IF AllSubmitted(submitted, id) /\ IsNext(id) THEN Finalise(submitted, id) ELSE submitted)
  BY DEF Submit, Submitted, Answered, Completes
<1>2. /\ feed.haveLast => id > feed.lastFinalized
      /\ rd.status = "open"
      /\ Exists(Sched(feed), id, now)
  BY DEF Submit, MaySubmit, MayAnswer
<1>3. id \in Nat /\ (~Recurs => id = 0)
  <2>1. id \in Nat
    BY DEF OpenedRounds
  <2> QED
    BY <1>2, <2>1, OneOffSchedule DEF Exists
<1>4. id >= NextRound(Store.feed.haveLast, Store.feed.lastFinalized)
  BY <1>2, <1>3, StoreOnRecord DEF NextRound, OnRecord, Cursors
<1>5. Names(rd.subs) /\ Underway(Store)
  BY NamingUnderway, GotNamed
<1>6. Names(subs)
  <2> HIDE DEF rd, s
  <2> QED
    BY <1>5 DEF Names
<1>7. /\ DOMAIN answered = RoundFields /\ answered.status = "open" /\ answered.tier = rd.tier
      /\ answered.disputeID = rd.disputeID /\ answered.subs = subs
  <2>1. DOMAIN rd = RoundFields
    BY StoreOnRecord DEF GetRound, OnRecord, RoundsSound, RoundFields
  <2> HIDE DEF rd, subs
  <2> QED
    BY <1>2, <2>1 DEF RoundFields, FreshRound
<1> HIDE DEF answered, subs
<1>8. OnRecord(submitted)
  BY <1>3, <1>4, <1>7, StoreOnRecord, OpenRoundPut
<1>9. Underway(submitted)
  BY <1>5, <1>6, <1>7, PutNamed
<1>10. submitted.feed = feed
  BY DEF PutRound, Store
<1> HIDE DEF submitted, rd
<1>11. IsNext(id) => IsNextOf(submitted, id)
  BY <1>3, <1>10 DEF IsNext, IsNextOf
<1>12. IsNext(id) => Underway(Finalise(submitted, id))
  BY <1>8, <1>9, <1>11, StoreOnRecord, FinaliseNamed
<1> QED
  BY <1>1, <1>9, <1>12, NamedCommitted

LEMMA RoundOpsName ==
  ASSUME Naming, Recording, RoundOps
  PROVE  Naming'
<1>1. feed.lastFinalized \in Nat
  BY StoreOnRecord DEF OnRecord, Cursors
<1>2. ASSUME NEW id, IsNextOf(Store, id), Commit(Finalise(Store, id)) \/ Commit(Skip(Store, id))
      PROVE  Naming'
  BY <1>2, StoreOnRecord, NamingUnderway, FinaliseNamed, SkipNamed, NamedCommitted
<1>3. ASSUME NEW id \in OpenedRounds, Finalize(id)
      PROVE  Naming'
  <2>1. IsNext(id) /\ Exists(Sched(feed), id, now) /\ Commit(Finalise(Store, id))
    BY <1>3 DEF Finalize
  <2>2. id \in Nat
    BY DEF OpenedRounds
  <2>3. IsNextOf(Store, id)
    BY <2>1, <2>2, OneOffSchedule, StoreOnRecord DEF IsNext, IsNextOf, Exists
  <2> QED
    BY <1>2, <2>1, <2>3
<1>4. CASE CatchUp
  <2>1. PICK id \in Finalisable(Sched(feed), feed.haveLast, feed.lastFinalized, now, 1) :
          Commit(IF id \in DOMAIN rounds THEN Finalise(Store, id) ELSE Skip(Store, id))
    BY <1>4 DEF CatchUp
  <2>2. id = NextRound(feed.haveLast, feed.lastFinalized) /\ id \in Nat /\ (~Recurs => id = 0)
    <3>1. NextRound(feed.haveLast, feed.lastFinalized) \in Nat
      BY <1>1 DEF NextRound
    <3> QED
      BY <2>1, <3>1, OneOffSchedule DEF Finalisable
  <2>3. IsNextOf(Store, id)
    BY <2>2, StoreOnRecord DEF IsNextOf
  <2> QED
    BY <1>2, <2>1, <2>3
<1> QED
  BY <1>3, <1>4, SubmitNames DEF RoundOps

LEMMA DisputeOpsName ==
  ASSUME Naming, Recording, DisputeOps
  PROVE  Naming'
<1>1. Underway(Store) /\ OnRecord(Store)
  BY NamingUnderway, StoreOnRecord
<1>2. ASSUME NEW acct, NEW id \in DOMAIN rounds, NEW v \in Values, NEW tier, Dispute(acct, id, v, tier)
      PROVE  Naming'
  <2>1. PICK t, s, d : Commit(t) /\ SameRecord(s, Store) /\ Opens(t, s, id, d) /\ d.proposedValue = v
    BY <1>2, DisputeOpens
  <2>2. Underway(t)
    BY <1>1, <2>1, RecordNamed, RecordKept, OpensNamed
  <2> QED
    BY <2>1, <2>2, NamedCommitted
<1>3. ASSUME NEW acct, NEW n \in DOMAIN disputes, Appeal(acct, n)
      PROVE  Naming'
  <2>1. PICK t, s, e : Commit(t) /\ SameRecord(s, Store) /\ Amends(t, s, n, e)
    BY <1>3, AppealAmends
  <2>2. Underway(t)
    BY <1>1, <2>1, RecordNamed, RecordKept, AmendsNamed
  <2> QED
    BY <2>1, <2>2, NamedCommitted
<1>4. ASSUME NEW n \in DOMAIN disputes, ResolveDispute(n)
      PROVE  Naming'
  <2>1. CASE ResolveOpen(n)
    <3>1. PICK t, e : Commit(t) /\ Amends(t, Store, n, e)
      BY <2>1, ResolveOpenAmends
    <3> QED
      BY <1>1, <3>1, AmendsNamed, NamedCommitted
  <2>2. CASE Applies(n)
    <3>1. PICK t, s, e, rd : Commit(t) /\ SameRecord(s, Store) /\ Ends(t, s, n, e, rd)
      BY <2>2, AppliedEnds
    <3>2. Underway(t)
      BY <1>1, <3>1, RecordNamed, RecordKept, EndsNamed
    <3> QED
      BY <3>1, <3>2, NamedCommitted
  <2> QED
    BY <1>4, <2>1, <2>2, ResolvingApplies
<1>5. ASSUME NEW resolveAt \in (now + ResolveLead.min) .. (now + ResolveLead.max), ReopenOneOff(resolveAt)
      PROVE  Naming'
  <2>1. resolveAt \in Nat
    <3>1. ResolveLead.min \in Nat /\ now \in Nat
      BY TimesAssumption, StoreOnRecord
    <3> QED
      BY <3>1
  <2> QED
    BY <1>1, <1>5, <2>1, ReopenNamed, NamedCommitted DEF ReopenOneOff
<1> QED
  BY <1>2, <1>3, <1>4, <1>5 DEF DisputeOps

LEMMA FeedOpsName ==
  ASSUME Naming, Recording, FeedOps
  PROVE  Naming'
<1>1. Underway(Store) /\ OnRecord(Store) /\ Framed(Store)
  BY NamingUnderway, StoreOnRecord
<1>2. CASE FeedLifeOps
  BY <1>2, FeedLifeIsQuiet, QuietNames
<1>3. ASSUME NEW u, UpdateFeed(u)
      PROVE  Naming'
  <2> DEFINE drip == IF Recurs /\ u.subscriptionPrice # feed.subscriptionPrice
                     THEN DripFor(u.subscriptionPrice) ELSE Store.feed.drip
             t == Repriced(Store, u.subscriberPrice, u.subscriptionPrice, u.providerMinStake, u.toleranceBps,
                           u.quarantineBps, u.disputeWindow, drip)
  <2>1. Commit(t)
    BY <1>3 DEF UpdateFeed, Store, Repriced
  <2> HIDE DEF drip
  <2>2. SameRounds(t, Store)
    BY ONLY <1>1, RepricedServes
  <2> HIDE DEF t
  <2> QED
    BY <1>1, <2>1, <2>2, SameNamed, NamedCommitted
<1>4. ASSUME NEW maxRounds \in PruneBatches, PruneRounds(maxRounds)
      PROVE  Naming'
  <2>1. Commit(Pruned(FeedPromoteFinal(Store), maxRounds))
    BY <1>4 DEF PruneRounds
  <2>2. SameRounds(FeedPromoteFinal(Store), Store)
    BY <1>1, StoreOnRecord, FeedPromoteFinalLeaves
  <2> QED
    BY <1>1, <2>1, <2>2, SameNamed, PrunedNamed, NamedCommitted
<1>5. CASE PruneFeed
  <2>1. PICK t : SameRecord(t, Store) /\ Commit([t EXCEPT !.feed.status = "pruned", !.slotlog = {}])
    BY <1>5, PruneFeedLeaves
  <2> QED
    BY <1>1, <2>1, RecordNamed, GoneNamed, NamedCommitted
<1> QED
  BY <1>2, <1>3, <1>4, <1>5 DEF FeedOps, FeedLifeOps

LEMMA InitNames ==
  ASSUME Init
  PROVE  Naming
<1>1. Store.rounds = << >> /\ Store.disputes = << >>
  BY DEF Init, Installed, NewStore, Store
<1>2. DOMAIN Store.rounds = {} /\ DOMAIN Store.disputes = {}
  BY <1>1
<1> QED
  BY <1>2 DEF Naming, Named

LEMMA StepNames ==
  ASSUME Naming, Recording, [Next]_vars
  PROVE  Naming'
<1>1. ASSUME UNCHANGED tables
      PROVE  Naming'
  <2>1. Store' = Store
    BY <1>1 DEF Store, tables
  <2> QED
    BY <2>1 DEF Naming
<1>2. CASE ProviderOps
  BY <1>2, ProviderOpsAreQuiet, QuietNames
<1>3. CASE FundingOps
  BY <1>3, FundingOpsAreQuiet, QuietNames
<1> QED
  BY <1>1, <1>2, <1>3, RoundOpsName, DisputeOpsName, FeedOpsName DEF Next, Tick, vars

-----------------------------------------------------------------------------
(* The face is what FinalFeed sees. *)

Faces == Face(Store, now) = [final |-> FinalRead, pending |-> PendingValues, contested |-> ContestedRounds]

\* The aggregates at or past the end of the walk are those it did not pass.
LEMMA PendingAreUnpassed ==
  ASSUME NEW st, NEW t, OnRecord(st), Dated(st)
  PROVE  { id \in DOMAIN st.rounds : id >= WalkEnd(st, t) /\ st.rounds[id].status = "aggregated" } =
           Listed(st) \ Clear(st, t)
<1> DEFINE f == st.feed
           held_at == { id \in f.finalCursor .. f.lastFinalized : HoldsPromotion(st, id, t) }
           end == WalkEnd(st, t)
<1>1. f.finalCursor \in Nat /\ f.lastFinalized \in Nat /\ DOMAIN st.rounds \subseteq Nat
  BY DEF OnRecord, Cursors, RoundsSound
<1>2. end \in Nat /\ end >= f.finalCursor
  <2>1. CASE ~f.haveLast \/ f.finalCursor > f.lastFinalized
    BY <1>1, <2>1 DEF WalkEnd
  <2>2. CASE ~(~f.haveLast \/ f.finalCursor > f.lastFinalized) /\ held_at = {}
    <3>1. end = f.lastFinalized + 1
      BY <2>2 DEF WalkEnd
    <3> QED
      BY <1>1, <2>2, <3>1
  <2>3. CASE ~(~f.haveLast \/ f.finalCursor > f.lastFinalized) /\ held_at # {}
    <3>1. end = Min(held_at)
      BY <2>3 DEF WalkEnd
    <3>2. held_at \in SUBSET Nat /\ \A id \in held_at : id >= f.finalCursor
      BY <1>1
    <3> HIDE DEF held_at, end
    <3>3. Min(held_at) \in held_at
      BY <2>3, <3>2, LeastOf
    <3> QED
      BY <3>1, <3>2, <3>3
  <2> QED
    BY <2>1, <2>2, <2>3
<1>3. Passed(st, end) = Clear(st, t)
  BY WalkPassesClear
<1> HIDE DEF end, held_at
<1>4. \A id \in DOMAIN st.rounds : id >= end => id >= f.finalCursor
  BY <1>1, <1>2
<1>5. \A id \in DOMAIN st.rounds :
        (id >= f.finalCursor /\ st.rounds[id].status = "aggregated") => (id \in Passed(st, end) <=> ~(id >= end))
  BY <1>1, <1>2 DEF Passed
<1>6. { id \in DOMAIN st.rounds : id >= end /\ st.rounds[id].status = "aggregated" } = Listed(st) \ Passed(st, end)
  BY <1>4, <1>5 DEF Listed
<1> QED
  BY <1>3, <1>6 DEF end

LEMMA FinalisingFaces ==
  ASSUME Finalising
  PROVE  Faces
<1>1. OnRecord(Store) /\ Dated(Store) /\ Store.rounds = rounds
  BY FinalisingRecords, StoreOnRecord DEF Finalising, Finals
<1> DEFINE pending == Listed(Store) \ Clear(Store, now)
<1>2. PendingRounds = pending
  BY <1>1, PendingAreUnpassed DEF PendingRounds
<1>3. PendingValues = PendingOf(Store, now)
  BY <1>1, <1>2 DEF PendingValues, PendingOf
<1>4. ContestedRounds = Contested(Store, now)
  <2>1. Contested(Store, now) \subseteq pending
    BY <1>1, ClearFirst
  <2>2. \A id \in pending : /\ id \in DOMAIN Store.rounds /\ id \in Listed(Store)
                            /\ Store.rounds[id].status = "aggregated"
    BY DEF Listed
  <2>3. \A id \in pending : HoldsPromotion(Store, id, now) <=> id \in Contested(Store, now)
    BY <1>1, <2>2, HoldingIsHeldBack DEF Contested
  <2> HIDE DEF pending
  <2> QED
    BY <1>2, <2>1, <2>3 DEF ContestedRounds
<1>5. FinalRead = FinalOf(Store, now)
  <2> DEFINE lf == LatestFinal(Store, now)
             read == FinalOf(Store, now)
  <2>1. /\ lf.ok <=> read.ok
        /\ lf.ok => lf.round = read.round /\ lf.value = read.value
    BY <1>1, LatestIsFinal
  <2>2. /\ read = [ok |-> read.ok, round |-> read.round, value |-> read.value] /\ read.ok \in BOOLEAN
        /\ ~read.ok => read.round = 0 /\ read.value = 0
    BY DEF FinalOf, OnFile
  <2>3. ReadFinal = FinalAnswer(lf)
    BY DEF ReadFinal
  <2> HIDE DEF lf, read
  <2>4. CASE read.ok
    <3>1. ReadFinal.ok = TRUE /\ ReadFinal.round = read.round /\ ReadFinal.value = read.value
      BY <2>1, <2>3, <2>4 DEF FinalAnswer
    <3>2. read.ok = TRUE
      BY <2>2, <2>4
    <3>3. FinalRead = [ok |-> TRUE, round |-> read.round, value |-> read.value]
      BY <3>1 DEF FinalRead
    <3>4. read = [ok |-> TRUE, round |-> read.round, value |-> read.value]
      BY <2>2, <3>2
    <3>5. FinalRead = read
      BY <3>3, <3>4
    <3> QED
      BY <3>5 DEF read
  <2>5. CASE ~read.ok
    <3>1. ReadFinal.ok = FALSE /\ ReadFinal.round = 0 /\ ReadFinal.value = 0
      BY <2>1, <2>3, <2>5 DEF FinalAnswer, Unserved
    <3>2. read.ok = FALSE /\ read.round = 0 /\ read.value = 0
      BY <2>2, <2>5
    <3>3. FinalRead = [ok |-> FALSE, round |-> read.round, value |-> read.value]
      BY <3>1, <3>2 DEF FinalRead
    <3>4. read = [ok |-> FALSE, round |-> read.round, value |-> read.value]
      BY <2>2, <3>2
    <3>5. FinalRead = read
      BY <3>3, <3>4
    <3> QED
      BY <3>5 DEF read
  <2> QED
    BY <2>4, <2>5 DEF read
<1> QED
  BY <1>3, <1>4, <1>5 DEF Faces, Face

LEMMA SameGreatest ==
  ASSUME NEW S
  PROVE  Promise!Max(S) = Max(S)
BY DEF Promise!Max, Max

\* A change of the face by an advance is one of FinalFeed's.
LEMMA AdvanceIsPromised ==
  ASSUME NEW f, NEW g, NEW p, NEW c, Advanced(g, f, p, c),
         f = [final |-> FinalRead, pending |-> PendingValues, contested |-> ContestedRounds],
         g = [final |-> FinalRead', pending |-> PendingValues', contested |-> ContestedRounds']
  PROVE  Promise!Advance(p, c)
<1>1. f.final = FinalRead /\ g.final = FinalRead' /\ g.pending = PendingValues' /\ g.contested = ContestedRounds'
  OBVIOUS
<1> DEFINE clear == { r \in DOMAIN p : \A k \in c : r < k }
<1>2. Before(DOMAIN p, c) = clear
  BY DEF Before
<1> HIDE DEF clear
<1>3. /\ FinalRead' = IF clear = {} THEN FinalRead ELSE [ok |-> TRUE, round |-> Max(clear), value |-> p[Max(clear)]]
      /\ PendingValues' = [r \in DOMAIN p \ clear |-> p[r]]
      /\ ContestedRounds' = c
  BY <1>1, <1>2 DEF Advanced
<1>4. Promise!Max(clear) = Max(clear)
  BY SameGreatest
<1> QED
  BY <1>3, <1>4 DEF Promise!Advance, clear

\* A move of the face is a step of FinalFeed.
LEMMA MoveIsPromised ==
  ASSUME Finalising, Finalising', FaceMoved, Naming'
  PROVE  Promise!Next
<1> DEFINE f == Face(Store, now)
           g == Face(Store, now)'
           rs == rounds'
<1>1. f = [final |-> FinalRead, pending |-> PendingValues, contested |-> ContestedRounds]
  BY FinalisingFaces DEF Faces
<1>2. g = [final |-> FinalRead', pending |-> PendingValues', contested |-> ContestedRounds']
  <2>1. Faces'
    BY FinalisingFaces, PTL
  <2> QED
    BY <2>1 DEF Faces
<1>3. DOMAIN rs \subseteq Nat /\ \A id \in DOMAIN rs : rs[id].status = "aggregated" => rs[id].value \in Values
  <2>1. Recording'
    BY FinalisingRecords, PTL
  <2>2. Store'.rounds = rs
    BY DEF Store
  <2>3. DOMAIN rs \subseteq Nat
    BY <2>1, <2>2 DEF Recording, OnRecord, RoundsSound
  <2> QED
    BY <2>2, <2>3 DEF Naming, Named
<1>4. Settles(f, f)
  <2>1. OnRecord(Store)
    BY DEF Finalising, Finals
  <2> QED
    BY <2>1, FaceSettles
<1>5. f.contested \subseteq DOMAIN f.pending
  <2>1. f.contested = Contested(Store, now) /\ DOMAIN f.pending = Listed(Store) \ Clear(Store, now)
    BY FaceFields
  <2>2. OnRecord(Store)
    BY DEF Finalising, Finals
  <2> QED
    BY <2>1, <2>2, ClearFirst
<1>6. Turned(g, f, rs)
  BY FaceTurned
<1> HIDE DEF f, g, rs
<1>7. /\ f.final = FinalRead /\ f.pending = PendingValues /\ f.contested = ContestedRounds
      /\ g.final = FinalRead' /\ g.pending = PendingValues' /\ g.contested = ContestedRounds'
  BY <1>1, <1>2
<1>8. \A p, c : Advanced(g, f, p, c) => Promise!Advance(p, c)
  BY <1>1, <1>2, AdvanceIsPromised
<1>9. ASSUME g = f
      PROVE  Promise!Settle
  <2>1. PICK done \in SUBSET f.contested : Advanced(f, f, f.pending, f.contested \ done)
    BY <1>4 DEF Settles
  <2>2. Promise!Advance(f.pending, f.contested \ done)
    BY <1>8, <1>9, <2>1
  <2> QED
    BY <1>7, <2>2 DEF Promise!Settle
<1>10. ASSUME Publishes(g, f, rs)
       PROVE  Promise!Publish
  <2>1. PICK id \in DOMAIN rs :
          /\ rs[id].status = "aggregated" /\ \A r \in DOMAIN f.pending : r < id
          /\ f.final.ok => f.final.round < id
          /\ Advanced(g, f, [r \in DOMAIN f.pending \cup {id} |-> IF r = id THEN rs[id].value ELSE f.pending[r]],
                      f.contested \cup {id})
    BY <1>10 DEF Publishes
  <2> DEFINE v == rs[id].value
             p == [r \in DOMAIN f.pending \cup {id} |-> IF r = id THEN v ELSE f.pending[r]]
             c == f.contested \cup {id}
  <2>2. v \in Values /\ id \in Nat
    BY <1>3, <2>1
  <2>3. Advanced(g, f, p, c)
    BY <2>1
  <2>4. g.contested = c
    BY <2>3 DEF Advanced
  <2>5. id \notin f.contested
    BY <1>5, <2>1, <2>2
  <2>6. Promise!Advance(p, c)
    BY <1>8, <2>3
  <2> HIDE DEF v
  <2> QED
    BY <1>7, <2>1, <2>2, <2>4, <2>5, <2>6 DEF Promise!Publish
<1>11. ASSUME Revises(g, f, rs)
       PROVE  Promise!Revise
  <2>1. PICK id \in f.contested \cap DOMAIN rs : \E c \in {f.contested, f.contested \ {id}} :
          rs[id].status = "aggregated" /\ Advanced(g, f, [f.pending EXCEPT ![id] = rs[id].value], c)
    BY <1>11 DEF Revises
  <2>2. PICK c \in {f.contested, f.contested \ {id}} :
          rs[id].status = "aggregated" /\ Advanced(g, f, [f.pending EXCEPT ![id] = rs[id].value], c)
    BY <2>1
  <2>3. rs[id].value \in Values /\ Promise!Advance([f.pending EXCEPT ![id] = rs[id].value], c)
    BY <1>3, <1>8, <2>2
  <2> QED
    BY <1>7, <2>2, <2>3 DEF Promise!Revise
<1>12. ASSUME Withdraws(g, f)
       PROVE  Promise!Withdraw
  <2>1. PICK id \in f.contested :
          Advanced(g, f, [r \in DOMAIN f.pending \ {id} |-> f.pending[r]], f.contested \ {id})
    BY <1>12 DEF Withdraws
  <2>2. Promise!Advance([r \in DOMAIN f.pending \ {id} |-> f.pending[r]], f.contested \ {id})
    BY <1>8, <2>1
  <2> QED
    BY <1>7, <2>2 DEF Promise!Withdraw
<1>13. ASSUME Settles(g, f)
       PROVE  Promise!Settle
  <2>1. PICK done \in SUBSET f.contested : Advanced(g, f, f.pending, f.contested \ done)
    BY <1>13 DEF Settles
  <2>2. Promise!Advance(f.pending, f.contested \ done)
    BY <1>8, <2>1
  <2> QED
    BY <1>7, <2>2 DEF Promise!Settle
<1>14. Moves(g, f, rs) => Promise!Settle \/ Promise!Publish \/ Promise!Revise \/ Promise!Withdraw
  BY <1>9, <1>10, <1>11, <1>12, <1>13 DEF Moves
<1>15. ASSUME Overrules(g, f, rs), FinalDoubted, feed'.disputeWindow = feed.disputeWindow
       PROVE  Promise!Overrule
  <2>1. /\ f.final.round \in DOMAIN rs /\ rs[f.final.round].status = "aggregated"
        /\ g.final = [ok |-> TRUE, round |-> f.final.round, value |-> rs[f.final.round].value]
        /\ g.pending = f.pending /\ g.contested = f.contested
    BY <1>15 DEF Overrules
  <2>2. rs[f.final.round].value \in Values
    BY <1>3, <2>1
  <2> QED
    BY <1>7, <1>15, <2>1, <2>2 DEF Promise!Overrule
<1>16. ASSUME Widens(g, f), feed'.disputeWindow > feed.disputeWindow
       PROVE  Promise!Widen
  BY <1>7, <1>16 DEF Widens, Promise!Widen
<1> QED
  BY <1>6, <1>7, <1>14, <1>15, <1>16 DEF Turned, Promise!Next, Promise!Steady

LEMMA InitIsPromised ==
  ASSUME Init
  PROVE  Promise!Init
<1> DEFINE st == Store
<1>1. st.feed = NoFeed /\ st.rounds = << >>
  BY DEF Init, Installed, NewStore, Store
<1>2. Faces
  BY InitFinalising, FinalisingFaces
<1> HIDE DEF st
<1>3. DOMAIN st.rounds = {} /\ NoFeed.haveFinal = FALSE
  <2>1. DOMAIN st.rounds = {}
    BY <1>1
  <2>2. NoFeed.haveFinal = FALSE
    BY DEF NoFeed
  <2> QED
    BY <2>1, <2>2
<1>4. Listed(st) = {} /\ Clear(st, now) = {} /\ Contested(st, now) = {}
  BY <1>3 DEF Listed, Clear, Before, Contested
<1>5. FinalOf(st, now) = [ok |-> FALSE, round |-> 0, value |-> 0]
  BY <1>1, <1>3, <1>4 DEF FinalOf, OnFile
<1>6. PendingOf(st, now) = << >>
  BY <1>4 DEF PendingOf
<1>7. /\ PendingValues = Face(st, now).pending /\ ContestedRounds = Face(st, now).contested
      /\ FinalRead = Face(st, now).final
  BY <1>2 DEF Faces, st
<1>8. PendingValues = << >> /\ ContestedRounds = {} /\ FinalRead = [ok |-> FALSE, round |-> 0, value |-> 0]
  BY <1>4, <1>5, <1>6, <1>7 DEF Face
<1>9. ~FinalDoubted
  <2>1. ~Wavers(st, now)
    BY <1>1, <1>3 DEF Wavers, Uncertain
  <2> QED
    BY <2>1, InitFinalising, DoubtedIsWavering DEF st
<1>10. feed.disputeWindow \in Nat
  BY InitFinalising DEF Finalising, Finals, Dated, Store
<1> QED
  BY <1>8, <1>9, <1>10 DEF Promise!Init, Promise!NoFinal

\* The core implements FinalFeed: whatever providers submit, disputers claim and ballots decide,
\* what is read as final is the newest round of the uncontested prefix, never withdrawn, rewritten
\* or taken back to an earlier round but as FinalFeed allows when governance makes the dispute
\* window longer, and every value read is one that a provider submitted or a disputer proposed
\* (FeedPromoteFinal, RoundOverturn, RoundVoid, RoundRestartWindow, state.gno; latestFinal,
\* consumers.gno; UpdateFeed, feeds.gno).
THEOREM CoreKeepsFinalFeed == Spec => FinalFeedKept
<1>1. Init => Promise!Init /\ Finalising /\ Seating /\ Naming
  BY InitIsPromised, InitFinalising, InitSeats, InitNames
<1>2. Finalising /\ Seating /\ Naming /\ [Next]_vars =>
        (Finalising /\ Seating /\ Naming)' /\ [Promise!Next]_(Promise!vars)
  BY StepFinalising, FinalisingRecords, StepSeats, StepNames, MoveIsPromised
<1> QED
  BY <1>1, <1>2, PTL DEF Spec, FinalFeedKept, Promise!Spec

=============================================================================
