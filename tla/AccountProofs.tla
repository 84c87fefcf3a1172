---------------------------- MODULE AccountProofs ----------------------------
(***************************************************************************)
(* The account's safety properties, proved for every set of delegate       *)
(* generations, seeds and settings, and for any number of page loads.      *)
(***************************************************************************)
EXTENDS Account, FiniteSetTheorems, FunctionTheorems, SequenceTheorems,
        WellFoundedInduction, TLAPS

-----------------------------------------------------------------------------
(* The inductive invariant *)

Places(s) == 1..Len(s)

\* What a page may have sent to g.  Values go to the current generation only,
\* only the seed is ever deleted, and who sent a write was attested.
Sendable(g, r, load, att, mint) ==
  /\ r \in Request /\ r.load <= load
  /\ r.op = "List" => g # Current
  /\ r.op = "Store" => /\ g = Current
                       /\ IF r.key = "posting_key" THEN r.value \in mint ELSE r.value = Stored
  /\ r.op = "Delete" => r.key = "posting_key"
  /\ r.op = "Get" /\ g = Current => r.key = "posting_key"
  /\ r.op \in {"Store", "Delete"} => att[r.load]

\* What g may have answered.
Answerable(g, a, reg, mint) ==
  /\ a \in Answer
  /\ a.kind = "Value" => IF a.key = "posting_key" THEN a.value \in mint \cup {None}
                         ELSE a.value \in {Stored, None}
  /\ g = Current => a.kind # "KeyList" /\ (a.kind = "Value" => a.key = "posting_key")
  /\ g # Current /\ a.kind = "KeyList" => g \in reg

StoreOK ==
  /\ store \in [Generation -> [Key -> Value \cup {None}]]
  /\ \A g \in Generation : /\ store[g]["posting_key"] \in minted \cup {None}
                           /\ \A k \in Setting : store[g][k] \in {Stored, None}

\* A generation can run what is asked of it by the time it gets there.
RequestsOK ==
  /\ requests \in [Generation -> Seq(Request)]
  /\ \A g \in Generation : \A i \in Places(requests[g]) :
        /\ Sendable(g, requests[g][i], loads, attested, minted)
        /\ \/ requests[g][i].op = "Register"
           \/ g \in registered
           \/ \E j \in 1..i-1 : requests[g][j].op = "Register"

AnswersOK ==
  /\ answers \in [Generation -> Seq(Answer)]
  /\ \A g \in Generation : \A i \in Places(answers[g]) : Answerable(g, answers[g][i], registered, minted)

RestOK ==
  /\ registered \subseteq Generation
  /\ attested \in [1..MaxLoads -> BOOLEAN]
  /\ page \in Page
  /\ loads \in 1..MaxLoads /\ nukes \in Nat
  /\ minted \subseteq Seed /\ destroyed \subseteq minted
  /\ lost \in BOOLEAN /\ haunted \in BOOLEAN /\ refused \in SUBSET {"Store", "Delete"}

TypeInv == StoreOK /\ RequestsOK /\ AnswersOK /\ RestOK

Unheard == page.POSTING_KEY_LOADED = Unanswered
Open == page.socket = "open"

\* The account on the screen is the seed last heard of.
ScreenInv ==
  /\ Open => page.status = "Connected"
  /\ page.ACCOUNT = IF page.POSTING_KEY_LOADED \in Seed THEN page.POSTING_KEY_LOADED ELSE None
  /\ page.ACCOUNT \in minted \cup {None}
  /\ \A g \in Generation : answers[g] # <<>> => Open

\* A page that has not heard of the posting key asked for it last, and once.
UnheardInv ==
  Unheard =>
    /\ ~page.PENDING /\ ~page.PROBE_DONE
    /\ \A g \in Legacy : /\ answers[g] = <<>>
                         /\ \A i \in Places(requests[g]) : requests[g][i].load # loads
    /\ \A i \in Places(requests[Current]) :
         IF i = Len(requests[Current])
         THEN requests[Current][i] = [op |-> "Get", key |-> "posting_key", load |-> loads]
         ELSE requests[Current][i].op = "Get" => requests[Current][i].load # loads

\* One that has was attested, and asks no more.
HeardInv ==
  ~Unheard =>
    /\ attested[loads] /\ (Open => Current \in registered)
    /\ \A i \in Places(requests[Current]) :
         ~(requests[Current][i].op = "Get" /\ requests[Current][i].load = loads)

\* The answer is the seed in the store, with nothing on its way to change it.
AnswerInv ==
  \A i \in Places(answers[Current]) : answers[Current][i].kind = "Value" =>
    /\ Unheard /\ requests[Current] = <<>>
    /\ answers[Current][i].value = store[Current]["posting_key"]
    /\ attested[loads] /\ Current \in registered
    /\ \A j \in Places(answers[Current]) : answers[Current][j].kind = "Value" => j = i

PageInv == ScreenInv /\ UnheardInv /\ HeardInv /\ AnswerInv

IsSeed(a) == a.kind = "Value" /\ a.key = "posting_key"

\* No wipe was lost, or failed, or was overtaken by an answer.
Wiped == ~lost /\ ~haunted /\ "Delete" \notin refused

\* No destroyed seed is under way from an old generation.
WipeInv ==
  Wiped =>
    \A g \in Legacy :
      /\ \A i \in Places(answers[g]) : IsSeed(answers[g][i]) => answers[g][i].value \notin destroyed
      /\ \A i \in Places(requests[g]) :
           /\ requests[g][i].op = "Get" /\ requests[g][i].key = "posting_key"
           /\ \A j \in 1..i-1 : requests[g][j].op # "Delete"
           => store[g]["posting_key"] \notin destroyed

\* The answers that the probe is owed are asked for ...
Asked(load, reqs) ==
  {p \in Legacy \X Nat : /\ p[2] \in Places(reqs[p[1]])
                         /\ reqs[p[1]][p[2]].op \in {"List", "Get"}
                         /\ reqs[p[1]][p[2]].load = load}

\* ... or on their way.
Said(ans) ==
  {p \in Legacy \X Nat : p[2] \in Places(ans[p[1]]) /\ ans[p[1]][p[2]].kind # "Empty"}

\* The probe does not end before the last of them, unless it says so.
CountInv ==
  Open /\ ~page.FAILED =>
    /\ page.OUTSTANDING >= Cardinality(Asked(loads, requests)) + Cardinality(Said(answers))
    /\ page.OUTSTANDING > 0 => page.PENDING

\* One request of a queue, or one answer, will say what is held under k.
Asks(load, rs, k) ==
  \E i \in Places(rs) : /\ rs[i].load = load
                        /\ \/ rs[i].op = "List"
                           \/ rs[i].op = "Get" /\ rs[i].key = k

Says(a, k) ==
  \/ a.kind = "KeyList" /\ k \in a.keys
  \/ a.kind = "Value" /\ a.key = k /\ a.value # None

Tells(g, k) ==
  \/ Asks(loads, requests[g], k)
  \/ \E i \in Places(answers[g]) : Says(answers[g][i], k)

\* The current generation has no seed but the account's and destroyed ones.
HeldInv ==
  ~Unheard =>
    /\ store[Current]["posting_key"] \in destroyed \cup {None, page.ACCOUNT}
    /\ \A i \in Places(requests[Current]) :
         requests[Current][i].op = "Store" /\ requests[Current][i].key = "posting_key" =>
           requests[Current][i].value \in destroyed \cup {page.ACCOUNT}

\* A live seed of an old generation will be heard of.
LiveInv ==
  Open /\ ~page.FAILED /\ page.POSTING_KEY_LOADED = None =>
    \A g \in Legacy : \/ store[g]["posting_key"] \in destroyed \cup {None}
                      \/ Tells(g, "posting_key")

\* Nothing is deleted before the first nuke.
DeleteInv ==
  nukes = 0 => \A g \in Generation : \A i \in Places(requests[g]) : requests[g][i].op # "Delete"

\* What an old generation holds was carried, or will be heard of.
CarryInv ==
  Open /\ ~page.FAILED /\ page.PROBE_DONE /\ nukes = 0 /\ ~lost /\ "Store" \notin refused =>
    \A g \in Legacy : \A k \in Key :
      store[g][k] # None => WillHold(Current, k) # None \/ Tells(g, k)

ProbeInv == CountInv /\ HeldInv /\ LiveInv /\ DeleteInv /\ CarryInv

\* A request to store a destroyed seed as the posting key.
Revives(r, dead) == r.op = "Store" /\ r.key = "posting_key" /\ r.value \in dead

\* A destroyed seed in the current generation, and one about to be stored
\* there, has a wipe behind it: a Store that fails uncovers nothing.
DoomedInv ==
  Wiped =>
    /\ store[Current]["posting_key"] \in destroyed =>
         \E j \in Places(requests[Current]) : requests[Current][j].op = "Delete"
    /\ \A i \in Places(requests[Current]) : Revives(requests[Current][i], destroyed) =>
         \E j \in Places(requests[Current]) : j > i /\ requests[Current][j].op = "Delete"

AccountInv == TypeInv /\ PageInv /\ AccountIsStored /\ NukeIsFinal /\ WipeInv /\ ProbeInv

-----------------------------------------------------------------------------
(* Queues *)

\* A queue without its head: every place moves up by one.
LEMMA TailPlaces ==
  ASSUME NEW S, NEW s \in Seq(S), s # <<>>
  PROVE  /\ 1 \in Places(s) /\ Head(s) = s[1] /\ Head(s) \in S
         /\ Tail(s) \in Seq(S) /\ Len(s) \in Nat /\ Len(Tail(s)) = Len(s) - 1
         /\ \A i \in Places(Tail(s)) : i \in Nat /\ i >= 1 /\ i + 1 \in Places(s) /\ Tail(s)[i] = s[i+1]
<1>1. Len(s) \in Nat /\ Len(s) # 0
  BY EmptySeq, LenProperties
<1>2. Len(Tail(s)) = Len(s) - 1 /\ Tail(s) \in Seq(S) /\ Head(s) \in S
      /\ \A i \in 1 .. Len(Tail(s)) : Tail(s)[i] = s[i+1]
  BY HeadTailProperties
<1>3. Head(s) = s[1]
  OBVIOUS
<1>4. QED BY <1>1, <1>2, <1>3 DEF Places

\* A queue with more sent after it: the places of both.
LEMMA CatPlaces ==
  ASSUME NEW S, NEW s \in Seq(S), NEW t \in Seq(S)
  PROVE  /\ s \o t \in Seq(S)
         /\ Len(s) \in Nat /\ Len(t) \in Nat /\ Len(s \o t) = Len(s) + Len(t)
         /\ \A i \in Places(s) : i \in Places(s \o t) /\ (s \o t)[i] = s[i]
         /\ \A i \in Places(t) : Len(s) + i \in Places(s \o t) /\ (s \o t)[Len(s) + i] = t[i]
         /\ \A i \in Places(s \o t) : /\ i \in Nat /\ i >= 1
                                      /\ \/ i \in Places(s)
                                         \/ i > Len(s) /\ i - Len(s) \in Places(t)
<1>1. Len(s) \in Nat /\ Len(t) \in Nat
  BY LenProperties
<1>2. /\ s \o t \in Seq(S) /\ Len(s \o t) = Len(s) + Len(t)
      /\ \A i \in 1 .. Len(s) + Len(t) : (s \o t)[i] = IF i <= Len(s) THEN s[i] ELSE t[i - Len(s)]
  BY ConcatProperties
<1>3. \A i \in Places(s) : i \in Places(s \o t) /\ (s \o t)[i] = s[i]
  BY <1>1, <1>2 DEF Places
<1>4. \A i \in Places(t) : Len(s) + i \in Places(s \o t) /\ (s \o t)[Len(s) + i] = t[i]
  BY <1>1, <1>2 DEF Places
<1>5. QED BY <1>1, <1>2, <1>3, <1>4 DEF Places

\* The queue c is s with t behind it, place by place.
Joins(s, t, c) ==
  /\ Len(s) \in Nat
  /\ \A i \in Places(s) : i \in Nat /\ i >= 1 /\ i <= Len(s) /\ i \in Places(c) /\ c[i] = s[i]
  /\ \A i \in Places(t) : i \in Nat /\ i >= 1 /\ Len(s) + i \in Places(c) /\ c[Len(s) + i] = t[i]
  /\ \A i \in Places(c) : \/ i \in Places(s) /\ c[i] = s[i]
                          \/ \E j \in Places(t) : c[i] = t[j]

\* A concatenation is.
LEMMA CatJoins ==
  ASSUME NEW S, NEW s \in Seq(S), NEW t \in Seq(S)
  PROVE  Joins(s, t, s \o t)
<1> DEFINE c == s \o t
<1>1. Len(s) \in Nat /\ Len(t) \in Nat
  BY LenProperties
<1>2. /\ Len(c) = Len(s) + Len(t)
      /\ \A i \in 1 .. Len(s) + Len(t) : c[i] = IF i <= Len(s) THEN s[i] ELSE t[i - Len(s)]
  BY ConcatProperties
<1> HIDE DEF c
<1>3. ASSUME NEW i \in Places(s)
      PROVE  i \in Nat /\ i >= 1 /\ i <= Len(s) /\ i \in Places(c) /\ c[i] = s[i]
  BY <1>1, <1>2 DEF Places
<1>4. ASSUME NEW i \in Places(t)
      PROVE  i \in Nat /\ i >= 1 /\ Len(s) + i \in Places(c) /\ c[Len(s) + i] = t[i]
  <2>1. i \in Nat /\ i >= 1 /\ i <= Len(t)
    BY <1>1 DEF Places
  <2>2. /\ Len(s) + i \in 1 .. Len(s) + Len(t)
        /\ ~(Len(s) + i <= Len(s)) /\ (Len(s) + i) - Len(s) = i
    BY <1>1, <2>1
  <2>3. QED BY <1>2, <2>1, <2>2 DEF Places
<1>5. ASSUME NEW i \in Places(c)
      PROVE  \/ i \in Places(s) /\ c[i] = s[i]
             \/ \E j \in Places(t) : c[i] = t[j]
  <2>1. i \in 1 .. Len(s) + Len(t)
    BY <1>2 DEF Places
  <2>2. CASE i <= Len(s)
    BY <1>1, <1>2, <2>1, <2>2 DEF Places
  <2>3. CASE ~(i <= Len(s))
    <3>1. i - Len(s) \in Places(t)
      BY <1>1, <2>1, <2>3 DEF Places
    <3>2. c[i] = t[i - Len(s)]
      BY <1>2, <2>1, <2>3
    <3>3. QED BY <3>1, <3>2
  <2>4. QED BY <2>2, <2>3
<1>6. Joins(s, t, c)
  BY <1>1, <1>3, <1>4, <1>5 DEF Joins
<1>7. QED BY <1>6 DEF c

\* Places are positive, there are none in an empty queue, and an element at a
\* place is one of the queue's.
LEMMA PlacesOf ==
  ASSUME NEW S, NEW s \in Seq(S)
  PROVE  /\ Len(s) \in Nat
         /\ s = <<>> <=> Len(s) = 0
         /\ s = <<>> <=> Places(s) = {}
         /\ \A i \in Places(s) : i \in Nat /\ i >= 1 /\ i <= Len(s) /\ s[i] \in S
<1>1. Len(s) \in Nat /\ (s # <<>> => Len(s) # 0) /\ Len(<<>>) = 0
  BY EmptySeq, LenProperties
<1>2. \A i \in Places(s) : s[i] \in S
  BY ElementOfSeq DEF Places
<1>3. Len(s) # 0 => 1 \in Places(s)
  BY <1>1 DEF Places
<1>4. Len(s) = 0 => Places(s) = {}
  BY <1>1 DEF Places
<1>5. QED BY <1>1, <1>2, <1>3, <1>4 DEF Places

\* A nonempty set of places has a last one.
LEMMA LastOf ==
  ASSUME NEW n \in Nat, NEW W \in SUBSET (1..n), W # {}
  PROVE  \E i \in W : \A j \in W : j <= i
<1> DEFINE T == {m \in 0..n : n - m \in W}
<1>1. \A i \in W : n - i \in T
  OBVIOUS
<1>2. T \subseteq Nat
  OBVIOUS
<1>3. T # {}
  <2>1. PICK i \in W : TRUE
    OBVIOUS
  <2>2. QED BY <1>1, <2>1
<1>4. PICK x \in T : \A y \in T : ~(<<y, x>> \in OpToRel(<, Nat))
  <2> HIDE DEF T
  <2> QED BY <1>2, <1>3, NatLessThanWellFounded, WFMin, Zenon
<1>5. \A y \in T : ~ (y < x)
  BY <1>2, <1>4, Zenon DEF OpToRel
<1>6. n - x \in W /\ \A j \in W : j <= n - x
  BY <1>1, <1>5
<1>7. QED BY <1>6

-----------------------------------------------------------------------------
(* Requests and answers *)

\* The fields of a request.
LEMMA RequestShape ==
  ASSUME NEW r \in Request
  PROVE  /\ r.op \in {"Register", "List", "Get", "Delete", "Store"} /\ r.load \in 1..MaxLoads
         /\ r.op \in {"Get", "Delete", "Store"} => r.key \in Key
         /\ r.op = "Store" => r.value \in Value
BY DEF Request

\* The fields of an answer.
LEMMA AnswerShape ==
  ASSUME NEW a \in Answer
  PROVE  /\ a.kind \in {"Empty", "Value", "KeyList"}
         /\ a.kind = "Value" => a.key \in Key /\ a.value \in Value \cup {None}
         /\ a.kind = "KeyList" => a.keys \in SUBSET Key
BY DEF Answer

\* What a page sends is a request.
LEMMA RequestsMade ==
  ASSUME NEW load \in 1..MaxLoads, NEW k \in Key, NEW v \in Value
  PROVE  /\ [op |-> "Register", load |-> load] \in Request
         /\ [op |-> "List", load |-> load] \in Request
         /\ [op |-> "Get", key |-> k, load |-> load] \in Request
         /\ [op |-> "Delete", key |-> k, load |-> load] \in Request
         /\ [op |-> "Store", key |-> k, value |-> v, load |-> load] \in Request
BY DEF Request

\* The posting key is a key, and no setting.
LEMMA Keys ==
  /\ "posting_key" \in Key /\ "posting_key" \notin Setting /\ Key = Setting \cup {"posting_key"}
  /\ None \notin Seed /\ None # Stored /\ Unanswered \notin Seed /\ Unanswered # None
  /\ Current \notin Legacy /\ Generation = Legacy \cup {Current}
BY AccountAssumption DEF Key, Generation

-----------------------------------------------------------------------------
(* What a queue leaves in a store *)

\* It is what the last write leaves ...
LEMMA AfterLast ==
  ASSUME NEW kv, NEW rs \in Seq(Request), NEW k,
         NEW i \in Writes(rs, k), \A j \in Writes(rs, k) : j <= i
  PROVE  After(kv, rs, k) = handle_store(kv, rs[i])[k]
<1> DEFINE W == Writes(rs, k)
<1>1. Len(rs) \in Nat /\ W \subseteq 1..Len(rs)
  BY LenProperties DEF Writes
<1>2. \A m \in W : (\A j \in W : j <= m) => m = i
  BY <1>1
<1>3. (CHOOSE m \in W : \A j \in W : j <= m) = i
  BY <1>2
<1>4. QED BY <1>3 DEF After

\* ... if there is a write, ...
LEMMA LastWrite ==
  ASSUME NEW rs \in Seq(Request), NEW k, Writes(rs, k) # {}
  PROVE  \E i \in Writes(rs, k) : \A j \in Writes(rs, k) : j <= i
<1>1. Len(rs) \in Nat /\ Writes(rs, k) \subseteq 1..Len(rs)
  BY LenProperties DEF Writes
<1>2. QED BY <1>1, LastOf

\* ... and what is there, if there is none.
LEMMA AfterNone ==
  ASSUME NEW kv, NEW rs, NEW k, Writes(rs, k) = {}
  PROVE  After(kv, rs, k) = kv[k]
BY DEF After

\* A write of k, handled.
LEMMA HandleWrite ==
  ASSUME NEW kv, NEW kw, NEW r \in Request, NEW k \in Key,
         k \in DOMAIN kv, k \in DOMAIN kw
  PROVE  /\ r.op \in {"Store", "Delete"} /\ r.key = k
              => handle_store(kv, r)[k] = handle_store(kw, r)[k]
         /\ r.op = "Store" /\ r.key = k => handle_store(kv, r)[k] = r.value
         /\ r.op = "Delete" /\ r.key = k => handle_store(kv, r)[k] = None
         /\ ~(r.op \in {"Store", "Delete"} /\ r.key = k) => handle_store(kv, r)[k] = kv[k]
         /\ DOMAIN handle_store(kv, r) = DOMAIN kv
BY DEF handle_store

\* Handling the head of a queue does not change what the queue leaves.
LEMMA AfterTail ==
  ASSUME NEW V, NEW kv \in [Key -> V], NEW rs \in Seq(Request), rs # <<>>, NEW k \in Key
  PROVE  After(handle_store(kv, Head(rs)), Tail(rs), k) = After(kv, rs, k)
<1> DEFINE t == Tail(rs)
           kw == handle_store(kv, Head(rs))
<1>1. /\ 1 \in Places(rs) /\ Head(rs) = rs[1] /\ Head(rs) \in Request
      /\ t \in Seq(Request) /\ Len(rs) \in Nat /\ Len(t) = Len(rs) - 1
      /\ \A i \in Places(t) : i \in Nat /\ i >= 1 /\ i + 1 \in Places(rs) /\ t[i] = rs[i+1]
  BY TailPlaces
<1>2. k \in DOMAIN kv /\ DOMAIN kw = DOMAIN kv /\ k \in DOMAIN kw
  BY <1>1, HandleWrite
<1>3. /\ \A i \in Writes(t, k) : i \in Nat /\ i >= 1 /\ i + 1 \in Writes(rs, k) /\ t[i] = rs[i+1]
      /\ \A i \in Writes(rs, k) : i \in Nat /\ i >= 1 /\ (i = 1 \/ i - 1 \in Writes(t, k))
  BY <1>1 DEF Writes, Places
<1>4. CASE Writes(t, k) # {}
  <2>1. PICK i \in Writes(t, k) : \A j \in Writes(t, k) : j <= i
    BY <1>1, <1>4, LastWrite
  <2>2. i + 1 \in Writes(rs, k) /\ \A j \in Writes(rs, k) : j <= i + 1
    BY <1>3, <2>1
  <2>3. After(kw, t, k) = handle_store(kw, t[i])[k]
    <3> HIDE DEF t, kw
    <3> QED BY <1>1, <2>1, AfterLast
  <2>4. After(kv, rs, k) = handle_store(kv, rs[i+1])[k]
    BY <2>2, AfterLast
  <2>5. rs[i+1] \in Request /\ rs[i+1].op \in {"Store", "Delete"} /\ rs[i+1].key = k
    BY <2>2, PlacesOf DEF Writes, Places
  <2>6. handle_store(kw, rs[i+1])[k] = handle_store(kv, rs[i+1])[k]
    <3> HIDE DEF kw
    <3> QED BY <1>2, <2>5, HandleWrite
  <2>7. t[i] = rs[i+1]
    BY <1>3, <2>1
  <2>8. QED BY <2>3, <2>4, <2>6, <2>7
<1>5. CASE Writes(t, k) = {}
  <2>1. After(kw, t, k) = kw[k]
    <3> HIDE DEF t, kw
    <3> QED BY <1>1, <1>5, AfterNone
  <2>2. CASE 1 \in Writes(rs, k)
    <3>1. \A j \in Writes(rs, k) : j <= 1
      BY <1>3, <1>5
    <3>2. After(kv, rs, k) = handle_store(kv, rs[1])[k]
      BY <2>2, <3>1, AfterLast
    <3>3. QED BY <1>1, <2>1, <3>2
  <2>3. CASE 1 \notin Writes(rs, k)
    <3>1. Writes(rs, k) = {}
      BY <1>3, <1>5, <2>3
    <3>2. After(kv, rs, k) = kv[k]
      BY <3>1, AfterNone
    <3>3. ~(Head(rs).op \in {"Store", "Delete"} /\ Head(rs).key = k)
      BY <1>1, <2>3 DEF Writes, Places
    <3>4. kw[k] = kv[k]
      BY <1>1, <1>2, <3>3, HandleWrite
    <3>5. QED BY <2>1, <3>2, <3>4
  <2>4. QED BY <2>2, <2>3
<1>6. QED BY <1>4, <1>5

\* What is sent after a queue decides when it writes, and not otherwise.
LEMMA AfterCat ==
  ASSUME NEW kv, NEW rs \in Seq(Request), NEW t \in Seq(Request), NEW k
  PROVE  /\ Writes(t, k) = {} => After(kv, rs \o t, k) = After(kv, rs, k)
         /\ \A i \in Writes(t, k) : (\A j \in Writes(t, k) : j <= i)
              => After(kv, rs \o t, k) = handle_store(kv, t[i])[k]
<1> DEFINE c == rs \o t
<1>1. /\ c \in Seq(Request)
      /\ Len(rs) \in Nat /\ Len(t) \in Nat /\ Len(c) = Len(rs) + Len(t)
      /\ \A i \in Places(rs) : i \in Places(c) /\ c[i] = rs[i]
      /\ \A i \in Places(t) : Len(rs) + i \in Places(c) /\ c[Len(rs) + i] = t[i]
      /\ \A i \in Places(c) : /\ i \in Nat /\ i >= 1
                              /\ \/ i \in Places(rs)
                                 \/ i > Len(rs) /\ i - Len(rs) \in Places(t)
  BY CatPlaces
<1> HIDE DEF c
<1>2. /\ \A i \in Writes(rs, k) : i \in Writes(c, k) /\ c[i] = rs[i] /\ i <= Len(rs) /\ i \in Nat
      /\ \A i \in Writes(t, k) : Len(rs) + i \in Writes(c, k) /\ c[Len(rs) + i] = t[i] /\ i >= 1 /\ i \in Nat
  BY <1>1 DEF Writes, Places
<1>3. \A i \in Writes(c, k) :
        \/ i \in Writes(rs, k)
        \/ i > Len(rs) /\ i - Len(rs) \in Writes(t, k) /\ i \in Nat
  <2> TAKE i \in Writes(c, k)
  <2>1. i \in Places(c) /\ c[i].op \in {"Store", "Delete"} /\ c[i].key = k
    BY DEF Writes, Places
  <2>2. CASE i \in Places(rs)
    BY <1>1, <2>1, <2>2 DEF Writes, Places
  <2>3. CASE i > Len(rs) /\ i - Len(rs) \in Places(t)
    <3>1. c[Len(rs) + (i - Len(rs))] = t[i - Len(rs)] /\ Len(rs) + (i - Len(rs)) = i
      BY <1>1, <2>1, <2>3
    <3>2. QED BY <1>1, <2>1, <2>3, <3>1 DEF Writes, Places
  <2>4. QED BY <1>1, <2>1, <2>2, <2>3
<1>4. ASSUME Writes(t, k) = {} PROVE After(kv, c, k) = After(kv, rs, k)
  <2>1. CASE Writes(rs, k) = {}
    <3>1. Writes(c, k) = {}
      BY <1>3, <1>4, <2>1
    <3>2. QED BY <2>1, <3>1, AfterNone
  <2>2. CASE Writes(rs, k) # {}
    <3>1. PICK i \in Writes(rs, k) : \A j \in Writes(rs, k) : j <= i
      BY <2>2, LastWrite
    <3>2. i \in Writes(c, k) /\ c[i] = rs[i] /\ \A j \in Writes(c, k) : j <= i
      BY <1>2, <1>3, <1>4, <3>1
    <3>3. After(kv, rs, k) = handle_store(kv, rs[i])[k]
      BY <3>1, AfterLast
    <3>4. After(kv, c, k) = handle_store(kv, c[i])[k]
      BY <1>1, <3>2, AfterLast
    <3>5. QED BY <3>2, <3>3, <3>4
  <2>3. QED BY <2>1, <2>2
<1>5. ASSUME NEW i \in Writes(t, k), \A j \in Writes(t, k) : j <= i
      PROVE  After(kv, c, k) = handle_store(kv, t[i])[k]
  <2>1. Len(rs) + i \in Writes(c, k) /\ c[Len(rs) + i] = t[i]
    BY <1>2
  <2>2. \A j \in Writes(c, k) : j <= Len(rs) + i
    <3> TAKE j \in Writes(c, k)
    <3>1. i \in Nat /\ i >= 1 /\ Len(rs) \in Nat
      BY <1>1, <1>2
    <3>2. CASE j \in Writes(rs, k)
      BY <1>2, <3>1, <3>2
    <3>3. CASE j > Len(rs) /\ j - Len(rs) \in Writes(t, k) /\ j \in Nat
      <4>1. j - Len(rs) <= i
        BY <1>5, <3>3
      <4>2. QED BY <3>1, <3>3, <4>1
    <3>4. QED BY <1>3, <3>2, <3>3
  <2>3. After(kv, c, k) = handle_store(kv, c[Len(rs) + i])[k]
    BY <1>1, <2>1, <2>2, AfterLast
  <2>4. QED BY <2>1, <2>3
<1>6. QED BY <1>4, <1>5 DEF c

-----------------------------------------------------------------------------
(* What the probe is owed *)

\* A sequence with the elements of a finite set.
LEMMA FunSeq ==
  ASSUME NEW S, NEW n \in Nat, NEW f \in [1..n -> S]
  PROVE  f \in Seq(S) /\ Len(f) = n
BY SMT

\* A set in some order: as many places as members, and each member at one.
LEMMA Listed ==
  ASSUME NEW S, IsFiniteSet(S)
  PROVE  /\ SetToSeq(S) \in Seq(S) /\ Len(SetToSeq(S)) = Cardinality(S)
         /\ \A x \in S : \E i \in Places(SetToSeq(S)) : SetToSeq(S)[i] = x
<1> DEFINE n == Cardinality(S)
           f == SetToSeq(S)
<1>1. n \in Nat /\ ExistsBijection(1..n, S)
  BY FS_CardinalityType
<1>2. PICK b \in Bijection(1..n, S) : TRUE
  BY <1>1 DEF ExistsBijection
<1>3. b \in [1..n -> S] /\ IsInjective(b)
  BY <1>2 DEF Bijection, Injection
<1>4. f \in [1..n -> S] /\ IsInjective(f)
  BY <1>3 DEF SetToSeq
<1>5. f \in Injection(1..n, S)
  BY <1>4 DEF Injection
<1>6. Cardinality(1..n) = n
  BY <1>1, FS_Interval
<1>7. f \in Surjection(1..n, S)
  <2> HIDE DEF f
  <2> QED BY <1>5, <1>6, FS_Injection
<1>8. f \in Seq(S) /\ Len(f) = n
  <2> HIDE DEF f
  <2> QED BY <1>1, <1>4, FunSeq
<1>9. QED BY <1>7, <1>8 DEF Surjection, Places

\* The requests for the values of the keys of a KeyList.
LEMMA GetsListed ==
  ASSUME NEW load \in 1..MaxLoads, NEW keys \in SUBSET Key
  PROVE  LET S == {[op |-> "Get", key |-> k, load |-> load] : k \in keys}
             t == SetToSeq(S)
         IN  /\ t \in Seq(Request) /\ Len(t) <= Cardinality(keys) /\ Cardinality(keys) \in Nat
             /\ \A i \in Places(t) : t[i].op = "Get" /\ t[i].load = load /\ t[i].key \in keys
             /\ \A k \in keys : \E i \in Places(t) : t[i] = [op |-> "Get", key |-> k, load |-> load]
<1> DEFINE S == {[op |-> "Get", key |-> k, load |-> load] : k \in keys}
           t == SetToSeq(S)
           f == [k \in keys |-> [op |-> "Get", key |-> k, load |-> load]]
<1>1. IsFiniteSet(Key)
  BY AccountAssumption, FS_Singleton, FS_Union DEF Key
<1>2. IsFiniteSet(keys)
  BY <1>1, FS_Subset
<1>3. f \in Surjection(keys, S)
  BY DEF Surjection
<1>4. IsFiniteSet(S) /\ Cardinality(S) <= Cardinality(keys)
  BY <1>2, <1>3, FS_Surjection
<1>5. Cardinality(keys) \in Nat
  BY <1>2, FS_CardinalityType
<1>6. S \subseteq Request
  BY DEF Request
<1>7. \A x \in S : x.op = "Get" /\ x.load = load /\ x.key \in keys
  OBVIOUS
<1>8. \A k \in keys : [op |-> "Get", key |-> k, load |-> load] \in S
  OBVIOUS
<1>9. t \in Seq(S) /\ Len(t) = Cardinality(S) /\ \A x \in S : \E i \in Places(t) : t[i] = x
  BY <1>4, Listed
<1> HIDE DEF S, t
<1>10. t \in Seq(Request)
  BY <1>6, <1>9, SeqMonotonic
<1>11. \A i \in Places(t) : t[i] \in S
  BY <1>9, PlacesOf
<1>12. QED BY <1>4, <1>5, <1>7, <1>8, <1>9, <1>10, <1>11 DEF S, t

\* The places of the queues of the old generations are finitely many.
LEMMA SpotsFinite ==
  ASSUME NEW T, NEW q \in [Generation -> Seq(T)], NEW X \in SUBSET (Legacy \X Nat),
         \A p \in X : p[2] \in Places(q[p[1]])
  PROVE  IsFiniteSet(X)
<1> DEFINE f == [g \in Legacy |-> {g} \X Places(q[g])]
           F == {f[g] : g \in Legacy}
<1>1. \A g \in Legacy : IsFiniteSet({g} \X Places(q[g]))
  <2> TAKE g \in Legacy
  <2>1. Len(q[g]) \in Nat
    BY LenProperties DEF Generation
  <2>2. IsFiniteSet(1..Len(q[g]))
    BY <2>1, FS_Interval
  <2>3. IsFiniteSet({g})
    BY FS_Singleton
  <2>4. QED BY <2>2, <2>3, FS_Product DEF Places
<1>2. f \in Surjection(Legacy, F)
  BY DEF Surjection
<1>3. IsFiniteSet(F)
  <2> HIDE DEF f, F
  <2> QED BY <1>2, AccountAssumption, FS_Surjection
<1>4. \A A \in F : IsFiniteSet(A)
  BY <1>1
<1>5. IsFiniteSet(UNION F)
  <2> HIDE DEF f, F
  <2> QED BY <1>3, <1>4, FS_UNION
<1>6. X \subseteq UNION F
  <2> SUFFICES ASSUME NEW p \in X PROVE p \in UNION F
    OBVIOUS
  <2>1. p[1] \in Legacy /\ p = <<p[1], p[2]>> /\ p[2] \in Places(q[p[1]])
    OBVIOUS
  <2>2. p \in {p[1]} \X Places(q[p[1]]) /\ f[p[1]] = {p[1]} \X Places(q[p[1]]) /\ f[p[1]] \in F
    BY <2>1
  <2>3. QED BY <2>2
<1>7. QED
  <2> HIDE DEF F
  <2> QED BY <1>5, <1>6, FS_Subset

\* The answers owed, asked for or on their way, are finitely many.
LEMMA OwedFinite ==
  ASSUME NEW reqs \in [Generation -> Seq(Request)], NEW ans \in [Generation -> Seq(Answer)], NEW load
  PROVE  /\ IsFiniteSet(Asked(load, reqs)) /\ Cardinality(Asked(load, reqs)) \in Nat
         /\ IsFiniteSet(Said(ans)) /\ Cardinality(Said(ans)) \in Nat
<1>1. Asked(load, reqs) \in SUBSET (Legacy \X Nat) /\ \A p \in Asked(load, reqs) : p[2] \in Places(reqs[p[1]])
  BY DEF Asked
<1>2. Said(ans) \in SUBSET (Legacy \X Nat) /\ \A p \in Said(ans) : p[2] \in Places(ans[p[1]])
  BY DEF Said
<1>3. IsFiniteSet(Asked(load, reqs)) /\ IsFiniteSet(Said(ans))
  BY <1>1, <1>2, SpotsFinite
<1>4. QED BY <1>3, FS_CardinalityType

\* When the queue of g moves up by one, the places that count are no more,
\* and fewer when its head was one of them.
LEMMA ShiftBound ==
  ASSUME NEW X \in SUBSET (Legacy \X Nat), NEW Y, IsFiniteSet(Y), NEW g,
         \A p \in X : IF p[1] = g THEN <<g, p[2] + 1>> \in Y /\ p[2] >= 1 ELSE p \in Y
  PROVE  /\ Cardinality(X) \in Nat /\ Cardinality(Y) \in Nat /\ Cardinality(X) <= Cardinality(Y)
         /\ <<g, 1>> \in Y => Cardinality(X) <= Cardinality(Y) - 1
<1> DEFINE f == [p \in X |-> IF p[1] = g THEN <<g, p[2] + 1>> ELSE p]
           Z == Y \ {<<g, 1>>}
<1>1. IsFiniteSet(Z) /\ Cardinality(Z) = IF <<g, 1>> \in Y THEN Cardinality(Y) - 1 ELSE Cardinality(Y)
  BY FS_RemoveElement
<1>2. \A p \in X : p[1] \in Legacy /\ p[2] \in Nat /\ p = <<p[1], p[2]>>
  OBVIOUS
<1>3. \A p \in X : f[p] \in Z
  <2> TAKE p \in X
  <2>1. CASE p[1] = g
    <3>1. f[p] = <<g, p[2] + 1>> /\ p[2] + 1 # 1
      BY <1>2, <2>1
    <3>2. QED BY <2>1, <3>1
  <2>2. CASE p[1] # g
    <3>1. f[p] = p /\ p # <<g, 1>>
      BY <1>2, <2>2
    <3>2. QED BY <2>2, <3>1
  <2>3. QED BY <2>1, <2>2
<1>4. \A p, r \in X : f[p] = f[r] => p = r
  <2> SUFFICES ASSUME NEW p \in X, NEW r \in X, f[p] = f[r] PROVE p = r
    OBVIOUS
  <2>1. CASE p[1] = g /\ r[1] = g
    <3>1. <<g, p[2] + 1>> = <<g, r[2] + 1>>
      BY <2>1
    <3>2. p[2] + 1 = r[2] + 1
      BY <3>1
    <3>3. QED BY <1>2, <2>1, <3>2
  <2>2. CASE p[1] = g /\ r[1] # g
    <3>1. <<g, p[2] + 1>> = r /\ r[1] = g
      BY <2>2
    <3>2. QED BY <2>2, <3>1
  <2>3. CASE p[1] # g /\ r[1] = g
    <3>1. <<g, r[2] + 1>> = p /\ p[1] = g
      BY <2>3
    <3>2. QED BY <2>3, <3>1
  <2>4. CASE p[1] # g /\ r[1] # g
    BY <2>4
  <2>5. QED BY <2>1, <2>2, <2>3, <2>4
<1>5. f \in [X -> Z]
  BY <1>3
<1>6. f \in Injection(X, Z)
  <2> HIDE DEF f, Z
  <2> QED BY <1>4, <1>5, Fun_IsInj
<1>7. IsFiniteSet(X) /\ Cardinality(X) <= Cardinality(Z)
  <2> HIDE DEF f, Z
  <2> QED BY <1>1, <1>6, FS_Injection
<1>8. Cardinality(X) \in Nat /\ Cardinality(Y) \in Nat
  BY <1>7, FS_CardinalityType
<1>9. QED BY <1>1, <1>7, <1>8

\* n more places in the queue of g count for n at most.
LEMMA GrowBound ==
  ASSUME NEW Y, IsFiniteSet(Y), NEW g, NEW a \in Nat, NEW n \in Nat,
         NEW X \in SUBSET (Y \cup ({g} \X (a+1 .. a+n)))
  PROVE  /\ Cardinality(X) \in Nat /\ Cardinality(Y) \in Nat
         /\ Cardinality(X) <= Cardinality(Y) + n
<1> DEFINE Z == {g} \X (a+1 .. a+n)
<1>1. IsFiniteSet(a+1 .. a+n) /\ Cardinality(a+1 .. a+n) = n
  BY FS_Interval
<1>2. IsFiniteSet({g}) /\ Cardinality({g}) = 1
  BY FS_Singleton
<1>3. IsFiniteSet(Z) /\ Cardinality(Z) = Cardinality({g}) * Cardinality(a+1 .. a+n)
  BY <1>1, <1>2, FS_Product, Zenon
<1>4. Cardinality({g}) * Cardinality(a+1 .. a+n) = n
  <2>1. 1 * n = n
    OBVIOUS
  <2>2. QED BY <1>1, <1>2, <2>1, Zenon
<1> HIDE DEF Z
<1>5. /\ IsFiniteSet(Y \cup Z) /\ IsFiniteSet(Y \cap Z)
      /\ Cardinality(Y \cup Z) = Cardinality(Y) + Cardinality(Z) - Cardinality(Y \cap Z)
  BY <1>3, FS_Union, FS_Intersection
<1>6. IsFiniteSet(X) /\ Cardinality(X) <= Cardinality(Y \cup Z)
  BY <1>5, FS_Subset DEF Z
<1>7. Cardinality(X) \in Nat /\ Cardinality(Y) \in Nat /\ Cardinality(Y \cap Z) \in Nat
  BY <1>5, <1>6, FS_CardinalityType
<1>8. QED BY <1>3, <1>4, <1>5, <1>6, <1>7

\* The head of a queue of requests is handled.
LEMMA AskedTail ==
  ASSUME NEW reqs \in [Generation -> Seq(Request)], NEW reqs2 \in [Generation -> Seq(Request)],
         NEW ans \in [Generation -> Seq(Answer)], NEW load, NEW g \in Generation, reqs[g] # <<>>,
         reqs2[g] = Tail(reqs[g]), \A h \in Generation \ {g} : reqs2[h] = reqs[h]
  PROVE  /\ Cardinality(Asked(load, reqs2)) \in Nat /\ Cardinality(Asked(load, reqs)) \in Nat
         /\ Cardinality(Asked(load, reqs2)) <= Cardinality(Asked(load, reqs))
         /\ g \in Legacy /\ Head(reqs[g]).op \in {"List", "Get"} /\ Head(reqs[g]).load = load
              => Cardinality(Asked(load, reqs2)) <= Cardinality(Asked(load, reqs)) - 1
<1> DEFINE X == Asked(load, reqs2)
           Y == Asked(load, reqs)
<1>0. reqs[g] \in Seq(Request)
  OBVIOUS
<1>1. /\ 1 \in Places(reqs[g]) /\ Head(reqs[g]) = reqs[g][1]
      /\ \A i \in Places(Tail(reqs[g])) :
           i \in Nat /\ i >= 1 /\ i + 1 \in Places(reqs[g]) /\ Tail(reqs[g])[i] = reqs[g][i+1]
  BY <1>0, TailPlaces
<1>2. X \in SUBSET (Legacy \X Nat) /\ IsFiniteSet(Y)
  <2>1. X \in SUBSET (Legacy \X Nat)
    BY DEF Asked
  <2>2. IsFiniteSet(Asked(load, reqs))
    BY OwedFinite
  <2>3. QED BY <2>1, <2>2
<1>3. ASSUME NEW p \in X
      PROVE  IF p[1] = g THEN <<g, p[2] + 1>> \in Y /\ p[2] >= 1 ELSE p \in Y
  <2>1. /\ p[1] \in Legacy /\ p[2] \in Nat /\ p = <<p[1], p[2]>> /\ p[1] \in Generation
        /\ p[2] \in Places(reqs2[p[1]]) /\ reqs2[p[1]][p[2]].op \in {"List", "Get"}
        /\ reqs2[p[1]][p[2]].load = load
    BY Keys DEF Asked
  <2>2. CASE p[1] = g
    <3>0. p[2] \in Places(Tail(reqs[g])) /\ reqs2[g][p[2]] = Tail(reqs[g])[p[2]] /\ g \in Legacy
      BY <2>1, <2>2
    <3>1. /\ p[2] >= 1 /\ p[2] + 1 \in Places(reqs[g]) /\ reqs[g][p[2] + 1] = reqs2[g][p[2]]
          /\ <<g, p[2] + 1>> \in Legacy \X Nat
      <4>1. p[2] + 1 \in Nat
        BY <2>1
      <4>2. <<g, p[2] + 1>> \in Legacy \X Nat
        BY <3>0, <4>1
      <4>3. QED BY <1>1, <3>0, <4>2, Zenon
    <3>2. QED BY <2>1, <2>2, <3>1 DEF Asked
  <2>3. CASE p[1] # g
    <3>1. reqs2[p[1]] = reqs[p[1]]
      BY <2>1, <2>3
    <3>2. QED BY <2>1, <2>3, <3>1 DEF Asked
  <2>4. QED BY <2>2, <2>3
<1>4. g \in Legacy /\ Head(reqs[g]).op \in {"List", "Get"} /\ Head(reqs[g]).load = load => <<g, 1>> \in Y
  BY <1>1 DEF Asked
<1> HIDE DEF X, Y
<1>5. /\ Cardinality(X) \in Nat /\ Cardinality(Y) \in Nat /\ Cardinality(X) <= Cardinality(Y)
      /\ <<g, 1>> \in Y => Cardinality(X) <= Cardinality(Y) - 1
  BY <1>2, <1>3, ShiftBound
<1>6. QED BY <1>4, <1>5 DEF X, Y

\* The head of a queue of answers is heard.
LEMMA SaidTail ==
  ASSUME NEW ans \in [Generation -> Seq(Answer)], NEW ans2 \in [Generation -> Seq(Answer)],
         NEW g \in Generation, ans[g] # <<>>,
         ans2[g] = Tail(ans[g]), \A h \in Generation \ {g} : ans2[h] = ans[h]
  PROVE  /\ Cardinality(Said(ans2)) \in Nat /\ Cardinality(Said(ans)) \in Nat
         /\ Cardinality(Said(ans2)) <= Cardinality(Said(ans))
         /\ g \in Legacy /\ Head(ans[g]).kind # "Empty"
              => Cardinality(Said(ans2)) <= Cardinality(Said(ans)) - 1
<1> DEFINE X == Said(ans2)
           Y == Said(ans)
<1>0. ans[g] \in Seq(Answer)
  OBVIOUS
<1>1. /\ 1 \in Places(ans[g]) /\ Head(ans[g]) = ans[g][1]
      /\ \A i \in Places(Tail(ans[g])) :
           i \in Nat /\ i >= 1 /\ i + 1 \in Places(ans[g]) /\ Tail(ans[g])[i] = ans[g][i+1]
  BY <1>0, TailPlaces
<1>2. X \in SUBSET (Legacy \X Nat)
  BY DEF Said
<1>3. IsFiniteSet(Y)
  <2>1. \A p \in Y : p[2] \in Places(ans[p[1]])
    BY DEF Said
  <2>2. Y \in SUBSET (Legacy \X Nat)
    BY DEF Said
  <2> HIDE DEF Y
  <2>3. QED BY <2>1, <2>2, SpotsFinite
<1>4. ASSUME NEW p \in X
      PROVE  IF p[1] = g THEN <<g, p[2] + 1>> \in Y /\ p[2] >= 1 ELSE p \in Y
  <2>1. /\ p[1] \in Legacy /\ p[2] \in Nat /\ p = <<p[1], p[2]>> /\ p[1] \in Generation
        /\ p[2] \in Places(ans2[p[1]]) /\ ans2[p[1]][p[2]].kind # "Empty"
    BY Keys DEF Said
  <2>2. CASE p[1] = g
    <3>0. p[2] \in Places(Tail(ans[g])) /\ ans2[g][p[2]] = Tail(ans[g])[p[2]] /\ g \in Legacy
      BY <2>1, <2>2
    <3>1. /\ p[2] >= 1 /\ p[2] + 1 \in Places(ans[g]) /\ ans[g][p[2] + 1] = ans2[g][p[2]]
          /\ <<g, p[2] + 1>> \in Legacy \X Nat
      <4>1. p[2] + 1 \in Nat
        BY <2>1
      <4>2. <<g, p[2] + 1>> \in Legacy \X Nat
        BY <3>0, <4>1
      <4>3. QED BY <1>1, <3>0, <4>2, Zenon
    <3>2. QED BY <2>1, <2>2, <3>1 DEF Said
  <2>3. CASE p[1] # g
    <3>1. ans2[p[1]] = ans[p[1]]
      BY <2>1, <2>3
    <3>2. QED BY <2>1, <2>3, <3>1 DEF Said
  <2>4. QED BY <2>2, <2>3
<1>5. g \in Legacy /\ Head(ans[g]).kind # "Empty" => <<g, 1>> \in Y
  BY <1>1 DEF Said
<1> HIDE DEF X, Y
<1>6. /\ Cardinality(X) \in Nat /\ Cardinality(Y) \in Nat /\ Cardinality(X) <= Cardinality(Y)
      /\ <<g, 1>> \in Y => Cardinality(X) <= Cardinality(Y) - 1
  BY <1>2, <1>3, <1>4, ShiftBound
<1>7. QED BY <1>5, <1>6 DEF X, Y

\* What is asked once sent is added to reqs was asked before, or is new.
AskedFrom(load, reqs, sent, reqs2) ==
  \A p \in Asked(load, reqs2) :
    \/ p \in Asked(load, reqs)
    \/ /\ p = <<p[1], p[2]>> /\ p[1] \in Legacy /\ p[2] \in Nat
       /\ p[2] > Len(reqs[p[1]]) /\ p[2] - Len(reqs[p[1]]) \in Places(sent[p[1]])
       /\ reqs2[p[1]][p[2]] = sent[p[1]][p[2] - Len(reqs[p[1]])]
       /\ reqs2[p[1]][p[2]].op \in {"List", "Get"} /\ reqs2[p[1]][p[2]].load = load

\* After a send, what is asked for was asked for before or has just been sent.
LEMMA AskedCat ==
  ASSUME NEW reqs \in [Generation -> Seq(Request)], NEW sent \in [Generation -> Seq(Request)],
         NEW reqs2, NEW load, \A h \in Generation : reqs2[h] = reqs[h] \o sent[h]
  PROVE  AskedFrom(load, reqs, sent, reqs2)
<1> SUFFICES ASSUME NEW p \in Asked(load, reqs2)
             PROVE  \/ p \in Asked(load, reqs)
                    \/ /\ p = <<p[1], p[2]>> /\ p[1] \in Legacy /\ p[2] \in Nat
                       /\ p[2] > Len(reqs[p[1]]) /\ p[2] - Len(reqs[p[1]]) \in Places(sent[p[1]])
                       /\ reqs2[p[1]][p[2]] = sent[p[1]][p[2] - Len(reqs[p[1]])]
                       /\ reqs2[p[1]][p[2]].op \in {"List", "Get"} /\ reqs2[p[1]][p[2]].load = load
  BY DEF AskedFrom
<1> DEFINE g == p[1]
           i == p[2]
<1>1. /\ p = <<g, i>> /\ p \in Legacy \X Nat /\ g \in Legacy /\ g \in Generation /\ i \in Nat
      /\ i \in Places(reqs2[g]) /\ reqs2[g][i].op \in {"List", "Get"}
      /\ reqs2[g][i].load = load
  BY Keys DEF Asked
<1> HIDE DEF g, i
<1>2. reqs2[g] = reqs[g] \o sent[g] /\ reqs[g] \in Seq(Request) /\ sent[g] \in Seq(Request)
  BY <1>1
<1>3. /\ Len(reqs[g]) \in Nat
      /\ \A j \in Places(reqs[g]) : reqs2[g][j] = reqs[g][j]
      /\ \A j \in Places(sent[g]) : reqs2[g][Len(reqs[g]) + j] = sent[g][j]
      /\ \A j \in Places(reqs2[g]) : \/ j \in Places(reqs[g])
                                     \/ j > Len(reqs[g]) /\ j - Len(reqs[g]) \in Places(sent[g])
  <2>1. LET s == reqs[g]
            t == sent[g]
        IN  /\ s \o t \in Seq(Request)
            /\ Len(s) \in Nat /\ Len(t) \in Nat /\ Len(s \o t) = Len(s) + Len(t)
            /\ \A j \in Places(s) : j \in Places(s \o t) /\ (s \o t)[j] = s[j]
            /\ \A j \in Places(t) : Len(s) + j \in Places(s \o t) /\ (s \o t)[Len(s) + j] = t[j]
            /\ \A j \in Places(s \o t) : /\ j \in Nat /\ j >= 1
                                         /\ \/ j \in Places(s)
                                            \/ j > Len(s) /\ j - Len(s) \in Places(t)
    BY <1>2, CatPlaces
  <2>2. QED BY <1>2, <2>1
<1>4. CASE i \in Places(reqs[g])
  <2>1. p \in Asked(load, reqs)
    BY <1>1, <1>3, <1>4 DEF Asked, g, i
  <2>2. QED BY <2>1
<1>5. CASE i > Len(reqs[g]) /\ i - Len(reqs[g]) \in Places(sent[g])
  <2>1. Len(reqs[g]) + (i - Len(reqs[g])) = i
    BY <1>1, <1>3
  <2>2. reqs2[g][i] = sent[g][i - Len(reqs[g])]
    BY <1>3, <1>5, <2>1
  <2>3. QED BY <1>1, <1>5, <2>2 DEF g, i
<1>6. QED BY <1>1, <1>3, <1>4, <1>5

\* Requests that ask the old generations nothing add nothing, ...
LEMMA AskedSilent ==
  ASSUME NEW reqs \in [Generation -> Seq(Request)], NEW sent \in [Generation -> Seq(Request)],
         NEW reqs2, NEW load, \A h \in Generation : reqs2[h] = reqs[h] \o sent[h],
         \A h \in Legacy : \A i \in Places(sent[h]) :
            ~(sent[h][i].op \in {"List", "Get"} /\ sent[h][i].load = load)
  PROVE  /\ Cardinality(Asked(load, reqs2)) \in Nat /\ Cardinality(Asked(load, reqs)) \in Nat
         /\ Cardinality(Asked(load, reqs2)) <= Cardinality(Asked(load, reqs))
<1>1. Asked(load, reqs2) \subseteq Asked(load, reqs)
  <2>1. AskedFrom(load, reqs, sent, reqs2)
    BY AskedCat
  <2>2. QED BY <2>1 DEF AskedFrom
<1>2. IsFiniteSet(Asked(load, reqs))
  <2>1. \A p \in Asked(load, reqs) : p[2] \in Places(reqs[p[1]])
    BY DEF Asked
  <2>2. Asked(load, reqs) \in SUBSET (Legacy \X Nat)
    BY DEF Asked
  <2>3. QED BY <2>1, <2>2, SpotsFinite
<1>3. QED BY <1>1, <1>2, FS_Subset, FS_CardinalityType

\* ... and n requests to one of them add n at most.
LEMMA AskedMore ==
  ASSUME NEW reqs \in [Generation -> Seq(Request)], NEW sent \in [Generation -> Seq(Request)],
         NEW reqs2, NEW load, \A h \in Generation : reqs2[h] = reqs[h] \o sent[h],
         NEW g \in Generation, \A h \in Generation \ {g} : sent[h] = <<>>
  PROVE  /\ Cardinality(Asked(load, reqs2)) \in Nat /\ Cardinality(Asked(load, reqs)) \in Nat
         /\ Cardinality(Asked(load, reqs2)) <= Cardinality(Asked(load, reqs)) + Len(sent[g])
<1> DEFINE a == Len(reqs[g])
           n == Len(sent[g])
           Y == Asked(load, reqs)
           X == Asked(load, reqs2)
<1>1. a \in Nat /\ n \in Nat
  BY LenProperties
<1>2. IsFiniteSet(Y)
  <2>1. \A p \in Asked(load, reqs) : p[2] \in Places(reqs[p[1]])
    BY DEF Asked
  <2>2. Asked(load, reqs) \in SUBSET (Legacy \X Nat)
    BY DEF Asked
  <2>3. QED BY <2>1, <2>2, SpotsFinite
<1>3. X \subseteq Y \cup ({g} \X (a+1 .. a+n))
  <2> SUFFICES ASSUME NEW p \in X, p \notin Y PROVE p \in {g} \X (a+1 .. a+n)
    OBVIOUS
  <2>0. AskedFrom(load, reqs, sent, reqs2)
    BY AskedCat
  <2>1. /\ p = <<p[1], p[2]>> /\ p[1] \in Legacy /\ p[2] \in Nat
        /\ p[2] > Len(reqs[p[1]]) /\ p[2] - Len(reqs[p[1]]) \in Places(sent[p[1]])
    BY <2>0 DEF AskedFrom
  <2>2. p[1] = g
    <3>1. sent[p[1]] # <<>>
      <4>1. Places(<<>>) = {}
        BY DEF Places
      <4>2. QED BY <2>1, <4>1
    <3>2. QED BY <2>1, <3>1, Keys
  <2>3. p[2] - a \in 1..n
    BY <2>1, <2>2 DEF Places
  <2>4. p[2] \in a+1 .. a+n
    BY <1>1, <2>1, <2>3
  <2>5. QED BY <2>1, <2>2, <2>4
<1> HIDE DEF a, n, X, Y
<1>4. /\ Cardinality(X) \in Nat /\ Cardinality(Y) \in Nat
      /\ Cardinality(X) <= Cardinality(Y) + n
  BY <1>1, <1>2, <1>3, GrowBound
<1>5. QED BY <1>4 DEF n, X, Y

\* At most one answer more from g counts for one, and for none when it is empty.
LEMMA SaidMore ==
  ASSUME NEW ans \in [Generation -> Seq(Answer)], NEW ans2, NEW g \in Generation,
         NEW out \in Seq(Answer), Len(out) <= 1,
         ans2[g] = ans[g] \o out, \A h \in Generation \ {g} : ans2[h] = ans[h]
  PROVE  /\ Cardinality(Said(ans2)) \in Nat /\ Cardinality(Said(ans)) \in Nat
         /\ Cardinality(Said(ans2)) <= Cardinality(Said(ans)) + 1
         /\ g \notin Legacy \/ (\A i \in Places(out) : out[i].kind = "Empty")
              => Cardinality(Said(ans2)) <= Cardinality(Said(ans))
<1> DEFINE a == Len(ans[g])
           Y == Said(ans)
           X == Said(ans2)
<1>1. /\ ans[g] \o out \in Seq(Answer)
      /\ a \in Nat /\ Len(out) \in Nat /\ Len(ans[g] \o out) = a + Len(out)
      /\ \A i \in Places(ans[g]) : i \in Places(ans[g] \o out) /\ (ans[g] \o out)[i] = ans[g][i]
      /\ \A i \in Places(out) : a + i \in Places(ans[g] \o out) /\ (ans[g] \o out)[a + i] = out[i]
      /\ \A i \in Places(ans[g] \o out) : /\ i \in Nat /\ i >= 1
                                          /\ \/ i \in Places(ans[g])
                                             \/ i > a /\ i - a \in Places(out)
  <2>1. ans[g] \in Seq(Answer)
    OBVIOUS
  <2>2. QED BY <2>1, CatPlaces
<1>2. IsFiniteSet(Y)
  <2>1. \A p \in Said(ans) : p[2] \in Places(ans[p[1]])
    BY DEF Said
  <2>2. Said(ans) \in SUBSET (Legacy \X Nat)
    BY DEF Said
  <2>3. QED BY <2>1, <2>2, SpotsFinite
<1>3. \A p \in X :
        \/ p \in Y
        \/ /\ p[1] = g /\ g \in Legacy /\ p = <<g, a + 1>> /\ out # <<>> /\ out[1].kind # "Empty" /\ 1 \in Places(out)
  <2> TAKE p \in X
  <2>1. /\ p = <<p[1], p[2]>> /\ p \in Legacy \X Nat /\ p[1] \in Legacy /\ p[1] \in Generation /\ p[2] \in Nat
        /\ p[2] \in Places(ans2[p[1]]) /\ ans2[p[1]][p[2]].kind # "Empty"
    BY Keys DEF Said
  <2>2. CASE p[1] # g
    <3>1. ans2[p[1]] = ans[p[1]]
      BY <2>1, <2>2
    <3>2. QED BY <2>1, <3>1 DEF Said
  <2>3. CASE p[1] = g /\ p[2] \in Places(ans[g])
    <3>1. ans2[g][p[2]] = ans[g][p[2]]
      BY <1>1, <2>3
    <3>2. QED BY <2>1, <2>3, <3>1 DEF Said
  <2>4. CASE p[1] = g /\ p[2] > a /\ p[2] - a \in Places(out)
    <3>1. p[2] - a = 1
      BY <1>1, <2>1, <2>4 DEF Places
    <3>2. 1 \in Places(out) /\ p[2] = a + 1 /\ ans2[g][a + 1] = out[1]
      <4>1. 1 \in Places(out)
        BY <2>4, <3>1
      <4>2. p[2] = a + 1
        BY <1>1, <2>1, <3>1
      <4>3. QED BY <1>1, <4>1, <4>2, Zenon
    <3>3. out # <<>>
      BY <3>2, PlacesOf
    <3>4. p = <<g, a + 1>>
      BY <2>1, <2>4, <3>2
    <3>5. out[1].kind # "Empty"
      BY <2>1, <2>4, <3>2
    <3>6. QED BY <2>1, <2>4, <3>2, <3>3, <3>4, <3>5
  <2>5. QED BY <1>1, <2>1, <2>2, <2>3, <2>4
<1>4. Cardinality(X) \in Nat /\ Cardinality(Y) \in Nat /\ Cardinality(X) <= Cardinality(Y) + 1
  <2>1. a + 1 \in a + 1 .. a + 1
    BY <1>1
  <2>2. X \subseteq Y \cup ({g} \X (a + 1 .. a + 1))
    BY <1>3, <2>1
  <2> HIDE DEF a, X, Y
  <2>3. QED BY <1>1, <1>2, <2>2, GrowBound
<1>5. ASSUME g \notin Legacy \/ \A i \in Places(out) : out[i].kind = "Empty"
      PROVE  Cardinality(X) <= Cardinality(Y)
  <2>1. X \subseteq Y
    BY <1>3, <1>5
  <2> HIDE DEF X, Y
  <2>2. QED BY <1>2, <2>1, FS_Subset
<1>6. QED BY <1>4, <1>5

-----------------------------------------------------------------------------
(* What will be heard of *)

\* A question stays in the queue, or is its head.
LEMMA AsksTail ==
  ASSUME NEW rs \in Seq(Request), rs # <<>>, NEW load, NEW k, Asks(load, rs, k)
  PROVE  \/ Asks(load, Tail(rs), k)
         \/ Head(rs).load = load /\ (Head(rs).op = "List" \/ (Head(rs).op = "Get" /\ Head(rs).key = k))
<1>1. PICK i \in Places(rs) : rs[i].load = load /\ (rs[i].op = "List" \/ (rs[i].op = "Get" /\ rs[i].key = k))
  BY DEF Asks
<1>2. Head(rs) = rs[1] /\ Len(rs) \in Nat /\ Len(Tail(rs)) = Len(rs) - 1
      /\ \A j \in Places(Tail(rs)) : j \in Nat /\ Tail(rs)[j] = rs[j+1]
  BY TailPlaces
<1>3. CASE i = 1
  BY <1>1, <1>2, <1>3
<1>4. CASE i # 1
  <2>1. i - 1 \in Places(Tail(rs)) /\ (i - 1) + 1 = i
    BY <1>1, <1>2, <1>4 DEF Places
  <2>2. Tail(rs)[i - 1] = rs[i]
    BY <1>2, <2>1
  <2>3. QED BY <1>1, <2>1, <2>2 DEF Asks
<1>5. QED BY <1>3, <1>4

\* More requests leave it there.
LEMMA AsksCat ==
  ASSUME NEW rs \in Seq(Request), NEW t \in Seq(Request), NEW load, NEW k,
         Asks(load, rs, k) \/ Asks(load, t, k)
  PROVE  Asks(load, rs \o t, k)
<1>1. /\ rs \o t \in Seq(Request)
      /\ Len(rs) \in Nat /\ Len(t) \in Nat /\ Len(rs \o t) = Len(rs) + Len(t)
      /\ \A i \in Places(rs) : i \in Places(rs \o t) /\ (rs \o t)[i] = rs[i]
      /\ \A i \in Places(t) : Len(rs) + i \in Places(rs \o t) /\ (rs \o t)[Len(rs) + i] = t[i]
      /\ \A i \in Places(rs \o t) : /\ i \in Nat /\ i >= 1
                                     /\ \/ i \in Places(rs)
                                        \/ i > Len(rs) /\ i - Len(rs) \in Places(t)
  BY CatPlaces
<1>2. CASE Asks(load, rs, k)
  BY <1>1, <1>2 DEF Asks
<1>3. CASE Asks(load, t, k)
  <2>1. PICK i \in Places(t) : t[i].load = load /\ (t[i].op = "List" \/ (t[i].op = "Get" /\ t[i].key = k))
    BY <1>3 DEF Asks
  <2>2. Len(rs) + i \in Places(rs \o t) /\ (rs \o t)[Len(rs) + i] = t[i]
    BY <1>1
  <2>3. QED BY <2>1, <2>2 DEF Asks
<1>4. QED BY <1>2, <1>3

\* What an answer says is said until it is heard.
LEMMA SaysTail ==
  ASSUME NEW q \in Seq(Answer), q # <<>>, NEW k, \E i \in Places(q) : Says(q[i], k)
  PROVE  Says(Head(q), k) \/ \E i \in Places(Tail(q)) : Says(Tail(q)[i], k)
<1>1. PICK i \in Places(q) : Says(q[i], k)
  OBVIOUS
<1>2. Head(q) = q[1] /\ Len(q) \in Nat /\ Len(Tail(q)) = Len(q) - 1
      /\ \A j \in Places(Tail(q)) : j \in Nat /\ Tail(q)[j] = q[j+1]
  BY TailPlaces
<1>3. CASE i = 1
  BY <1>1, <1>2, <1>3
<1>4. CASE i # 1
  <2>1. i \in 1..Len(q) /\ Len(q) \in Nat
    BY <1>2 DEF Places
  <2>2. i - 1 \in Places(Tail(q)) /\ (i - 1) + 1 = i
    <3>1. Len(Tail(q)) = Len(q) - 1
      BY <1>2
    <3>2. \A m, n \in Nat : m \in 1..n /\ m # 1 => m - 1 \in 1..n-1 /\ (m - 1) + 1 = m
      OBVIOUS
    <3>3. i \in Nat
      BY <2>1
    <3>4. QED BY <1>4, <2>1, <3>1, <3>2, <3>3, Zenon DEF Places
  <2>3. Tail(q)[i - 1] = q[i]
    BY <1>2, <2>2
  <2>4. QED BY <1>1, <2>2, <2>3
<1>5. QED BY <1>3, <1>4

-----------------------------------------------------------------------------
(* Steps *)

\* An answer of g is heard: the others of g move up.
Moved(g) ==
  \A h \in Generation : \A i \in Places(answers'[h]) :
    /\ i \in Nat /\ i >= 1
    /\ IF h = g THEN i + 1 \in Places(answers[h]) /\ answers'[h][i] = answers[h][i+1]
       ELSE i \in Places(answers[h]) /\ answers'[h][i] = answers[h][i]

\* Taking the first answer of g moves its other answers up by one place.
LEMMA Heard ==
  ASSUME AnswersOK, NEW g \in Generation, answers[g] # <<>>,
         answers' = [answers EXCEPT ![g] = Tail(@)],
         registered \subseteq registered', minted \subseteq minted'
  PROVE  /\ AnswersOK' /\ Moved(g)
         /\ Head(answers[g]) = answers[g][1] /\ 1 \in Places(answers[g])
         /\ Answerable(g, Head(answers[g]), registered, minted)
<1>1. answers \in [Generation -> Seq(Answer)] /\ answers[g] \in Seq(Answer)
  BY DEF AnswersOK
<1>2. LET s == answers[g]
      IN  /\ 1 \in Places(s) /\ Head(s) = s[1] /\ Head(s) \in Answer
          /\ Tail(s) \in Seq(Answer) /\ Len(s) \in Nat /\ Len(Tail(s)) = Len(s) - 1
          /\ \A i \in Places(Tail(s)) : i \in Nat /\ i >= 1 /\ i + 1 \in Places(s) /\ Tail(s)[i] = s[i+1]
  BY <1>1, TailPlaces
<1>3. answers' \in [Generation -> Seq(Answer)]
  BY <1>1, <1>2
<1>4. Moved(g)
  <2> SUFFICES ASSUME NEW h \in Generation, NEW i \in Places(answers'[h])
               PROVE  /\ i \in Nat /\ i >= 1
                      /\ IF h = g THEN i + 1 \in Places(answers[h]) /\ answers'[h][i] = answers[h][i+1]
                         ELSE i \in Places(answers[h]) /\ answers'[h][i] = answers[h][i]
    BY DEF Moved
  <2>1. CASE h = g
    <3>1. answers'[h] = Tail(answers[g])
      BY <1>1, <2>1
    <3>2. QED BY <1>2, <2>1, <3>1
  <2>2. CASE h # g
    <3>1. answers'[h] = answers[h] /\ answers[h] \in Seq(Answer)
      BY <1>1, <2>2
    <3>2. QED BY <2>2, <3>1, PlacesOf
  <2>3. QED BY <2>1, <2>2
<1>5. \A h \in Generation : \A i \in Places(answers'[h]) : Answerable(h, answers'[h][i], registered, minted)
  BY <1>4 DEF Moved, AnswersOK
<1>6. \A h \in Generation : \A i \in Places(answers'[h]) : Answerable(h, answers'[h][i], registered', minted')
  BY <1>5 DEF Answerable
<1>7. AnswersOK'
  BY <1>3, <1>6 DEF AnswersOK
<1>8. QED BY <1>2, <1>4, <1>7 DEF AnswersOK

\* Requests are sent.
Sent(sent) ==
  /\ sent \in [Generation -> Seq(Request)]
  /\ \A h \in Generation : requests'[h] = requests[h] \o sent[h]
  /\ \A h \in Generation : \A i \in Places(requests'[h]) :
        /\ i \in Nat /\ i >= 1
        /\ \/ i \in Places(requests[h]) /\ requests'[h][i] = requests[h][i]
           \/ /\ i > Len(requests[h]) /\ i - Len(requests[h]) \in Places(sent[h])
              /\ requests'[h][i] = sent[h][i - Len(requests[h])]
  /\ \A h \in Generation : \A i \in Places(requests[h]) :
        i \in Nat /\ i >= 1 /\ i <= Len(requests[h]) /\ Len(requests[h]) \in Nat
        /\ i \in Places(requests'[h]) /\ requests'[h][i] = requests[h][i]
  /\ \A h \in Generation : \A i \in Places(sent[h]) :
        /\ i \in Nat /\ i >= 1 /\ Len(requests[h]) \in Nat
        /\ Len(requests[h]) + i \in Places(requests'[h])
        /\ requests'[h][Len(requests[h]) + i] = sent[h][i]

\* After a send every place of a queue is an old one or one of what was sent.
LEMMA Sends ==
  ASSUME requests \in [Generation -> Seq(Request)],
         NEW sent \in [Generation -> Seq(Request)],
         requests' = [g \in Generation |-> requests[g] \o sent[g]]
  PROVE  Sent(sent) /\ requests' \in [Generation -> Seq(Request)]
<1>1. ASSUME NEW h \in Generation
      PROVE  LET s == requests[h]
                 t == sent[h]
             IN  /\ s \o t \in Seq(Request)
                 /\ Len(s) \in Nat /\ Len(t) \in Nat /\ Len(s \o t) = Len(s) + Len(t)
                 /\ \A i \in Places(s) : i \in Places(s \o t) /\ (s \o t)[i] = s[i]
                 /\ \A i \in Places(t) : Len(s) + i \in Places(s \o t) /\ (s \o t)[Len(s) + i] = t[i]
                 /\ \A i \in Places(s \o t) : /\ i \in Nat /\ i >= 1
                                              /\ \/ i \in Places(s)
                                                 \/ i > Len(s) /\ i - Len(s) \in Places(t)
  <2>1. requests[h] \in Seq(Request) /\ sent[h] \in Seq(Request)
    OBVIOUS
  <2>2. QED BY <2>1, CatPlaces
<1>2. \A h \in Generation : requests'[h] = requests[h] \o sent[h]
  OBVIOUS
<1>3. requests' \in [Generation -> Seq(Request)]
  BY <1>1
<1>4. ASSUME NEW h \in Generation, NEW i \in Places(requests'[h])
      PROVE  /\ i \in Nat /\ i >= 1
             /\ \/ i \in Places(requests[h]) /\ requests'[h][i] = requests[h][i]
                \/ /\ i > Len(requests[h]) /\ i - Len(requests[h]) \in Places(sent[h])
                   /\ requests'[h][i] = sent[h][i - Len(requests[h])]
  <2>1. i \in Nat /\ i >= 1 /\ Len(requests[h]) \in Nat
    BY <1>1, <1>2
  <2>2. CASE i \in Places(requests[h])
    BY <1>1, <1>2, <2>1, <2>2
  <2>3. CASE i > Len(requests[h]) /\ i - Len(requests[h]) \in Places(sent[h])
    <3>1. Len(requests[h]) + (i - Len(requests[h])) = i
      BY <2>1
    <3>2. requests'[h][i] = sent[h][i - Len(requests[h])]
      <4> DEFINE m == i - Len(requests[h])
      <4>1. (requests[h] \o sent[h])[Len(requests[h]) + m] = sent[h][m]
        BY <1>1, <2>3, Zenon
      <4>2. (requests[h] \o sent[h])[i] = sent[h][m]
        BY <3>1, <4>1, Zenon
      <4>3. QED BY <1>2, <4>2, Zenon
    <3>3. QED BY <2>1, <2>3, <3>2
  <2>4. QED BY <1>1, <1>2, <2>2, <2>3
<1>5. ASSUME NEW h \in Generation, NEW i \in Places(requests[h])
      PROVE  i \in Nat /\ i >= 1 /\ i <= Len(requests[h]) /\ Len(requests[h]) \in Nat
             /\ i \in Places(requests'[h]) /\ requests'[h][i] = requests[h][i]
  BY <1>1, <1>2 DEF Places
<1>6. ASSUME NEW h \in Generation, NEW i \in Places(sent[h])
      PROVE  /\ i \in Nat /\ i >= 1 /\ Len(requests[h]) \in Nat
             /\ Len(requests[h]) + i \in Places(requests'[h])
             /\ requests'[h][Len(requests[h]) + i] = sent[h][i]
  <2>1. i \in Nat /\ i >= 1
    BY <1>1 DEF Places
  <2>2. QED BY <1>1, <1>2, <2>1
<1>7. QED BY <1>2, <1>3, <1>4, <1>5, <1>6 DEF Sent

\* What is sent can be run when it gets there.
SentOK(sent) ==
  \A h \in Generation : \A i \in Places(sent[h]) :
    /\ Sendable(h, sent[h][i], loads', attested', minted')
    /\ \/ sent[h][i].op = "Register"
       \/ h \in registered'
       \/ \E j \in 1..i-1 : sent[h][j].op = "Register"

\* The queues keep their shape when what is sent has it.
LEMMA SentTypes ==
  ASSUME RequestsOK, NEW sent, Sent(sent), SentOK(sent), requests' \in [Generation -> Seq(Request)],
         loads \in Nat, loads' \in Nat, loads <= loads', attested' = attested,
         minted \subseteq minted', registered \subseteq registered'
  PROVE  RequestsOK'
<1> SUFFICES ASSUME NEW h \in Generation, NEW i \in Places(requests'[h])
             PROVE  /\ Sendable(h, requests'[h][i], loads', attested', minted')
                    /\ \/ requests'[h][i].op = "Register"
                       \/ h \in registered'
                       \/ \E j \in 1..i-1 : requests'[h][j].op = "Register"
  BY DEF RequestsOK
<1>1. CASE i \in Places(requests[h]) /\ requests'[h][i] = requests[h][i]
  <2>1. Sendable(h, requests[h][i], loads, attested, minted)
    BY <1>1 DEF RequestsOK
  <2>2. Sendable(h, requests[h][i], loads', attested', minted')
    <3>1. requests[h][i].load \in Nat
      BY <2>1, RequestShape DEF Sendable
    <3>2. requests[h][i].load <= loads'
      BY <2>1, <3>1 DEF Sendable
    <3>3. QED BY <2>1, <3>2 DEF Sendable
  <2>3. ASSUME NEW j \in 1..i-1, requests[h][j].op = "Register"
        PROVE  requests'[h][j].op = "Register"
    <3>1. i <= Len(requests[h]) /\ i \in Nat /\ Len(requests[h]) \in Nat
      BY <1>1 DEF Sent
    <3>2. j \in Places(requests[h])
      BY <3>1 DEF Places
    <3>3. QED BY <2>3, <3>2 DEF Sent
  <2>4. QED BY <1>1, <2>2, <2>3 DEF RequestsOK
<1>2. CASE /\ i > Len(requests[h]) /\ i - Len(requests[h]) \in Places(sent[h])
           /\ requests'[h][i] = sent[h][i - Len(requests[h])]
  <2>1. Sendable(h, requests'[h][i], loads', attested', minted')
    BY <1>2 DEF SentOK
  <2>2. ASSUME NEW j \in 1..(i - Len(requests[h])) - 1, sent[h][j].op = "Register"
        PROVE  \E m \in 1..i-1 : requests'[h][m].op = "Register"
    <3>1. i \in Nat /\ Len(requests[h]) \in Nat /\ Len(sent[h]) \in Nat
      <4>1. i \in Nat
        BY DEF Sent
      <4>2. requests \in [Generation -> Seq(Request)] /\ sent \in [Generation -> Seq(Request)]
        BY DEF RequestsOK, Sent
      <4>3. QED BY <4>1, <4>2, LenProperties
    <3>2. j \in Places(sent[h]) /\ Len(requests[h]) + j \in 1..i-1
      <4>1. \A m, a, b \in Nat : \A n \in 1..(m - a) - 1 :
              m > a /\ m - a \in 1..b => n \in 1..b /\ a + n \in 1..m-1
        OBVIOUS
      <4>2. i > Len(requests[h]) /\ i - Len(requests[h]) \in 1..Len(sent[h])
        BY <1>2 DEF Places
      <4>3. QED BY <3>1, <4>1, <4>2, Zenon DEF Places
    <3>3. requests'[h][Len(requests[h]) + j] = sent[h][j]
      BY <3>2 DEF Sent
    <3>4. QED BY <2>2, <3>2, <3>3
  <2>3. QED BY <1>2, <2>1, <2>2 DEF SentOK
<1>3. QED BY <1>1, <1>2 DEF Sent

\* What an old generation tells is told until it is heard.
LEMMA TellsHeard ==
  ASSUME AnswersOK, NEW g \in Generation, answers[g] # <<>>,
         answers' = [answers EXCEPT ![g] = Tail(@)],
         NEW h \in Generation, NEW k, Tells(h, k),
         Asks(loads, requests[h], k) => Asks(loads', requests'[h], k)
  PROVE  Tells(h, k)' \/ (h = g /\ Says(Head(answers[g]), k))
<1>1. answers \in [Generation -> Seq(Answer)] /\ answers[g] \in Seq(Answer)
  BY DEF AnswersOK
<1>2. CASE Asks(loads, requests[h], k)
  BY <1>2 DEF Tells
<1>3. CASE h # g /\ \E i \in Places(answers[h]) : Says(answers[h][i], k)
  <2>1. answers'[h] = answers[h]
    BY <1>1, <1>3
  <2>2. QED BY <1>3, <2>1 DEF Tells
<1>4. CASE h = g /\ \E i \in Places(answers[h]) : Says(answers[h][i], k)
  <2>1. answers'[g] = Tail(answers[g])
    BY <1>1
  <2>2. \E i \in Places(answers[g]) : Says(answers[g][i], k)
    BY <1>4
  <2>3. Says(Head(answers[g]), k) \/ \E i \in Places(Tail(answers[g])) : Says(Tail(answers[g])[i], k)
    BY <1>1, <2>2, SaysTail
  <2>4. QED BY <1>4, <2>1, <2>3 DEF Tells
<1>5. QED BY <1>2, <1>3, <1>4 DEF Tells

\* The page shows, hears and counts no more than before.
PageStays ==
  /\ page' \in Page
  /\ page'.socket = page.socket /\ page'.ACCOUNT = page.ACCOUNT
  /\ page'.POSTING_KEY_LOADED = page.POSTING_KEY_LOADED
  /\ page'.status = page.status \/ page.socket = "closed"
  /\ page'.PROBE_DONE = page.PROBE_DONE \/ (page.socket = "closed" /\ ~Unheard)
  /\ page'.PENDING => page.PENDING
  /\ \/ page'.FAILED
     \/ /\ page'.FAILED = page.FAILED /\ page'.PENDING = page.PENDING
        /\ page'.OUTSTANDING = page.OUTSTANDING

\* Nothing is heard, or an empty answer.
EmptyHeard ==
  \/ answers' = answers
  \/ \E g \in Generation : /\ answers[g] # <<>> /\ Head(answers[g]).kind = "Empty"
                           /\ answers' = [answers EXCEPT ![g] = Tail(@)]

\* What follows from that for the answers that are left.
EmptyFacts ==
  /\ AnswersOK'
  /\ \A h \in Generation : answers'[h] # <<>> => answers[h] # <<>>
  /\ \A h \in Generation : \A i \in Places(answers'[h]) : \E j \in Places(answers[h]) :
        answers'[h][i] = answers[h][j]
  /\ Cardinality(Said(answers')) \in Nat /\ Cardinality(Said(answers)) \in Nat
  /\ Cardinality(Said(answers')) <= Cardinality(Said(answers))
  /\ \A i, j \in Places(answers'[Current]) :
        \/ i = j
        \/ \E m, n \in Places(answers[Current]) :
              m # n /\ answers'[Current][i] = answers[Current][m] /\ answers'[Current][j] = answers[Current][n]
  /\ \A h \in Generation, k \in Key : Tells(h, k) => Tells(h, k)'

\* What is lost from the answers when an empty one may have been heard: nothing
\* that is told, and the others keep their order.
LEMMA EmptyHeardFacts ==
  ASSUME AnswersOK, RequestsOK, EmptyHeard, UNCHANGED <<requests, loads, registered, minted>>
  PROVE  EmptyFacts
<1>1. /\ answers \in [Generation -> Seq(Answer)] /\ requests \in [Generation -> Seq(Request)]
      /\ Current \in Generation
  BY Keys DEF AnswersOK, RequestsOK
<1>2. CASE answers' = answers
  <2>1. AnswersOK'
    BY <1>2 DEF AnswersOK, Answerable
  <2>2. Cardinality(Said(answers)) \in Nat
    BY <1>1, OwedFinite
  <2>3. \A h \in Generation, k \in Key : Tells(h, k) => Tells(h, k)'
    BY <1>2 DEF Tells
  <2>4. Cardinality(Said(answers')) = Cardinality(Said(answers))
    BY <1>2
  <2>5. \A i, j \in Places(answers'[Current]) :
          \/ i = j
          \/ \E m, n \in Places(answers[Current]) :
               m # n /\ answers'[Current][i] = answers[Current][m] /\ answers'[Current][j] = answers[Current][n]
    BY <1>2, Zenon
  <2>6. QED BY <1>2, <2>1, <2>2, <2>3, <2>4, <2>5 DEF EmptyFacts
<1>3. ASSUME NEW g \in Generation, answers[g] # <<>>, Head(answers[g]).kind = "Empty",
             answers' = [answers EXCEPT ![g] = Tail(@)]
      PROVE  EmptyFacts
  <2>1. AnswersOK' /\ Moved(g)
    BY <1>3, Heard
  <2>2. ASSUME NEW h \in Generation, NEW k \in Key, Tells(h, k) PROVE Tells(h, k)'
    <3>1. ~Says(Head(answers[g]), k)
      BY <1>3 DEF Says
    <3>2. Asks(loads, requests[h], k) => Asks(loads', requests'[h], k)
      OBVIOUS
    <3>3. QED BY <1>3, <2>2, <3>1, <3>2, TellsHeard
  <2>3. /\ Cardinality(Said(answers')) \in Nat /\ Cardinality(Said(answers)) \in Nat
        /\ Cardinality(Said(answers')) <= Cardinality(Said(answers))
    <3>1. answers' \in [Generation -> Seq(Answer)]
      BY <2>1 DEF AnswersOK
    <3>2. answers'[g] = Tail(answers[g]) /\ \A h \in Generation \ {g} : answers'[h] = answers[h]
      BY <1>1, <1>3
    <3>3. QED BY <1>1, <1>3, <3>1, <3>2, SaidTail
  <2>4. \A h \in Generation : \A i \in Places(answers'[h]) : \E j \in Places(answers[h]) :
          answers'[h][i] = answers[h][j]
    BY <2>1 DEF Moved
  <2>5. \A h \in Generation : answers'[h] # <<>> => answers[h] # <<>>
    BY <1>1, <1>3
  <2>6. \A i, j \in Places(answers'[Current]) :
          \/ i = j
          \/ \E m, n \in Places(answers[Current]) :
               m # n /\ answers'[Current][i] = answers[Current][m] /\ answers'[Current][j] = answers[Current][n]
    <3> SUFFICES ASSUME NEW i \in Places(answers'[Current]), NEW j \in Places(answers'[Current]), i # j
                 PROVE  \E m, n \in Places(answers[Current]) :
                          m # n /\ answers'[Current][i] = answers[Current][m]
                                /\ answers'[Current][j] = answers[Current][n]
      OBVIOUS
    <3>1. i \in Nat /\ j \in Nat
      BY <1>1, <2>1 DEF Moved
    <3>2. i + 1 # j + 1
      BY <3>1
    <3>3. CASE Current = g
      <4>1. /\ i + 1 \in Places(answers[Current]) /\ answers'[Current][i] = answers[Current][i+1]
            /\ j + 1 \in Places(answers[Current]) /\ answers'[Current][j] = answers[Current][j+1]
        BY <1>1, <2>1, <3>3 DEF Moved
      <4>2. QED BY <3>2, <4>1
    <3>4. CASE Current # g
      BY <1>1, <2>1, <3>4 DEF Moved
    <3>5. QED BY <3>3, <3>4
  <2>7. QED BY <2>1, <2>2, <2>3, <2>4, <2>5, <2>6 DEF EmptyFacts
<1>4. QED BY <1>2, <1>3 DEF EmptyHeard

\* A step of the page alone, or one that hears an empty answer.
LEMMA StaysKeeps ==
  ASSUME AccountInv, PageStays, EmptyHeard,
         UNCHANGED <<store, registered, attested, requests, loads, minted, destroyed, lost, refused, haunted>>,
         nukes' = nukes \/ (nukes' = nukes + 1 /\ page.socket = "closed")
  PROVE  AccountInv'
<1>1. /\ StoreOK /\ RequestsOK /\ AnswersOK /\ RestOK
      /\ ScreenInv /\ UnheardInv /\ HeardInv /\ AnswerInv
      /\ AccountIsStored /\ NukeIsFinal /\ WipeInv
      /\ CountInv /\ HeldInv /\ LiveInv /\ DeleteInv /\ CarryInv
  BY DEF AccountInv, TypeInv, PageInv, ProbeInv
<1>2. EmptyFacts
  BY <1>1, EmptyHeardFacts
<1>3. StoreOK' /\ RequestsOK' /\ RestOK'
  <2>1. StoreOK'
    BY <1>1 DEF StoreOK
  <2>2. RequestsOK'
    BY <1>1 DEF RequestsOK
  <2>3. RestOK'
    BY <1>1 DEF RestOK, PageStays
  <2>4. QED BY <2>1, <2>2, <2>3
<1>4. Open' = Open /\ Unheard' = Unheard /\ Current \in Generation /\ Legacy \subseteq Generation
  BY Keys DEF Open, Unheard, PageStays
<1>5. ScreenInv'
  BY <1>1, <1>2, <1>4 DEF ScreenInv, PageStays, EmptyFacts, Open
<1>6. UnheardInv'
  <2>1. \A g \in Legacy : Unheard => answers'[g] = <<>>
    BY <1>1, <1>2, <1>4 DEF UnheardInv, EmptyFacts
  <2>2. QED BY <1>1, <1>4, <2>1 DEF UnheardInv, PageStays
<1>7. HeardInv'
  BY <1>1, <1>4 DEF HeardInv
<1>8. AnswerInv'
  <2> SUFFICES ASSUME NEW i \in Places(answers'[Current]), answers'[Current][i].kind = "Value"
               PROVE  /\ Unheard /\ requests[Current] = <<>>
                      /\ answers'[Current][i].value = store[Current]["posting_key"]
                      /\ attested[loads] /\ Current \in registered
                      /\ \A j \in Places(answers'[Current]) : answers'[Current][j].kind = "Value" => j = i
    BY <1>4 DEF AnswerInv
  <2>1. /\ Unheard /\ requests[Current] = <<>>
        /\ answers'[Current][i].value = store[Current]["posting_key"]
        /\ attested[loads] /\ Current \in registered
    BY <1>1, <1>2, <1>4 DEF AnswerInv, EmptyFacts
  <2>2. ASSUME NEW j \in Places(answers'[Current]), answers'[Current][j].kind = "Value", i # j
        PROVE  FALSE
    <3>1. PICK m, n \in Places(answers[Current]) :
            m # n /\ answers'[Current][i] = answers[Current][m] /\ answers'[Current][j] = answers[Current][n]
      BY <1>2, <2>2 DEF EmptyFacts
    <3>2. QED BY <1>1, <2>2, <3>1 DEF AnswerInv
  <2>3. QED BY <2>1, <2>2
<1>9. AccountIsStored'
  BY <1>1 DEF AccountIsStored, WillHold, PageStays
<1>10. NukeIsFinal'
  BY <1>1 DEF NukeIsFinal, WillHold, PageStays, Wiped
<1>11. WipeInv'
  <2>1. \A g \in Legacy : \A i \in Places(answers'[g]) : \E j \in Places(answers[g]) :
           answers'[g][i] = answers[g][j]
    BY <1>2, <1>4 DEF EmptyFacts
  <2>2. Wiped => \A g \in Legacy : \A i \in Places(answers'[g]) :
           IsSeed(answers'[g][i]) => answers'[g][i].value \notin destroyed
    BY <1>1, <2>1 DEF WipeInv, Wiped
  <2>3. QED BY <1>1, <2>2 DEF WipeInv, Wiped
<1>12. CountInv'
  <2> SUFFICES ASSUME Open', ~page'.FAILED
               PROVE  /\ page'.OUTSTANDING >= Cardinality(Asked(loads, requests)) + Cardinality(Said(answers'))
                      /\ page'.OUTSTANDING > 0 => page'.PENDING
    BY DEF CountInv
  <2>1. /\ page'.OUTSTANDING = page.OUTSTANDING /\ page'.PENDING = page.PENDING /\ ~page.FAILED
    BY DEF PageStays
  <2>2. /\ page.OUTSTANDING >= Cardinality(Asked(loads, requests)) + Cardinality(Said(answers))
        /\ page.OUTSTANDING > 0 => page.PENDING
    BY <1>1, <1>4, <2>1 DEF CountInv
  <2>3. Cardinality(Asked(loads, requests)) \in Nat /\ page.OUTSTANDING \in Int
    <3>1. requests \in [Generation -> Seq(Request)] /\ answers \in [Generation -> Seq(Answer)]
      BY <1>1 DEF RequestsOK, AnswersOK
    <3>2. Cardinality(Asked(loads, requests)) \in Nat
      BY <3>1, OwedFinite
    <3>3. QED BY <1>1, <3>2 DEF RestOK, Page
  <2>4. QED BY <1>2, <2>1, <2>2, <2>3 DEF EmptyFacts
<1>13. HeldInv'
  BY <1>1, <1>4 DEF HeldInv, PageStays
<1>14. LiveInv'
  <2>1. \A g \in Legacy : Tells(g, "posting_key") => Tells(g, "posting_key")'
    BY <1>2, <1>4, Keys DEF EmptyFacts
  <2>2. QED BY <1>1, <1>4, <2>1 DEF LiveInv, PageStays
<1>15. DeleteInv'
  BY <1>1 DEF DeleteInv, RestOK
<1>16. CarryInv'
  <2>1. \A g \in Legacy, k \in Key : Tells(g, k) => Tells(g, k)'
    BY <1>2, <1>4 DEF EmptyFacts
  <2>2. \A k : WillHold(Current, k)' = WillHold(Current, k)
    BY DEF WillHold
  <2>3. nukes' = 0 => nukes = 0
    BY <1>1 DEF RestOK
  <2>4. Open' /\ ~page'.FAILED /\ page'.PROBE_DONE /\ nukes' = 0 /\ ~lost' /\ "Store" \notin refused' =>
          Open /\ ~page.FAILED /\ page.PROBE_DONE /\ nukes = 0 /\ ~lost /\ "Store" \notin refused
    BY <1>4, <2>3 DEF PageStays, Open
  <2>5. QED BY <1>1, <2>1, <2>2, <2>4 DEF CarryInv
<1>17. QED
  BY <1>2, <1>3, <1>5, <1>6, <1>7, <1>8, <1>9, <1>10, <1>11, <1>12, <1>13, <1>14, <1>15, <1>16
  DEF AccountInv, TypeInv, PageInv, ProbeInv, EmptyFacts

\* Nothing sent is nothing changed.
LEMMA SendNothing ==
  ASSUME requests \in [Generation -> Seq(Request)], send(Nothing)
  PROVE  requests' = requests
<1>1. \A g \in Generation : requests[g] \o <<>> = requests[g]
  <2> TAKE g \in Generation
  <2>1. requests[g] \in Seq(Request)
    OBVIOUS
  <2>2. QED BY <2>1, ConcatEmptySeq
<1>2. requests' = [g \in Generation |-> requests[g]]
  BY <1>1 DEF send, Nothing
<1>3. QED BY <1>2

\* What probe_note does to a page.
Noted(p, n, q) ==
  /\ q \in Page
  /\ q.socket = p.socket /\ q.status = p.status
  /\ q.ACCOUNT = p.ACCOUNT /\ q.POSTING_KEY_LOADED = p.POSTING_KEY_LOADED
  /\ q.PROBE_DONE = p.PROBE_DONE /\ q.FAILED = p.FAILED
  /\ q.OUTSTANDING = p.OUTSTANDING + n
  /\ q.PENDING <=> (p.PENDING /\ p.OUTSTANDING + n > 0)

\* probe_note touches the count and the gate, and drops the gate at zero.
LEMMA NoteFields ==
  ASSUME NEW p \in Page, NEW n \in Int
  PROVE  Noted(p, n, probe_note(p, n))
<1> DEFINE m == p.OUTSTANDING + n
           b == p.PENDING /\ p.OUTSTANDING + n > 0
<1>1. m \in Int
  BY DEF Page
<1>2. b \in BOOLEAN
  OBVIOUS
<1>3. probe_note(p, n) = [p EXCEPT !.OUTSTANDING = m, !.PENDING = b]
  BY Zenon DEF probe_note
<1>4. b <=> (p.PENDING /\ p.OUTSTANDING + n > 0)
  OBVIOUS
<1>5. m = p.OUTSTANDING + n
  OBVIOUS
<1> HIDE DEF m, b
<1>6. QED BY <1>1, <1>2, <1>3, <1>4, <1>5 DEF Page, Noted

\* The timers, the news of a lost connection, and nothing at all.
LEMMA QuietKeeps ==
  ASSUME AccountInv, Watchdog \/ Ceiling \/ NoticeLost \/ UNCHANGED accountVars
  PROVE  AccountInv'
<1>1. page \in Page /\ nukes \in Nat
  BY DEF AccountInv, TypeInv, RestOK
<1>2. CASE Watchdog
  <2>1. PageStays
    BY <1>1, <1>2 DEF Watchdog, PageStays, Page
  <2>2. QED BY <1>2, <2>1, StaysKeeps DEF Watchdog, EmptyHeard
<1>3. CASE Ceiling
  <2>1. PageStays
    BY <1>1, <1>3 DEF Ceiling, PageStays, Page
  <2>2. QED BY <1>3, <2>1, StaysKeeps DEF Ceiling, EmptyHeard
<1>4. CASE NoticeLost
  <2>1. PageStays
    BY <1>1, <1>4 DEF NoticeLost, PageStays, Page
  <2>2. QED BY <1>4, <2>1, StaysKeeps DEF NoticeLost, EmptyHeard
<1>5. CASE UNCHANGED accountVars
  <2>1. PageStays
    BY <1>1, <1>5 DEF accountVars, PageStays
  <2>2. QED BY <1>5, <2>1, StaysKeeps DEF accountVars, EmptyHeard
<1>6. QED BY <1>2, <1>3, <1>4, <1>5

\* An empty answer.
LEMMA EmptyKeeps ==
  ASSUME AccountInv, NEW g \in Generation, Dispatch(g), Head(answers[g]).kind = "Empty"
  PROVE  AccountInv'
<1>1. page \in Page /\ requests \in [Generation -> Seq(Request)] /\ ScreenInv /\ UnheardInv
  BY DEF AccountInv, TypeInv, RestOK, RequestsOK, PageInv
<1>2. EmptyHeard
  BY DEF Dispatch, EmptyHeard
<1>3. CASE g = Current
  <2>1. page' = note_empty_delegate_response(page) /\ send(Nothing)
    BY <1>3 DEF Dispatch, dispatch
  <2>2. requests' = requests
    BY <1>1, <2>1, SendNothing
  <2>3. PageStays
    <3>1. page.EMPTY_FREEBIRD \in 0..2 /\ page.KEY_STORE_UNREACHABLE \in BOOLEAN
      BY <1>1 DEF Page
    <3> DEFINE seen == page.EMPTY_FREEBIRD + 1
               n == IF seen > 2 THEN 2 ELSE seen
               b == page.KEY_STORE_UNREACHABLE \/ (seen >= 2 /\ page.POSTING_KEY_LOADED = Unanswered)
    <3>2. page' = [page EXCEPT !.EMPTY_FREEBIRD = n, !.KEY_STORE_UNREACHABLE = b]
      BY <2>1, Zenon DEF note_empty_delegate_response
    <3>4. n \in 0..2
      BY <3>1
    <3>5. b \in BOOLEAN
      OBVIOUS
    <3> HIDE DEF n, b
    <3>3. QED BY <1>1, <3>2, <3>4, <3>5 DEF PageStays, Page
  <2>4. QED BY <1>2, <2>2, <2>3, StaysKeeps DEF Dispatch
<1>4. CASE g # Current
  <2>1. page' = note_empty_legacy_response(page) /\ send(Nothing)
    BY <1>4 DEF Dispatch, dispatch
  <2>2. requests' = requests
    BY <1>1, <2>1, SendNothing
  <2>3. PageStays
    <3> DEFINE m == page.ACK_BUDGET - 1
               spent == [page EXCEPT !.ACK_BUDGET = m]
               warned == [spent EXCEPT !.FAILED = TRUE]
    <3>1. m \in Int
      BY <1>1 DEF Page
    <3>2. page' = IF page.ACK_BUDGET > 0 THEN spent ELSE probe_note(warned, -1)
      BY <2>1, Zenon DEF note_empty_legacy_response
    <3> HIDE DEF m
    <3>3. /\ spent \in Page
          /\ spent.socket = page.socket /\ spent.ACCOUNT = page.ACCOUNT
          /\ spent.POSTING_KEY_LOADED = page.POSTING_KEY_LOADED
          /\ spent.status = page.status /\ spent.PROBE_DONE = page.PROBE_DONE
          /\ spent.PENDING = page.PENDING /\ spent.FAILED = page.FAILED
          /\ spent.OUTSTANDING = page.OUTSTANDING
      BY <1>1, <3>1 DEF Page
    <3> HIDE DEF spent
    <3>4. CASE page.ACK_BUDGET > 0
      <4>1. page' = spent
        BY <3>2, <3>4
      <4>2. QED BY <3>3, <4>1 DEF PageStays
    <3>5. CASE ~(page.ACK_BUDGET > 0)
      <4>1. /\ warned \in Page /\ warned.FAILED
            /\ warned.socket = spent.socket /\ warned.ACCOUNT = spent.ACCOUNT
            /\ warned.POSTING_KEY_LOADED = spent.POSTING_KEY_LOADED
            /\ warned.status = spent.status /\ warned.PROBE_DONE = spent.PROBE_DONE
            /\ warned.PENDING = spent.PENDING
        BY <3>3 DEF Page
      <4> HIDE DEF warned
      <4>2. Noted(warned, -1, probe_note(warned, -1))
        BY <4>1, NoteFields
      <4>3. page' = probe_note(warned, -1)
        BY <3>2, <3>5
      <4>4. QED BY <3>3, <4>1, <4>2, <4>3 DEF PageStays, Noted
    <3>6. QED BY <3>4, <3>5
  <2>4. QED BY <1>2, <2>2, <2>3, StaysKeeps DEF Dispatch
<1>5. QED BY <1>3, <1>4

-----------------------------------------------------------------------------
(* A request is handled *)

\* The head r of g's queue is handled and answered with o, the others move up.
HandledHead(g, r) ==
  /\ requests[g] # <<>> /\ r = Head(requests[g]) /\ 1 \in Places(requests[g]) /\ r = requests[g][1]
  /\ Sendable(g, r, loads, attested, minted)
  /\ r.op # "Register" => g \in registered
  /\ registered \subseteq registered' /\ registered' \subseteq Generation
  /\ r.op = "Register" => g \in registered'
  /\ refused' \subseteq {"Store", "Delete"}
  /\ UNCHANGED <<attested, page, loads, minted, destroyed, lost, nukes, haunted>>

\* It is carried out ...
HandledStore(g, r) ==
  /\ store' = [store EXCEPT ![g] = handle_store(store[g], r)]
  /\ refused' = refused

\* ... or is a write that the storage refuses.
RefusedStore(g, r) ==
  /\ r.op \in {"Store", "Delete"}
  /\ store' = store
  /\ refused' = refused \cup {r.op}

\* Either way it changes no more than what it writes.
StoreMoves(g, r) ==
  /\ \A h \in Generation \ {g} : store'[h] = store[h]
  /\ \A k \in Key : \/ store'[g][k] = store[g][k]
                    \/ r.op = "Store" /\ r.key = k /\ store'[g][k] = r.value
                    \/ r.op = "Delete" /\ r.key = k /\ store'[g][k] = None
  /\ r.op \notin {"Store", "Delete"} => store' = store
  /\ StoreOK'

HandledRequests(g, r) ==
  /\ requests' \in [Generation -> Seq(Request)]
  /\ requests'[g] = Tail(requests[g]) /\ \A h \in Generation \ {g} : requests'[h] = requests[h]
  /\ Len(requests[g]) \in Nat /\ Len(requests'[g]) = Len(requests[g]) - 1
  /\ \A h \in Generation : \A i \in Places(requests'[h]) :
        /\ i \in Nat /\ i >= 1
        /\ IF h = g THEN i + 1 \in Places(requests[h]) /\ requests'[h][i] = requests[h][i+1]
           ELSE i \in Places(requests[h]) /\ requests'[h][i] = requests[h][i]

HandledAnswers(g, r, o) ==
  /\ o \in Seq(Answer) /\ Len(o) <= 1
  /\ \A i \in Places(o) : i = 1
  /\ o # <<>> =>
       /\ Open /\ r.load = loads /\ 1 \in Places(o)
       /\ \/ o[1] = [kind |-> "Empty"]
          \/ /\ attested[loads] /\ g \in registered /\ r.op = "Get"
             /\ o[1] = [kind |-> "Value", key |-> r.key, value |-> store[g][r.key]]
          \/ /\ attested[loads] /\ g \in registered /\ r.op = "List"
             /\ o[1] = [kind |-> "KeyList", keys |-> keys_of(store[g])]
  /\ Open /\ r.load = loads /\ attested[loads] /\ r.op \in {"Get", "List"} => o # <<>> /\ o[1].kind # "Empty"
  /\ answers' \in [Generation -> Seq(Answer)]
  /\ answers'[g] = answers[g] \o o /\ \A h \in Generation \ {g} : answers'[h] = answers[h]
  /\ \A h \in Generation : \A i \in Places(answers'[h]) :
       \/ i \in Places(answers[h]) /\ answers'[h][i] = answers[h][i]
       \/ h = g /\ o # <<>> /\ answers'[h][i] = o[1] /\ i = Len(answers[g]) + 1
  /\ \A h \in Generation : \A i \in Places(answers[h]) : i \in Places(answers'[h]) /\ answers'[h][i] = answers[h][i]
  /\ o # <<>> => \E i \in Places(answers'[g]) : answers'[g][i] = o[1]

\* The head of a queue is handled: it can be, and the others move up.
LEMMA HandleQueue ==
  ASSUME AccountInv, NEW g \in Generation, requests[g] # <<>>,
         requests' = [requests EXCEPT ![g] = Tail(@)],
         UNCHANGED <<attested, page, loads, minted, destroyed, lost, nukes, haunted>>,
         registered' = IF Head(requests[g]).op = "Register" THEN registered \cup {g} ELSE registered,
         refused' \subseteq {"Store", "Delete"}
  PROVE  HandledHead(g, Head(requests[g])) /\ HandledRequests(g, Head(requests[g]))
<1> DEFINE r == Head(requests[g])
<1>1. /\ requests \in [Generation -> Seq(Request)] /\ requests[g] \in Seq(Request) /\ requests[g] # <<>>
      /\ RequestsOK /\ RestOK
  BY DEF AccountInv, TypeInv, RequestsOK
<1>2. LET s == requests[g]
      IN  /\ 1 \in Places(s) /\ Head(s) = s[1] /\ Head(s) \in Request
          /\ Tail(s) \in Seq(Request) /\ Len(s) \in Nat /\ Len(Tail(s)) = Len(s) - 1
          /\ \A i \in Places(Tail(s)) : i \in Nat /\ i >= 1 /\ i + 1 \in Places(s) /\ Tail(s)[i] = s[i+1]
  BY <1>1, TailPlaces
<1>3. Sendable(g, r, loads, attested, minted) /\ (r.op # "Register" => g \in registered)
  <2>1. 1..1-1 = {}
    OBVIOUS
  <2>2. QED BY <1>1, <1>2, <2>1 DEF RequestsOK
<1>4. HandledHead(g, r)
  BY <1>1, <1>2, <1>3 DEF HandledHead, RestOK
<1>5. HandledRequests(g, r)
  <2>1. requests' \in [Generation -> Seq(Request)] /\ requests'[g] = Tail(requests[g])
    BY <1>1, <1>2
  <2>2. \A h \in Generation \ {g} : requests'[h] = requests[h]
    BY <1>1
  <2>3. ASSUME NEW h \in Generation, NEW i \in Places(requests'[h])
        PROVE  /\ i \in Nat /\ i >= 1
               /\ IF h = g THEN i + 1 \in Places(requests[h]) /\ requests'[h][i] = requests[h][i+1]
                  ELSE i \in Places(requests[h]) /\ requests'[h][i] = requests[h][i]
    <3>1. CASE h = g
      BY <1>2, <2>1, <3>1
    <3>2. CASE h # g
      <4>1. requests[h] \in Seq(Request) /\ requests'[h] = requests[h]
        BY <1>1, <2>2, <3>2
      <4>2. QED BY <3>2, <4>1, PlacesOf
    <3>3. QED BY <3>1, <3>2
  <2>4. QED BY <1>2, <2>1, <2>2, <2>3 DEF HandledRequests
<1>6. QED BY <1>4, <1>5

\* What the delegate does with the head of a queue: to its store and to the queue.
LEMMA HandleStore ==
  ASSUME AccountInv, NEW g \in Generation, Handle(g)
  PROVE  /\ HandledHead(g, Head(requests[g])) /\ HandledStore(g, Head(requests[g]))
         /\ HandledRequests(g, Head(requests[g]))
<1> DEFINE r == Head(requests[g])
<1>1. RestOK
  BY DEF AccountInv, TypeInv
<1>2. /\ requests[g] # <<>> /\ requests' = [requests EXCEPT ![g] = Tail(@)]
      /\ UNCHANGED <<attested, page, loads, minted, destroyed, lost, refused, nukes, haunted>>
      /\ registered' = IF r.op = "Register" THEN registered \cup {g} ELSE registered
      /\ store' = [store EXCEPT ![g] = process(g, r).kv]
  BY DEF Handle
<1>3. HandledHead(g, r) /\ HandledRequests(g, r)
  <2>1. refused' \subseteq {"Store", "Delete"}
    BY <1>1, <1>2 DEF RestOK
  <2>2. QED BY <1>2, <2>1, HandleQueue
<1>4. Sendable(g, r, loads, attested, minted) /\ (r.op # "Register" => g \in registered)
  BY <1>3 DEF HandledHead
<1>5. process(g, r).kv = handle_store(store[g], r)
  <2>1. r.op \notin {"Store", "Delete"} => handle_store(store[g], r) = store[g]
    BY DEF handle_store
  <2>2. r.op \in {"Store", "Delete"} => g \in registered /\ attested[r.load]
    BY <1>4 DEF Sendable
  <2>3. attested[r.load] \in BOOLEAN
    BY <1>1, <1>4, RequestShape DEF RestOK, Sendable
  <2> HIDE DEF r
  <2>4. CASE r.op \in {"Store", "Delete"}
    <3>1. process(g, r) = [kv |-> handle_store(store[g], r), out |-> handle_request(store[g], r)]
      BY <2>2, <2>4 DEF process
    <3>2. QED BY <3>1
  <2>5. CASE r.op \notin {"Store", "Delete"}
    <3>1. process(g, r).kv = store[g]
      BY <1>4, <2>1, <2>3, <2>5 DEF process
    <3>2. QED BY <2>1, <2>5, <3>1
  <2>6. QED BY <2>4, <2>5
<1>6. QED BY <1>2, <1>3, <1>5 DEF HandledStore

\* What it answers: at most one message, to a live page that asked.
LEMMA HandleAnswers ==
  ASSUME AccountInv, NEW g \in Generation, Handle(g)
  PROVE  \E o : HandledAnswers(g, Head(requests[g]), o)
<1> DEFINE r == Head(requests[g])
           o == IF r.load = loads /\ Open THEN process(g, r).out ELSE <<>>
<1>1. /\ StoreOK /\ AnswersOK /\ RestOK /\ HandledHead(g, r) /\ HandledStore(g, r)
      /\ answers \in [Generation -> Seq(Answer)] /\ answers[g] \in Seq(Answer)
  BY HandleStore DEF AccountInv, TypeInv, AnswersOK
<1>2. r.op \in {"Register", "List", "Get", "Delete", "Store"} /\ r.load \in 1..MaxLoads
      /\ (r.op \in {"Get", "Delete", "Store"} => r.key \in Key)
      /\ (r.op # "Register" => g \in registered) /\ attested[r.load] \in BOOLEAN
  <2>1. r \in Request /\ (r.op # "Register" => g \in registered)
    BY <1>1 DEF HandledHead, HandledStore, Sendable
  <2> HIDE DEF r
  <2>2. r.load \in 1..MaxLoads
    BY <2>1, RequestShape
  <2>3. attested[r.load] \in BOOLEAN
    BY <1>1, <2>2 DEF RestOK
  <2>4. QED BY <2>1, <2>2, <2>3, RequestShape
<1> DEFINE empty == [kind |-> "Empty"]
           value == [kind |-> "Value", key |-> r.key, value |-> store[g][r.key]]
           list == [kind |-> "KeyList", keys |-> keys_of(store[g])]
<1>3. process(g, r).out =
        IF r.op = "Register" \/ ~attested[r.load] THEN <<empty>>
        ELSE CASE r.op = "Get" -> <<value>>
               [] r.op = "List" -> <<list>>
               [] OTHER -> <<>>
  <2> HIDE DEF r
  <2>1. CASE r.op = "Register"
    BY <2>1 DEF process
  <2>2. CASE r.op # "Register" /\ ~attested[r.load]
    BY <1>2, <2>2 DEF process
  <2>3. CASE r.op # "Register" /\ attested[r.load]
    <3>1. process(g, r).out = handle_request(store[g], r)
      BY <1>2, <2>3 DEF process
    <3>2. QED BY <2>3, <3>1 DEF handle_request
  <2>4. QED BY <1>2, <2>1, <2>2, <2>3
<1>4. empty \in Answer
  BY DEF Answer
<1>5. r.op = "Get" => value \in Answer
  BY <1>1, <1>2 DEF Answer, StoreOK
<1>6. list \in Answer
  BY DEF Answer, keys_of
<1>7. /\ o = <<>> \/ \E a \in Answer : o = <<a>>
      /\ o # <<>> =>
           /\ Open /\ r.load = loads
           /\ \/ o[1] = empty
              \/ attested[loads] /\ g \in registered /\ r.op = "Get" /\ o[1] = value
              \/ attested[loads] /\ g \in registered /\ r.op = "List" /\ o[1] = list
      /\ Open /\ r.load = loads /\ attested[loads] /\ r.op \in {"Get", "List"} => o # <<>> /\ o[1].kind # "Empty"
  <2>1. value.kind # "Empty" /\ list.kind # "Empty"
    OBVIOUS
  <2> HIDE DEF r, empty, value, list
  <2>2. CASE ~(r.load = loads /\ Open)
    BY <2>2
  <2>3. CASE r.load = loads /\ Open /\ (r.op = "Register" \/ ~attested[r.load])
    <3>1. o = <<empty>>
      BY <1>3, <2>3
    <3>2. ~(attested[loads] /\ r.op \in {"Get", "List"})
      BY <2>3
    <3> HIDE DEF o
    <3>3. QED BY <1>4, <2>3, <3>1, <3>2
  <2>4. CASE r.load = loads /\ Open /\ r.op = "Get" /\ attested[r.load]
    <3>1. o = <<value>>
      BY <1>3, <2>4
    <3> HIDE DEF o
    <3>2. QED BY <1>2, <1>5, <2>1, <2>4, <3>1
  <2>5. CASE r.load = loads /\ Open /\ r.op = "List" /\ attested[r.load]
    <3>1. o = <<list>>
      BY <1>3, <2>5
    <3> HIDE DEF o
    <3>2. QED BY <1>2, <1>6, <2>1, <2>5, <3>1
  <2>6. CASE r.load = loads /\ Open /\ r.op \in {"Delete", "Store"} /\ attested[r.load]
    <3>1. o = <<>>
      BY <1>3, <2>6
    <3> HIDE DEF o
    <3>2. QED BY <2>6, <3>1
  <2>7. QED BY <1>2, <2>2, <2>3, <2>4, <2>5, <2>6
<1>8. answers' = [answers EXCEPT ![g] = @ \o o]
  <2>1. answers' = IF r.load = loads /\ page.socket = "open"
                   THEN [answers EXCEPT ![g] = @ \o process(g, r).out] ELSE answers
    BY DEF Handle
  <2>2. CASE r.load = loads /\ Open
    BY <2>1, <2>2 DEF Open
  <2>3. CASE ~(r.load = loads /\ Open)
    <3>1. answers' = answers /\ o = <<>>
      BY <2>1, <2>3 DEF Open
    <3>2. answers[g] \o <<>> = answers[g]
      BY <1>1, ConcatEmptySeq
    <3>3. [answers EXCEPT ![g] = @ \o <<>>] = answers
      BY <1>1, <3>2
    <3>4. QED BY <3>1, <3>3
  <2>4. QED BY <2>2, <2>3
<1> HIDE DEF o, r, empty, value, list
<1>9. /\ o \in Seq(Answer) /\ Len(o) <= 1 /\ (\A i \in Places(o) : i = 1)
      /\ (o # <<>> => 1 \in Places(o)) /\ Len(o) \in Nat
  <2>1. CASE o = <<>>
    BY <2>1 DEF Places
  <2>2. ASSUME NEW a \in Answer, o = <<a>>
        PROVE  o \in Seq(Answer) /\ Len(o) = 1 /\ Places(o) = {1}
    <3>1. <<a>> \in Seq(Answer) /\ Len(<<a>>) = 1
      OBVIOUS
    <3>2. 1..1 = {1}
      OBVIOUS
    <3>3. QED BY <2>2, <3>1, <3>2 DEF Places
  <2>3. CASE o # <<>>
    <3>1. PICK a \in Answer : o = <<a>>
      BY <1>7, <2>3
    <3>2. o \in Seq(Answer) /\ Len(o) = 1 /\ Places(o) = {1}
      BY <2>2, <3>1
    <3>3. QED BY <3>2
  <2>4. QED BY <2>1, <2>3
<1>10. LET s == answers[g]
           t == o
       IN  /\ s \o t \in Seq(Answer)
           /\ Len(s) \in Nat /\ Len(t) \in Nat /\ Len(s \o t) = Len(s) + Len(t)
           /\ \A i \in Places(s) : i \in Places(s \o t) /\ (s \o t)[i] = s[i]
           /\ \A i \in Places(t) : Len(s) + i \in Places(s \o t) /\ (s \o t)[Len(s) + i] = t[i]
           /\ \A i \in Places(s \o t) : /\ i \in Nat /\ i >= 1
                                        /\ \/ i \in Places(s)
                                           \/ i > Len(s) /\ i - Len(s) \in Places(t)
  BY <1>1, <1>9, CatPlaces
<1>11. answers' \in [Generation -> Seq(Answer)] /\ answers'[g] = answers[g] \o o
       /\ \A h \in Generation \ {g} : answers'[h] = answers[h]
  BY <1>1, <1>8, <1>10
<1>12. ASSUME NEW h \in Generation, NEW i \in Places(answers'[h])
       PROVE  \/ i \in Places(answers[h]) /\ answers'[h][i] = answers[h][i]
              \/ h = g /\ o # <<>> /\ answers'[h][i] = o[1] /\ i = Len(answers[g]) + 1
  <2>1. CASE h # g
    BY <1>11, <2>1
  <2>2. CASE h = g /\ i \in Places(answers[g])
    BY <1>10, <1>11, <2>2
  <2>3. CASE h = g /\ i > Len(answers[g]) /\ i - Len(answers[g]) \in Places(o)
    <3>1. i - Len(answers[g]) = 1 /\ 1 \in Places(o)
      BY <1>9, <2>3
    <3>2. i \in Nat /\ Len(answers[g]) \in Nat
      BY <1>10, <1>11, <2>3
    <3>3. i = Len(answers[g]) + 1
      BY <3>1, <3>2
    <3>4. answers'[h][i] = o[1]
      BY <1>10, <1>11, <2>3, <3>1, <3>3, Zenon
    <3>5. o # <<>>
      BY <1>9, <3>1, PlacesOf
    <3>6. QED BY <2>3, <3>3, <3>4, <3>5
  <2>4. QED BY <1>10, <1>11, <2>1, <2>2, <2>3
<1>13. \A h \in Generation : \A i \in Places(answers[h]) : i \in Places(answers'[h]) /\ answers'[h][i] = answers[h][i]
  <2> SUFFICES ASSUME NEW h \in Generation, NEW i \in Places(answers[h])
               PROVE  i \in Places(answers'[h]) /\ answers'[h][i] = answers[h][i]
    OBVIOUS
  <2>1. CASE h # g
    BY <1>11, <2>1
  <2>2. CASE h = g
    BY <1>10, <1>11, <2>2
  <2>3. QED BY <2>1, <2>2
<1>14. o # <<>> => \E i \in Places(answers'[g]) : answers'[g][i] = o[1]
  <2>1. o # <<>> => Len(answers[g]) + 1 \in Places(answers'[g]) /\ answers'[g][Len(answers[g]) + 1] = o[1]
    BY <1>9, <1>10, <1>11, Zenon
  <2>2. QED BY <2>1
<1>15. HandledAnswers(g, r, o)
  BY <1>7, <1>9, <1>11, <1>12, <1>13, <1>14 DEF HandledAnswers, empty, value, list
<1>16. QED BY <1>15 DEF r

\* What a generation holds after a request it may be sent.
LEMMA StoreAfter ==
  ASSUME StoreOK, RestOK, NEW g \in Generation, NEW r, HandledHead(g, r), HandledStore(g, r)
  PROVE  /\ \A h \in Generation \ {g} : store'[h] = store[h]
         /\ \A k \in Key : store'[g][k] =
              IF r.op = "Store" /\ r.key = k THEN r.value
              ELSE IF r.op = "Delete" /\ r.key = k THEN None ELSE store[g][k]
         /\ StoreMoves(g, r)
<1> USE Keys
<1>1. /\ store \in [Generation -> [Key -> Value \cup {None}]]
      /\ store' = [store EXCEPT ![g] = handle_store(store[g], r)]
      /\ Sendable(g, r, loads, attested, minted)
  BY DEF HandledHead, HandledStore, StoreOK
<1>2. /\ r.op \in {"Register", "List", "Get", "Delete", "Store"}
      /\ r.op \in {"Get", "Delete", "Store"} => r.key \in Key
      /\ r.op = "Store" => r.value \in Value
  BY <1>1, RequestShape DEF Sendable
<1>3. \A k \in Key : handle_store(store[g], r)[k] =
         IF r.op = "Store" /\ r.key = k THEN r.value
         ELSE IF r.op = "Delete" /\ r.key = k THEN None ELSE store[g][k]
  BY <1>1, <1>2 DEF handle_store
<1>4. handle_store(store[g], r) \in [Key -> Value \cup {None}]
  BY <1>1, <1>2 DEF handle_store
<1>5. store' \in [Generation -> [Key -> Value \cup {None}]] /\ store'[g] = handle_store(store[g], r)
      /\ \A h \in Generation \ {g} : store'[h] = store[h]
  BY <1>1, <1>4
<1>6. r.op \notin {"Store", "Delete"} => store' = store
  <2>1. r.op \notin {"Store", "Delete"} => handle_store(store[g], r) = store[g]
    BY DEF handle_store
  <2>2. [store EXCEPT ![g] = store[g]] = store
    BY <1>1
  <2>3. QED BY <1>1, <2>1, <2>2
<1>7. StoreOK'
  <2> SUFFICES ASSUME NEW h \in Generation
               PROVE  /\ store'[h]["posting_key"] \in minted \cup {None}
                      /\ \A k \in Setting : store'[h][k] \in {Stored, None}
    BY <1>5 DEF StoreOK, HandledHead, HandledStore
  <2>1. CASE h # g
    BY <1>5, <2>1 DEF StoreOK
  <2>2. CASE h = g
    <3>1. store'[g]["posting_key"] \in minted \cup {None}
      BY <1>1, <1>3, <1>5 DEF StoreOK, Sendable
    <3>2. ASSUME NEW k \in Setting PROVE store'[g][k] \in {Stored, None}
      <4>1. k \in Key /\ k # "posting_key"
        OBVIOUS
      <4>2. QED BY <1>1, <1>3, <1>5, <4>1 DEF StoreOK, Sendable
    <3>3. QED BY <2>2, <3>1, <3>2
  <2>3. QED BY <2>1, <2>2
<1>8. QED BY <1>3, <1>5, <1>6, <1>7 DEF StoreMoves

\* A handled request leaves stores, queues and answers well typed.
LEMMA HandleTypes ==
  ASSUME AccountInv, NEW g \in Generation, NEW r, HandledHead(g, r), StoreMoves(g, r), HandledRequests(g, r),
         NEW o, HandledAnswers(g, r, o)
  PROVE  TypeInv'
<1>1. StoreOK /\ RequestsOK /\ AnswersOK /\ RestOK
  BY DEF AccountInv, TypeInv
<1>2. StoreOK'
  BY <1>1 DEF StoreMoves
<1>3. RestOK'
  BY <1>1 DEF RestOK, HandledHead
<1>4. RequestsOK'
  <2> SUFFICES ASSUME NEW h \in Generation, NEW i \in Places(requests'[h])
               PROVE  /\ Sendable(h, requests'[h][i], loads, attested, minted)
                      /\ \/ requests'[h][i].op = "Register"
                         \/ h \in registered'
                         \/ \E j \in 1..i-1 : requests'[h][j].op = "Register"
    BY DEF RequestsOK, HandledRequests, HandledHead
  <2>1. CASE h # g
    <3>1. requests'[h] = requests[h]
      BY <2>1 DEF HandledRequests
    <3>2. QED BY <1>1, <3>1 DEF RequestsOK, HandledHead
  <2>2. CASE h = g
    <3>1. i \in Nat /\ i >= 1 /\ i + 1 \in Places(requests[g]) /\ requests'[g][i] = requests[g][i+1]
      BY <2>2 DEF HandledRequests
    <3>2. /\ Sendable(g, requests[g][i+1], loads, attested, minted)
          /\ \/ requests[g][i+1].op = "Register"
             \/ g \in registered
             \/ \E j \in 1..(i+1)-1 : requests[g][j].op = "Register"
      BY <1>1, <3>1 DEF RequestsOK
    <3>3. ASSUME NEW j \in 1..(i+1)-1, requests[g][j].op = "Register"
          PROVE  g \in registered' \/ \E m \in 1..i-1 : requests'[g][m].op = "Register"
      <4>1. CASE j = 1
        BY <3>3, <4>1 DEF HandledHead
      <4>2. CASE j # 1
        <5>1. j - 1 \in 1..i-1 /\ (j - 1) + 1 = j
          BY <3>1, <4>2
        <5>2. Len(requests'[g]) \in Nat /\ i <= Len(requests'[g])
          <6>1. requests'[g] \in Seq(Request)
            BY DEF HandledRequests
          <6>2. QED BY <2>2, <6>1, PlacesOf
        <5>3. j - 1 \in Places(requests'[g])
          BY <3>1, <5>1, <5>2 DEF Places
        <5>4. requests'[g][j - 1] = requests[g][j]
          BY <5>1, <5>3 DEF HandledRequests
        <5>5. QED BY <3>3, <5>1, <5>4
      <4>3. QED BY <4>1, <4>2
    <3>4. QED BY <2>2, <3>1, <3>2, <3>3 DEF HandledHead
  <2>3. QED BY <2>1, <2>2
<1>5. AnswersOK'
  <2> SUFFICES ASSUME NEW h \in Generation, NEW i \in Places(answers'[h])
               PROVE  Answerable(h, answers'[h][i], registered', minted)
    BY DEF AnswersOK, HandledAnswers, HandledHead
  <2>1. CASE i \in Places(answers[h]) /\ answers'[h][i] = answers[h][i]
    BY <1>1, <2>1 DEF AnswersOK, HandledHead, Answerable
  <2>2. CASE h = g /\ o # <<>> /\ answers'[h][i] = o[1]
    <3>1. o[1] \in Answer /\ Sendable(g, r, loads, attested, minted)
      BY <2>2, PlacesOf DEF HandledAnswers, HandledHead
    <3>2. CASE o[1] = [kind |-> "Empty"]
      BY <2>2, <3>1, <3>2 DEF Answerable
    <3>3. CASE r.op = "Get" /\ o[1] = [kind |-> "Value", key |-> r.key, value |-> store[g][r.key]]
      <4>1. o[1].kind = "Value" /\ o[1].key = r.key /\ o[1].value = store[g][r.key]
        BY <3>3
      <4>2. r.key \in Key /\ (g = Current => r.key = "posting_key")
        BY <3>1, <3>3, RequestShape DEF Sendable
      <4>3. r.key = "posting_key" \/ r.key \in Setting
        BY <4>2 DEF Key
      <4>4. QED BY <1>1, <2>2, <3>1, <4>1, <4>2, <4>3 DEF Answerable, StoreOK
    <3>4. CASE r.op = "List" /\ g \in registered /\ o[1] = [kind |-> "KeyList", keys |-> keys_of(store[g])]
      BY <2>2, <3>1, <3>4 DEF Answerable, Sendable, HandledHead
    <3>5. QED BY <2>2, <3>2, <3>3, <3>4 DEF HandledAnswers
  <2>3. QED BY <2>1, <2>2 DEF HandledAnswers
<1>6. QED BY <1>2, <1>3, <1>4, <1>5 DEF TypeInv

\* A handled request keeps what the page may assume of the posting key's Get.
LEMMA HandlePage ==
  ASSUME AccountInv, NEW g \in Generation, NEW r, HandledHead(g, r), StoreMoves(g, r), HandledRequests(g, r),
         NEW o, HandledAnswers(g, r, o)
  PROVE  PageInv'
<1>1. /\ StoreOK /\ RequestsOK /\ AnswersOK /\ RestOK
      /\ ScreenInv /\ UnheardInv /\ HeardInv /\ AnswerInv
  BY DEF AccountInv, TypeInv, PageInv
<1>2. /\ Open' = Open /\ Unheard' = Unheard /\ page' = page /\ loads' = loads /\ attested' = attested
      /\ minted' = minted /\ registered \subseteq registered'
      /\ Current \in Generation /\ Legacy \subseteq Generation /\ Current \notin Legacy
  BY Keys DEF Open, Unheard, HandledHead
<1>3. /\ answers \in [Generation -> Seq(Answer)] /\ answers' \in [Generation -> Seq(Answer)]
      /\ requests \in [Generation -> Seq(Request)] /\ requests' \in [Generation -> Seq(Request)]
  BY <1>1 DEF AnswersOK, RequestsOK, HandledAnswers, HandledRequests
<1>4. ScreenInv'
  <2>1. ASSUME NEW h \in Generation, answers'[h] # <<>> PROVE Open
    <3>1. CASE h = g /\ o # <<>>
      BY <3>1 DEF HandledAnswers
    <3>2. CASE h # g \/ o = <<>>
      <4>1. answers[h] \in Seq(Answer) /\ answers[g] \in Seq(Answer)
        BY <1>3
      <4>2. answers[g] \o <<>> = answers[g]
        BY <4>1, ConcatEmptySeq
      <4>3. answers'[h] = answers[h]
        BY <3>2, <4>2 DEF HandledAnswers
      <4>4. QED BY <1>1, <2>1, <4>3 DEF ScreenInv
    <3>3. QED BY <3>1, <3>2
  <2>2. QED BY <1>1, <1>2, <2>1 DEF ScreenInv
<1>5. UnheardInv'
  <2> SUFFICES ASSUME Unheard PROVE UnheardInv'
    BY <1>2 DEF UnheardInv
  <2>1. ASSUME NEW h \in Legacy
        PROVE  answers'[h] = <<>> /\ \A i \in Places(requests'[h]) : requests'[h][i].load # loads
    <3>1. answers[h] = <<>> /\ \A i \in Places(requests[h]) : requests[h][i].load # loads
      BY <1>1, <2>1 DEF UnheardInv
    <3>2. h = g => r.load # loads
      BY <3>1 DEF HandledHead
    <3>3. Places(answers[h]) = {}
      BY <3>1 DEF Places
    <3>4. Places(answers'[h]) = {}
      BY <1>2, <3>2, <3>3 DEF HandledAnswers
    <3>5. answers'[h] \in Seq(Answer)
      BY <1>2, <1>3
    <3>6. answers'[h] = <<>>
      BY <3>4, <3>5, PlacesOf
    <3>7. \A i \in Places(requests'[h]) : requests'[h][i].load # loads
      BY <1>2, <3>1 DEF HandledRequests
    <3>8. QED BY <3>6, <3>7
  <2>2. ASSUME NEW i \in Places(requests'[Current])
        PROVE  IF i = Len(requests'[Current])
               THEN requests'[Current][i] = [op |-> "Get", key |-> "posting_key", load |-> loads]
               ELSE requests'[Current][i].op = "Get" => requests'[Current][i].load # loads
    <3>1. CASE Current # g
      <4>1. requests'[Current] = requests[Current]
        BY <1>2, <3>1 DEF HandledRequests
      <4>2. QED BY <1>1, <4>1 DEF UnheardInv
    <3>2. CASE Current = g
      <4>1. /\ i \in Nat /\ i + 1 \in Places(requests[Current])
            /\ requests'[Current][i] = requests[Current][i+1]
            /\ Len(requests[Current]) \in Nat /\ Len(requests'[Current]) = Len(requests[Current]) - 1
        BY <1>2, <3>2 DEF HandledRequests
      <4>2. i = Len(requests'[Current]) <=> i + 1 = Len(requests[Current])
        BY <4>1
      <4>3. IF i + 1 = Len(requests[Current])
            THEN requests[Current][i+1] = [op |-> "Get", key |-> "posting_key", load |-> loads]
            ELSE requests[Current][i+1].op = "Get" => requests[Current][i+1].load # loads
        BY <1>1, <4>1 DEF UnheardInv
      <4>4. QED BY <4>1, <4>2, <4>3
    <3>3. QED BY <3>1, <3>2
  <2>3. QED BY <1>1, <1>2, <2>1, <2>2 DEF UnheardInv
<1>6. HeardInv'
  <2>1. \A i \in Places(requests'[Current]) : \E j \in Places(requests[Current]) :
          requests'[Current][i] = requests[Current][j]
    BY <1>2 DEF HandledRequests
  <2>2. QED BY <1>1, <1>2, <2>1 DEF HeardInv
<1>7. AnswerInv'
  <2> SUFFICES ASSUME NEW i \in Places(answers'[Current]), answers'[Current][i].kind = "Value"
               PROVE  /\ Unheard /\ requests'[Current] = <<>>
                      /\ answers'[Current][i].value = store'[Current]["posting_key"]
                      /\ attested[loads] /\ Current \in registered'
                      /\ \A j \in Places(answers'[Current]) : answers'[Current][j].kind = "Value" => j = i
    BY <1>2 DEF AnswerInv
  <2>1. \A j \in Places(answers'[Current]) :
          \/ j \in Places(answers[Current]) /\ answers'[Current][j] = answers[Current][j]
          \/ Current = g /\ o # <<>> /\ answers'[Current][j] = o[1] /\ j = Len(answers[g]) + 1
    BY <1>2 DEF HandledAnswers
  <2>2. \A j \in Places(answers[Current]) : answers[Current][j].kind = "Value" => Current # g
    BY <1>1 DEF AnswerInv, HandledHead
  <2>3. CASE i \in Places(answers[Current]) /\ answers'[Current][i] = answers[Current][i]
    <3>1. /\ Unheard /\ requests[Current] = <<>> /\ answers[Current][i].value = store[Current]["posting_key"]
          /\ attested[loads] /\ Current \in registered
          /\ \A j \in Places(answers[Current]) : answers[Current][j].kind = "Value" => j = i
      BY <1>1, <2>3 DEF AnswerInv
    <3>2. Current # g
      BY <2>2, <2>3
    <3>3. requests'[Current] = requests[Current] /\ store'[Current] = store[Current]
      BY <1>1, <1>2, <3>2 DEF StoreMoves, HandledRequests
    <3>4. QED BY <1>2, <2>1, <2>3, <3>1, <3>2, <3>3
  <2>4. CASE Current = g /\ o # <<>> /\ answers'[Current][i] = o[1] /\ i = Len(answers[g]) + 1
    <3>1. /\ attested[loads] /\ g \in registered /\ r.op = "Get" /\ r.load = loads
          /\ o[1] = [kind |-> "Value", key |-> r.key, value |-> store[g][r.key]]
      BY <2>4 DEF HandledAnswers
    <3>2. r.key = "posting_key" /\ requests[Current][1] = r /\ 1 \in Places(requests[Current])
      BY <2>4, <3>1 DEF HandledHead, Sendable
    <3>3. Unheard
      BY <1>1, <3>1, <3>2 DEF HeardInv
    <3>4. Len(requests[Current]) = 1
      BY <1>1, <3>1, <3>2, <3>3 DEF UnheardInv
    <3>5. requests'[Current] = <<>>
      <4>1. Len(requests'[Current]) = 0 /\ requests'[Current] \in Seq(Request)
        <5>1. requests'[Current] \in Seq(Request)
          BY <1>2, <1>3
        <5>2. Len(requests'[Current]) = Len(requests[Current]) - 1
          BY <2>4 DEF HandledRequests
        <5>3. QED BY <3>4, <5>1, <5>2
      <4>2. QED BY <4>1, PlacesOf
    <3>6. store' = store
      BY <1>1, <3>1 DEF StoreMoves
    <3>7. ASSUME NEW j \in Places(answers'[Current]), answers'[Current][j].kind = "Value" PROVE j = i
      BY <2>1, <2>2, <2>4, <3>7
    <3>8. o[1].value = store[Current]["posting_key"]
      BY <2>4, <3>1, <3>2
    <3>9. QED BY <1>2, <2>4, <3>1, <3>3, <3>5, <3>6, <3>7, <3>8
  <2>5. QED BY <2>1, <2>3, <2>4
<1>8. QED BY <1>4, <1>5, <1>6, <1>7 DEF PageInv

\* What a generation will hold does not depend on what it has handled.
LEMMA HandleWillHold ==
  ASSUME AccountInv, NEW g \in Generation, NEW r, HandledHead(g, r), HandledStore(g, r), HandledRequests(g, r)
  PROVE  \A h \in Generation, k \in Key : WillHold(h, k)' = WillHold(h, k)
<1>1. StoreOK /\ RequestsOK /\ RestOK
  BY DEF AccountInv, TypeInv
<1> TAKE h \in Generation, k \in Key
<1>2. CASE h # g
  <2>1. store'[h] = store[h] /\ requests'[h] = requests[h]
    BY <1>1, <1>2, StoreAfter DEF HandledRequests
  <2>2. QED BY <2>1 DEF WillHold
<1>3. CASE h = g
  <2>1. store[g] \in [Key -> Value \cup {None}] /\ requests[g] \in Seq(Request) /\ requests[g] # <<>>
    BY <1>1 DEF StoreOK, RequestsOK, HandledHead, HandledStore
  <2>2. store'[g] = handle_store(store[g], Head(requests[g])) /\ requests'[g] = Tail(requests[g])
    BY <1>1 DEF StoreOK, HandledHead, HandledStore, HandledRequests
  <2>3. After(handle_store(store[g], Head(requests[g])), Tail(requests[g]), k) = After(store[g], requests[g], k)
    BY <2>1, AfterTail
  <2>4. QED BY <1>3, <2>2, <2>3 DEF WillHold
<1>4. QED BY <1>2, <1>3

\* A handled request changes nothing of what a generation will hold, and an
\* answer that carries a seed carries one that is not destroyed.
LEMMA HandleSafe ==
  ASSUME AccountInv, NEW g \in Generation, NEW r, HandledHead(g, r), HandledStore(g, r), HandledRequests(g, r),
         NEW o, HandledAnswers(g, r, o)
  PROVE  AccountIsStored' /\ NukeIsFinal' /\ WipeInv'
<1>1. /\ StoreOK /\ RequestsOK /\ AnswersOK /\ RestOK
      /\ AccountIsStored /\ NukeIsFinal /\ WipeInv
  BY DEF AccountInv, TypeInv
<1>2. /\ \A h \in Generation, k \in Key : WillHold(h, k)' = WillHold(h, k)
      /\ page' = page /\ lost' = lost /\ refused' = refused /\ haunted' = haunted /\ destroyed' = destroyed
      /\ Current \in Generation /\ Legacy \subseteq Generation /\ "posting_key" \in Key /\ Current \notin Legacy
  BY HandleWillHold, Keys DEF HandledHead, HandledStore
<1>3. AccountIsStored'
  BY <1>1, <1>2 DEF AccountIsStored
<1>4. NukeIsFinal'
  BY <1>1, <1>2 DEF NukeIsFinal, Wiped
<1>5. WipeInv'
  <2> SUFFICES ASSUME Wiped, NEW h \in Legacy
               PROVE  /\ \A i \in Places(answers'[h]) :
                           IsSeed(answers'[h][i]) => answers'[h][i].value \notin destroyed
                      /\ \A i \in Places(requests'[h]) :
                           /\ requests'[h][i].op = "Get" /\ requests'[h][i].key = "posting_key"
                           /\ \A j \in 1..i-1 : requests'[h][j].op # "Delete"
                           => store'[h]["posting_key"] \notin destroyed
    BY <1>2 DEF WipeInv, Wiped
  <2>1. /\ \A i \in Places(answers[h]) : IsSeed(answers[h][i]) => answers[h][i].value \notin destroyed
        /\ \A i \in Places(requests[h]) :
             /\ requests[h][i].op = "Get" /\ requests[h][i].key = "posting_key"
             /\ \A j \in 1..i-1 : requests[h][j].op # "Delete"
             => store[h]["posting_key"] \notin destroyed
    BY <1>1 DEF WipeInv, Wiped
  <2>2. CASE h # g
    <3>1. requests'[h] = requests[h] /\ store'[h] = store[h] /\ answers'[h] = answers[h]
      BY <1>1, <1>2, <2>2, StoreAfter DEF HandledRequests, HandledAnswers
    <3>2. QED BY <2>1, <3>1
  <2>3. CASE h = g
    <3>1. ASSUME NEW i \in Places(answers'[g]), IsSeed(answers'[g][i])
          PROVE  answers'[g][i].value \notin destroyed
      <4>1. CASE i \in Places(answers[g]) /\ answers'[g][i] = answers[g][i]
        BY <2>1, <2>3, <3>1, <4>1
      <4>2. CASE o # <<>> /\ answers'[g][i] = o[1]
        <5>1. r.op = "Get" /\ o[1] = [kind |-> "Value", key |-> r.key, value |-> store[g][r.key]]
          BY <3>1, <4>2 DEF HandledAnswers, IsSeed
        <5>2. r.key = "posting_key" /\ o[1].value = store[g]["posting_key"]
          BY <3>1, <4>2, <5>1 DEF IsSeed
        <5>3. 1..1-1 = {}
          OBVIOUS
        <5>4. store[g]["posting_key"] \notin destroyed
          BY <2>1, <2>3, <5>1, <5>2, <5>3 DEF HandledHead, HandledStore
        <5>5. QED BY <4>2, <5>2, <5>4
      <4>3. QED BY <4>1, <4>2 DEF HandledAnswers
    <3>2. ASSUME NEW i \in Places(requests'[g]), requests'[g][i].op = "Get",
                 requests'[g][i].key = "posting_key", \A j \in 1..i-1 : requests'[g][j].op # "Delete"
          PROVE  store'[g]["posting_key"] \notin destroyed
      <4>1. /\ i \in Nat /\ i >= 1 /\ i + 1 \in Places(requests[g]) /\ requests'[g][i] = requests[g][i+1]
        BY <3>2 DEF HandledRequests
      <4>2. Sendable(g, r, loads, attested, minted) /\ g # Current /\ r.op # "Store"
        BY <1>2, <2>3 DEF HandledHead, HandledStore, Sendable
      <4>3. CASE r.op = "Delete"
        <5>1. store'[g]["posting_key"] = None
          BY <1>1, <1>2, <4>2, <4>3, StoreAfter DEF Sendable
        <5>2. QED BY <1>1, <5>1, Keys DEF RestOK
      <4>4. CASE r.op # "Delete"
        <5>1. store'[g]["posting_key"] = store[g]["posting_key"]
          BY <1>1, <1>2, <4>2, <4>4, StoreAfter
        <5>2. ASSUME NEW j \in 1..(i+1)-1 PROVE requests[g][j].op # "Delete"
          <6>1. CASE j = 1
            BY <4>4, <6>1 DEF HandledHead, HandledStore
          <6>2. CASE j # 1
            <7>1. j - 1 \in 1..i-1 /\ (j - 1) + 1 = j
              BY <4>1, <6>2
            <7>2. requests'[g] \in Seq(Request)
              BY DEF HandledRequests
            <7>3. Len(requests'[g]) \in Nat /\ i <= Len(requests'[g])
              BY <3>2, <7>2, PlacesOf
            <7>4. j - 1 \in Places(requests'[g])
              BY <4>1, <7>1, <7>3 DEF Places
            <7>5. requests'[g][j - 1] = requests[g][j]
              BY <7>1, <7>4 DEF HandledRequests
            <7>6. QED BY <3>2, <7>1, <7>5
          <6>3. QED BY <6>1, <6>2
        <5>3. QED BY <2>1, <2>3, <3>2, <4>1, <5>1, <5>2
      <4>5. QED BY <4>3, <4>4
    <3>3. QED BY <2>3, <3>1, <3>2
  <2>4. QED BY <2>2, <2>3
<1>6. QED BY <1>3, <1>4, <1>5

\* What an old generation would tell of a name it holds, it tells still.
LEMMA HandleTells ==
  ASSUME AccountInv, NEW g \in Generation, NEW r, HandledHead(g, r), StoreMoves(g, r), HandledRequests(g, r),
         NEW o, HandledAnswers(g, r, o), Open, attested[loads],
         NEW h \in Generation, NEW k \in Key, Tells(h, k), store[h][k] # None
  PROVE  Tells(h, k)'
<1>1. loads' = loads /\ requests \in [Generation -> Seq(Request)]
  BY DEF HandledHead, AccountInv, TypeInv, RequestsOK
<1>2. CASE \E i \in Places(answers[h]) : Says(answers[h][i], k)
  <2>1. \E i \in Places(answers'[h]) : Says(answers'[h][i], k)
    BY <1>2 DEF HandledAnswers
  <2>2. QED BY <2>1 DEF Tells
<1>3. CASE Asks(loads, requests[h], k) /\ h # g
  <2>1. requests'[h] = requests[h]
    BY <1>3 DEF HandledRequests
  <2>2. QED BY <1>1, <1>3, <2>1 DEF Tells
<1>4. CASE Asks(loads, requests[h], k) /\ h = g
  <2>1. requests[g] \in Seq(Request) /\ requests[g] # <<>> /\ Asks(loads, requests[g], k)
    BY <1>1, <1>4 DEF HandledHead
  <2>2. \/ Asks(loads, Tail(requests[g]), k)
        \/ Head(requests[g]).load = loads
           /\ (Head(requests[g]).op = "List" \/ (Head(requests[g]).op = "Get" /\ Head(requests[g]).key = k))
    BY <2>1, AsksTail
  <2>3. CASE Asks(loads, Tail(requests[g]), k)
    <3>1. requests'[h] = Tail(requests[g])
      BY <1>4 DEF HandledRequests
    <3>2. QED BY <1>1, <2>3, <3>1 DEF Tells
  <2>4. CASE r.load = loads /\ (r.op = "List" \/ (r.op = "Get" /\ r.key = k))
    <3>1. o # <<>> /\ o[1].kind # "Empty"
      BY <2>4 DEF HandledAnswers
    <3>2. \/ r.op = "Get" /\ o[1] = [kind |-> "Value", key |-> r.key, value |-> store[g][r.key]]
          \/ r.op = "List" /\ o[1] = [kind |-> "KeyList", keys |-> keys_of(store[g])]
      BY <3>1 DEF HandledAnswers
    <3>3. Says(o[1], k)
      BY <1>4, <2>4, <3>2 DEF Says, keys_of
    <3>4. \E i \in Places(answers'[h]) : answers'[h][i] = o[1]
      BY <1>4, <3>1 DEF HandledAnswers
    <3>5. QED BY <3>3, <3>4 DEF Tells
  <2>5. QED BY <2>2, <2>3, <2>4 DEF HandledHead
<1>5. QED BY <1>2, <1>3, <1>4 DEF Tells

\* A handled request trades a place in the queue for at most one answer, so
\* that no more answers are owed than before.
LEMMA HandleCount ==
  ASSUME AccountInv, NEW g \in Generation, NEW r, HandledHead(g, r), StoreMoves(g, r), HandledRequests(g, r),
         NEW o, HandledAnswers(g, r, o)
  PROVE  CountInv'
<1>1. /\ requests \in [Generation -> Seq(Request)] /\ requests' \in [Generation -> Seq(Request)]
      /\ answers \in [Generation -> Seq(Answer)] /\ answers' \in [Generation -> Seq(Answer)]
      /\ page \in Page /\ CountInv
  BY DEF AccountInv, TypeInv, RequestsOK, AnswersOK, RestOK, ProbeInv, HandledRequests, HandledAnswers
<1> DEFINE A == Cardinality(Asked(loads, requests))
           B == Cardinality(Said(answers))
           A2 == Cardinality(Asked(loads, requests'))
           B2 == Cardinality(Said(answers'))
<1>2. /\ A2 \in Nat /\ A \in Nat /\ A2 <= A
      /\ g \in Legacy /\ r.op \in {"List", "Get"} /\ r.load = loads => A2 <= A - 1
  <2>1. /\ requests[g] # <<>> /\ r = Head(requests[g]) /\ requests'[g] = Tail(requests[g])
        /\ \A h \in Generation \ {g} : requests'[h] = requests[h]
    BY DEF HandledHead, HandledRequests
  <2>2. QED BY <1>1, <2>1, AskedTail
<1>3. /\ B2 \in Nat /\ B \in Nat /\ B2 <= B + 1
      /\ g \notin Legacy \/ (\A i \in Places(o) : o[i].kind = "Empty") => B2 <= B
  <2>1. /\ o \in Seq(Answer) /\ Len(o) <= 1 /\ answers'[g] = answers[g] \o o
        /\ \A h \in Generation \ {g} : answers'[h] = answers[h]
    BY DEF HandledAnswers
  <2>2. QED BY <1>1, <2>1, SaidMore
<1>4. B2 <= B \/ (g \in Legacy /\ r.op \in {"List", "Get"} /\ r.load = loads)
  <2>1. CASE o = <<>>
    <3>1. Places(o) = {}
      BY <2>1 DEF Places
    <3>2. QED BY <1>3, <3>1
  <2>2. CASE o # <<>> /\ o[1].kind = "Empty"
    <3>1. \A i \in Places(o) : o[i].kind = "Empty"
      BY <2>2 DEF HandledAnswers
    <3>2. QED BY <1>3, <3>1
  <2>3. CASE o # <<>> /\ o[1].kind # "Empty"
    BY <1>3, <2>3 DEF HandledAnswers
  <2>4. QED BY <2>1, <2>2, <2>3
<1> HIDE DEF A, B, A2, B2
<1>5. A2 + B2 <= A + B
  BY <1>2, <1>3, <1>4
<1>6. page.OUTSTANDING \in Int
  BY <1>1 DEF Page
<1>7. QED
  <2>1. page' = page /\ loads' = loads /\ Open' = Open
    BY DEF HandledHead, Open
  <2>2. Open /\ ~page.FAILED => page.OUTSTANDING >= A + B /\ (page.OUTSTANDING > 0 => page.PENDING)
    BY <1>1 DEF CountInv, A, B
  <2>3. Open /\ ~page.FAILED => page.OUTSTANDING >= A2 + B2
    BY <1>2, <1>3, <1>5, <1>6, <2>2
  <2>4. QED BY <2>1, <2>2, <2>3 DEF CountInv, A2, B2

\* A handled request keeps what the probe relies on: what was asked for is
\* answered with what is held.
LEMMA HandleProbe ==
  ASSUME AccountInv, NEW g \in Generation, NEW r, HandledHead(g, r), StoreMoves(g, r), HandledRequests(g, r),
         NEW o, HandledAnswers(g, r, o)
  PROVE  CountInv' /\ HeldInv' /\ LiveInv' /\ DeleteInv'
<1>1. /\ StoreOK /\ RequestsOK /\ AnswersOK /\ RestOK
      /\ ScreenInv /\ UnheardInv /\ HeardInv
      /\ HeldInv /\ LiveInv /\ DeleteInv
  BY DEF AccountInv, TypeInv, PageInv, ProbeInv
<1>2. /\ Open' = Open /\ Unheard' = Unheard /\ page' = page /\ loads' = loads /\ attested' = attested
      /\ nukes' = nukes /\ destroyed' = destroyed
      /\ Current \in Generation /\ Legacy \subseteq Generation /\ Current \notin Legacy
      /\ "posting_key" \in Key
      /\ Sendable(g, r, loads, attested, minted)
  BY Keys DEF Open, Unheard, HandledHead
<1>3. /\ \A h \in Generation \ {g} : store'[h] = store[h]
      /\ \A k \in Key : \/ store'[g][k] = store[g][k]
                        \/ r.op = "Store" /\ r.key = k /\ store'[g][k] = r.value
                        \/ r.op = "Delete" /\ r.key = k /\ store'[g][k] = None
  BY <1>1 DEF StoreMoves
<1>4. \A h \in Generation : \A i \in Places(requests'[h]) : \E j \in Places(requests[h]) :
        requests'[h][i] = requests[h][j]
  BY DEF HandledRequests
<1>5. CountInv'
  BY HandleCount
<1>6. HeldInv'
  <2> SUFFICES ASSUME ~Unheard
               PROVE  /\ store'[Current]["posting_key"] \in destroyed \cup {None, page.ACCOUNT}
                      /\ \A i \in Places(requests'[Current]) :
                           requests'[Current][i].op = "Store" /\ requests'[Current][i].key = "posting_key" =>
                             requests'[Current][i].value \in destroyed \cup {page.ACCOUNT}
    BY <1>2 DEF HeldInv
  <2>1. /\ store[Current]["posting_key"] \in destroyed \cup {None, page.ACCOUNT}
        /\ \A i \in Places(requests[Current]) :
             requests[Current][i].op = "Store" /\ requests[Current][i].key = "posting_key" =>
               requests[Current][i].value \in destroyed \cup {page.ACCOUNT}
    BY <1>1 DEF HeldInv
  <2>2. Current = g /\ r.op = "Store" /\ r.key = "posting_key" => r.value \in destroyed \cup {page.ACCOUNT}
    BY <2>1 DEF HandledHead
  <2>3. store'[Current]["posting_key"] \in destroyed \cup {None, page.ACCOUNT}
    BY <1>2, <1>3, <2>1, <2>2
  <2>4. \A i \in Places(requests'[Current]) :
           requests'[Current][i].op = "Store" /\ requests'[Current][i].key = "posting_key" =>
             requests'[Current][i].value \in destroyed \cup {page.ACCOUNT}
    BY <1>2, <1>4, <2>1
  <2>5. QED BY <2>3, <2>4
<1>7. LiveInv'
  <2> SUFFICES ASSUME Open, ~page.FAILED, page.POSTING_KEY_LOADED = None, NEW h \in Legacy
               PROVE  store'[h]["posting_key"] \in destroyed \cup {None} \/ Tells(h, "posting_key")'
    BY <1>2 DEF LiveInv
  <2>1. attested[loads]
    BY <1>1, Keys DEF HeardInv, Unheard
  <2>2. store[h]["posting_key"] \in destroyed \cup {None} \/ Tells(h, "posting_key")
    BY <1>1 DEF LiveInv
  <2>3. store'[h]["posting_key"] \in {None, store[h]["posting_key"]}
    BY <1>2, <1>3 DEF Sendable
  <2>4. CASE store[h]["posting_key"] \in destroyed \cup {None}
    BY <2>3, <2>4
  <2>5. CASE Tells(h, "posting_key") /\ store[h]["posting_key"] # None
    <3>1. Tells(h, "posting_key")'
      BY <1>2, <2>1, <2>5, HandleTells
    <3>2. QED BY <3>1
  <2>6. QED BY <2>2, <2>4, <2>5
<1>8. DeleteInv'
  BY <1>1, <1>2, <1>4 DEF DeleteInv
<1>9. QED BY <1>5, <1>6, <1>7, <1>8

\* What a generation is to hold and what it tells, it holds or tells still.
LEMMA HandleCarry ==
  ASSUME AccountInv, NEW g \in Generation, NEW r, HandledHead(g, r), HandledStore(g, r),
         HandledRequests(g, r), NEW o, HandledAnswers(g, r, o)
  PROVE  CarryInv'
<1>1. /\ StoreOK /\ RestOK /\ HeardInv /\ UnheardInv /\ CarryInv /\ StoreMoves(g, r)
  BY StoreAfter DEF AccountInv, TypeInv, PageInv, ProbeInv
<1>2. /\ Open' = Open /\ page' = page /\ lost' = lost /\ refused' = refused /\ nukes' = nukes
      /\ Current \in Generation /\ Legacy \subseteq Generation /\ Current \notin Legacy
      /\ Sendable(g, r, loads, attested, minted)
  BY Keys DEF Open, HandledHead, HandledStore
<1> SUFFICES ASSUME Open, ~page.FAILED, page.PROBE_DONE, nukes = 0, ~lost, "Store" \notin refused,
                    NEW h \in Legacy, NEW k \in Key, store'[h][k] # None
             PROVE  WillHold(Current, k)' # None \/ Tells(h, k)'
  BY <1>2 DEF CarryInv
<1>3. attested[loads]
  BY <1>1 DEF HeardInv, UnheardInv
<1>4. store[h][k] # None
  BY <1>1, <1>2 DEF Sendable, StoreMoves
<1>5. WillHold(Current, k) # None \/ Tells(h, k)
  BY <1>1, <1>4 DEF CarryInv
<1>6. WillHold(Current, k)' = WillHold(Current, k)
  BY <1>2, HandleWillHold
<1>7. CASE Tells(h, k)
  <2>1. Tells(h, k)'
    BY <1>1, <1>2, <1>3, <1>4, <1>7, HandleTells
  <2>2. QED BY <2>1
<1>8. QED BY <1>5, <1>6, <1>7

\* The node handles a request.
LEMMA HandleKeeps ==
  ASSUME AccountInv, NEW g \in Generation, Handle(g)
  PROVE  AccountInv'
<1> DEFINE r == Head(requests[g])
<1>1. HandledHead(g, r) /\ HandledStore(g, r) /\ HandledRequests(g, r)
  BY HandleStore
<1>2. PICK o : HandledAnswers(g, r, o)
  BY HandleAnswers
<1> HIDE DEF r
<1>3. StoreMoves(g, r)
  BY <1>1, StoreAfter DEF AccountInv, TypeInv
<1>4. TypeInv' /\ PageInv'
  BY <1>1, <1>2, <1>3, HandleTypes, HandlePage
<1>5. AccountIsStored' /\ NukeIsFinal' /\ WipeInv'
  BY <1>1, <1>2, HandleSafe
<1>6. ProbeInv'
  BY <1>1, <1>2, <1>3, HandleProbe, HandleCarry DEF ProbeInv
<1>7. QED BY <1>4, <1>5, <1>6 DEF AccountInv

-----------------------------------------------------------------------------
(* A write is refused *)

\* A generation will hold what it holds if the last write of a key is refused,
\* and what it was to hold otherwise.
LEMMA RefuseWillHold ==
  ASSUME AccountInv, NEW g \in Generation, NEW r, HandledHead(g, r), RefusedStore(g, r),
         HandledRequests(g, r), NEW h \in Generation, NEW k \in Key
  PROVE  \/ WillHold(h, k)' = WillHold(h, k)
         \/ /\ h = g /\ r.key = k /\ Writes(requests'[g], k) = {}
            /\ WillHold(h, k)' = store[g][k] /\ WillHold(h, k) = handle_store(store[g], r)[k]
<1>1. StoreOK /\ RequestsOK
  BY DEF AccountInv, TypeInv
<1>2. CASE h # g
  <2>1. store'[h] = store[h] /\ requests'[h] = requests[h]
    BY <1>2 DEF RefusedStore, HandledRequests
  <2>2. QED BY <2>1 DEF WillHold
<1>3. CASE h = g
  <2> DEFINE t == Tail(requests[g])
             kv == store[g]
             kw == handle_store(store[g], r)
  <2>1. /\ kv \in [Key -> Value \cup {None}] /\ requests[g] \in Seq(Request) /\ requests[g] # <<>>
        /\ r = Head(requests[g]) /\ r \in Request /\ t \in Seq(Request)
    <3>1. kv \in [Key -> Value \cup {None}] /\ requests[g] \in Seq(Request) /\ requests[g] # <<>>
      BY <1>1 DEF StoreOK, RequestsOK, HandledHead
    <3>2. QED BY <3>1, TailPlaces DEF HandledHead
  <2>2. WillHold(g, k) = After(kw, t, k)
    <3>1. After(handle_store(kv, Head(requests[g])), t, k) = After(kv, requests[g], k)
      <4> HIDE DEF kv
      <4> QED BY <2>1, AfterTail
    <3>2. QED BY <2>1, <3>1 DEF WillHold
  <2>3. WillHold(g, k)' = After(kv, t, k) /\ requests'[g] = t
    BY DEF WillHold, RefusedStore, HandledRequests
  <2>4. k \in DOMAIN kv /\ DOMAIN kw = DOMAIN kv
    BY <2>1, HandleWrite
  <2> HIDE DEF t, kv, kw
  <2>5. CASE Writes(t, k) # {}
    <3>1. PICK i \in Writes(t, k) : \A j \in Writes(t, k) : j <= i
      BY <2>1, <2>5, LastWrite
    <3>2. After(kv, t, k) = handle_store(kv, t[i])[k] /\ After(kw, t, k) = handle_store(kw, t[i])[k]
      BY <2>1, <3>1, AfterLast
    <3>3. t[i] \in Request /\ t[i].op \in {"Store", "Delete"} /\ t[i].key = k
      BY <2>1, <3>1, PlacesOf DEF Writes, Places
    <3>4. handle_store(kv, t[i])[k] = handle_store(kw, t[i])[k]
      BY <2>4, <3>3, HandleWrite
    <3>5. QED BY <1>3, <2>2, <2>3, <3>2, <3>4
  <2>6. CASE Writes(t, k) = {}
    <3>1. After(kv, t, k) = kv[k] /\ After(kw, t, k) = kw[k]
      BY <2>6, AfterNone
    <3>2. r.key # k => kw[k] = kv[k]
      BY <2>1, <2>4, HandleWrite DEF kw, kv
    <3>3. QED BY <1>3, <2>2, <2>3, <2>6, <3>1, <3>2 DEF kv, kw
  <2>7. QED BY <2>5, <2>6
<1>4. QED BY <1>2, <1>3

\* A seed that a refused Store leaves in the current generation is no
\* destroyed one: the wipe that is behind it is a write as well.
LEMMA RefuseNuke ==
  ASSUME AccountInv, DoomedInv, NEW g \in Generation, NEW r, HandledHead(g, r), RefusedStore(g, r),
         HandledRequests(g, r), Wiped'
  PROVE  NukeIsFinal' /\ r.op = "Store" /\ g = Current
<1>1. RequestsOK /\ NukeIsFinal /\ "posting_key" \in Key
  BY Keys DEF AccountInv, TypeInv
<1>2. Wiped /\ r.op = "Store" /\ destroyed' = destroyed /\ page' = page
  BY DEF Wiped, RefusedStore, HandledHead
<1>3. g = Current
  BY <1>2 DEF HandledHead, Sendable
<1>4. page.ACCOUNT \notin destroyed /\ \A h \in Generation : WillHold(h, "posting_key") \notin destroyed
  BY <1>1, <1>2 DEF NukeIsFinal, Wiped
<1>5. ASSUME Writes(requests'[g], "posting_key") = {} PROVE store[g]["posting_key"] \notin destroyed
  <2> SUFFICES ASSUME store[g]["posting_key"] \in destroyed PROVE FALSE
    OBVIOUS
  <2>1. PICK j \in Places(requests[g]) : requests[g][j].op = "Delete"
    BY <1>2, <1>3 DEF DoomedInv
  <2>2. /\ requests[g] \in Seq(Request) /\ requests'[g] \in Seq(Request)
        /\ Len(requests[g]) \in Nat /\ Len(requests'[g]) = Len(requests[g]) - 1
    BY <1>1 DEF RequestsOK, HandledRequests
  <2>3. j # 1
    BY <1>2, <2>1 DEF HandledHead
  <2>4. j - 1 \in Places(requests'[g]) /\ (j - 1) + 1 = j
    BY <2>2, <2>3 DEF Places
  <2>5. requests'[g][j - 1] = requests[g][j]
    BY <2>4 DEF HandledRequests
  <2>6. requests[g][j].key = "posting_key"
    BY <1>1, <2>1 DEF RequestsOK, Sendable
  <2>7. j - 1 \in Writes(requests'[g], "posting_key")
    BY <2>1, <2>4, <2>5, <2>6 DEF Writes, Places
  <2>8. QED BY <1>5, <2>7
<1>6. ASSUME NEW h \in Generation PROVE WillHold(h, "posting_key")' \notin destroyed
  <2>1. \/ WillHold(h, "posting_key")' = WillHold(h, "posting_key")
        \/ Writes(requests'[g], "posting_key") = {} /\ WillHold(h, "posting_key")' = store[g]["posting_key"]
    BY <1>1, RefuseWillHold
  <2>2. QED BY <1>4, <1>5, <2>1
<1>7. QED BY <1>2, <1>3, <1>4, <1>6 DEF NukeIsFinal

\* The storage of a delegate fails on a write.
LEMMA RefuseKeeps ==
  ASSUME AccountInv, DoomedInv, NEW g \in Generation, Refuse(g)
  PROVE  /\ AccountInv'
         /\ LET r == Head(requests[g])
            IN  HandledHead(g, r) /\ RefusedStore(g, r) /\ HandledRequests(g, r) /\ StoreMoves(g, r)
<1> DEFINE r == Head(requests[g])
<1>1. StoreOK /\ AnswersOK /\ RestOK /\ AccountIsStored /\ WipeInv /\ DeleteInv
  BY DEF AccountInv, TypeInv, ProbeInv
<1>2. /\ r.op \in {"Store", "Delete"} /\ requests[g] # <<>>
      /\ requests' = [requests EXCEPT ![g] = Tail(@)] /\ refused' = refused \cup {r.op}
      /\ UNCHANGED <<store, registered, attested, answers, page, loads, minted, destroyed, lost, nukes, haunted>>
  BY DEF Refuse
<1>3. HandledHead(g, r) /\ HandledRequests(g, r)
  <2>1. refused' \subseteq {"Store", "Delete"}
    BY <1>1, <1>2 DEF RestOK
  <2>2. r.op # "Register"
    BY <1>2
  <2>3. QED BY <1>2, <2>1, <2>2, HandleQueue
<1>4. RefusedStore(g, r)
  BY <1>2 DEF RefusedStore
<1> HIDE DEF r
<1>5. StoreMoves(g, r)
  <2>1. StoreOK'
    BY <1>1, <1>2 DEF StoreOK
  <2>2. QED BY <1>2, <2>1 DEF StoreMoves
<1>6. HandledAnswers(g, r, <<>>)
  <2>1. answers \in [Generation -> Seq(Answer)] /\ answers[g] \in Seq(Answer) /\ answers[g] \o <<>> = answers[g]
    BY <1>1, ConcatEmptySeq DEF AnswersOK
  <2>2. <<>> \in Seq(Answer) /\ Len(<<>>) = 0 /\ Places(<<>>) = {}
    BY DEF Places
  <2>3. r.op \notin {"Get", "List"}
    BY <1>2
  <2>4. QED BY <1>2, <2>1, <2>2, <2>3 DEF HandledAnswers
<1>7. TypeInv' /\ PageInv' /\ CountInv' /\ HeldInv' /\ LiveInv' /\ DeleteInv'
  BY <1>3, <1>5, <1>6, HandleTypes, HandlePage, HandleProbe
<1>8. Sendable(g, r, loads, attested, minted) /\ Current \in Generation /\ Current \notin Legacy
      /\ Legacy \subseteq Generation /\ "posting_key" \in Key /\ None \notin Seed
  BY <1>3, Keys DEF HandledHead
<1>9. AccountIsStored'
  <2> SUFFICES ASSUME page.ACCOUNT # None, ~lost, "Store" \notin refused'
               PROVE  WillHold(Current, "posting_key")' = page.ACCOUNT
    BY <1>2 DEF AccountIsStored
  <2>1. r.op = "Delete" /\ "Store" \notin refused
    BY <1>2
  <2>2. WillHold(Current, "posting_key") = page.ACCOUNT
    BY <1>1, <2>1 DEF AccountIsStored
  <2>3. \/ WillHold(Current, "posting_key")' = WillHold(Current, "posting_key")
        \/ /\ Current = g /\ r.key = "posting_key"
           /\ WillHold(Current, "posting_key") = handle_store(store[g], r)["posting_key"]
    BY <1>3, <1>4, <1>8, RefuseWillHold
  <2>4. handle_store(store[g], r)["posting_key"] = None \/ r.key # "posting_key"
    BY <1>1, <1>8, <2>1, HandleWrite DEF Sendable, StoreOK
  <2>5. QED BY <2>2, <2>3, <2>4
<1>10. NukeIsFinal' /\ (Wiped' => r.op = "Store" /\ g = Current)
  <2>1. ~Wiped' => NukeIsFinal'
    BY DEF NukeIsFinal, Wiped
  <2>2. QED BY <1>3, <1>4, <2>1, RefuseNuke
<1>11. WipeInv'
  <2> SUFFICES ASSUME Wiped' PROVE WipeInv'
    BY DEF WipeInv
  <2>1. Wiped /\ \A h \in Legacy : requests'[h] = requests[h]
    BY <1>3, <1>8, <1>10, <1>4 DEF Wiped, RefusedStore, HandledHead, HandledRequests
  <2>2. QED BY <1>1, <1>2, <2>1 DEF WipeInv
<1>12. CarryInv'
  <2> SUFFICES ASSUME nukes = 0, "Store" \notin refused' PROVE FALSE
    BY <1>2 DEF CarryInv
  <2>1. r.op = "Delete"
    BY <1>2
  <2>2. 1 \in Places(requests[g]) /\ r = requests[g][1]
    BY <1>3 DEF HandledHead
  <2>3. QED BY <1>1, <2>1, <2>2 DEF DeleteInv
<1>13. AccountInv'
  BY <1>7, <1>9, <1>10, <1>11, <1>12 DEF AccountInv, ProbeInv
<1>14. QED BY <1>3, <1>4, <1>5, <1>13 DEF r

-----------------------------------------------------------------------------
(* Requests are sent *)

\* What a generation will hold changes with what is written to it.
LEMMA SentHold ==
  ASSUME requests \in [Generation -> Seq(Request)], NEW sent, Sent(sent), store' = store,
         NEW h \in Generation, NEW k
  PROVE  /\ Writes(sent[h], k) = {} => WillHold(h, k)' = WillHold(h, k)
         /\ \A i \in Writes(sent[h], k) : (\A j \in Writes(sent[h], k) : j <= i)
              => WillHold(h, k)' = handle_store(store[h], sent[h][i])[k]
<1>1. requests[h] \in Seq(Request) /\ sent[h] \in Seq(Request) /\ requests'[h] = requests[h] \o sent[h]
  BY DEF Sent
<1>2. /\ Writes(sent[h], k) = {} => After(store[h], requests[h] \o sent[h], k) = After(store[h], requests[h], k)
      /\ \A i \in Writes(sent[h], k) : (\A j \in Writes(sent[h], k) : j <= i)
           => After(store[h], requests[h] \o sent[h], k) = handle_store(store[h], sent[h][i])[k]
  BY <1>1, AfterCat
<1>3. WillHold(h, k)' = After(store[h], requests[h] \o sent[h], k)
  BY <1>1 DEF WillHold
<1>4. QED BY <1>2, <1>3 DEF WillHold

\* What was asked is asked, and what is sent is asked too.
LEMMA SentAsks ==
  ASSUME requests \in [Generation -> Seq(Request)], NEW sent, Sent(sent), loads' = loads,
         NEW h \in Generation, NEW k, Asks(loads, requests[h], k) \/ Asks(loads, sent[h], k)
  PROVE  Asks(loads', requests'[h], k)
<1>1. requests[h] \in Seq(Request) /\ sent[h] \in Seq(Request) /\ requests'[h] = requests[h] \o sent[h]
  BY DEF Sent
<1>2. Asks(loads, requests[h] \o sent[h], k)
  BY <1>1, AsksCat
<1>3. QED BY <1>1, <1>2

\* Nothing sent to a generation: its queue stays.
LEMMA SentNone ==
  ASSUME requests \in [Generation -> Seq(Request)], NEW sent, Sent(sent),
         NEW h \in Generation, sent[h] = <<>>
  PROVE  requests'[h] = requests[h]
<1>1. requests[h] \in Seq(Request) /\ requests'[h] = requests[h] \o <<>>
  BY DEF Sent
<1>2. QED BY <1>1, ConcatEmptySeq

\* What an old generation holds once nothing deletes it is what it has.
LEMMA Undeleted ==
  ASSUME RequestsOK, NEW g \in Legacy, \A i \in Places(requests[g]) : requests[g][i].op # "Delete"
  PROVE  \A k : WillHold(g, k) = store[g][k]
<1> TAKE k
<1>1. g \in Generation /\ g # Current
  BY Keys
<1>2. Writes(requests[g], k) = {}
  BY <1>1 DEF RequestsOK, Sendable, Writes, Places
<1>3. QED BY <1>2, AfterNone DEF WillHold

\* A new question for the seed of an old generation comes after every wipe.
LEMMA SentWipe ==
  ASSUME RequestsOK, NukeIsFinal, WipeInv, NEW sent, Sent(sent),
         UNCHANGED <<store, destroyed, lost, refused, haunted>>, Wiped, NEW g \in Legacy,
         NEW i \in Places(requests'[g]), requests'[g][i].op = "Get", requests'[g][i].key = "posting_key",
         \A j \in 1..i-1 : requests'[g][j].op # "Delete"
  PROVE  store'[g]["posting_key"] \notin destroyed'
<1>1. g \in Generation
  BY Keys
<1>2. CASE i \in Places(requests[g]) /\ requests'[g][i] = requests[g][i]
  <2>1. ASSUME NEW j \in 1..i-1 PROVE requests[g][j].op # "Delete"
    <3>1. i \in Nat /\ i <= Len(requests[g]) /\ Len(requests[g]) \in Nat
      BY <1>1, <1>2 DEF Sent
    <3>2. j \in Places(requests[g])
      BY <3>1 DEF Places
    <3>3. QED BY <1>1, <3>2 DEF Sent
  <2>2. QED BY <1>2, <2>1 DEF WipeInv, Wiped
<1>3. CASE i > Len(requests[g]) /\ i - Len(requests[g]) \in Places(sent[g])
  <2>1. ASSUME NEW j \in Places(requests[g]) PROVE requests[g][j].op # "Delete"
    <3>1. /\ j \in Nat /\ j >= 1 /\ j <= Len(requests[g]) /\ Len(requests[g]) \in Nat
          /\ requests'[g][j] = requests[g][j] /\ i \in Nat
      BY <1>1 DEF Sent
    <3>2. j \in 1..i-1
      BY <1>3, <3>1
    <3>3. QED BY <3>1, <3>2
  <2>2. WillHold(g, "posting_key") = store[g]["posting_key"]
    BY <2>1, Undeleted
  <2>3. QED BY <1>1, <2>2 DEF NukeIsFinal, Wiped
<1>4. QED BY <1>1, <1>2, <1>3 DEF Sent

-----------------------------------------------------------------------------
(* An old generation is heard *)

\* What stays true of the page whatever an old generation answers.
LegacyPage ==
  /\ page' \in Page
  /\ page'.socket = page.socket /\ page'.status = page.status
  /\ page'.PROBE_DONE = page.PROBE_DONE /\ page'.FAILED = page.FAILED
  /\ page'.POSTING_KEY_LOADED # Unanswered

\* An answer that counts is heard: one less is owed, and m more are asked for.
LEMMA LegacyCount ==
  ASSUME AccountInv, LegacyPage, NEW g \in Legacy, answers[g] # <<>>, Head(answers[g]).kind # "Empty",
         answers' = [answers EXCEPT ![g] = Tail(@)], loads' = loads, AnswersOK',
         NEW m \in Nat, Cardinality(Asked(loads, requests')) \in Nat,
         Cardinality(Asked(loads, requests')) <= Cardinality(Asked(loads, requests)) + m,
         page'.OUTSTANDING = page.OUTSTANDING + (m - 1),
         page'.PENDING <=> (page.PENDING /\ page.OUTSTANDING + (m - 1) > 0)
  PROVE  CountInv'
<1> DEFINE A == Cardinality(Asked(loads, requests))
           B == Cardinality(Said(answers))
           A2 == Cardinality(Asked(loads, requests'))
           B2 == Cardinality(Said(answers'))
<1>1. /\ requests \in [Generation -> Seq(Request)] /\ answers \in [Generation -> Seq(Answer)]
      /\ answers' \in [Generation -> Seq(Answer)] /\ g \in Generation
      /\ CountInv /\ page.OUTSTANDING \in Int
  BY Keys DEF AccountInv, TypeInv, ProbeInv, RequestsOK, AnswersOK, RestOK, Page
<1>2. A \in Nat
  BY <1>1, OwedFinite
<1>3. B2 \in Nat /\ B \in Nat /\ B2 <= B - 1
  <2>1. answers'[g] = Tail(answers[g]) /\ \A h \in Generation \ {g} : answers'[h] = answers[h]
    BY <1>1
  <2>2. /\ Cardinality(Said(answers')) \in Nat /\ Cardinality(Said(answers)) \in Nat
        /\ Cardinality(Said(answers')) <= Cardinality(Said(answers))
        /\ g \in Legacy /\ Head(answers[g]).kind # "Empty"
              => Cardinality(Said(answers')) <= Cardinality(Said(answers)) - 1
    BY <1>1, <2>1, SaidTail
  <2>3. QED BY <2>2
<1>4. A2 \in Nat /\ A2 <= A + m
  OBVIOUS
<1> SUFFICES ASSUME Open', ~page'.FAILED
             PROVE  page'.OUTSTANDING >= A2 + B2 /\ (page'.OUTSTANDING > 0 => page'.PENDING)
  BY DEF CountInv
<1>5. page.OUTSTANDING >= A + B /\ (page.OUTSTANDING > 0 => page.PENDING)
  BY <1>1 DEF CountInv, LegacyPage, Open
<1> HIDE DEF A, B, A2, B2
<1>6. page.OUTSTANDING > 0
  BY <1>1, <1>2, <1>3, <1>5
<1>7. page'.OUTSTANDING >= A2 + B2
  BY <1>1, <1>2, <1>3, <1>4, <1>5
<1>8. QED BY <1>5, <1>6, <1>7

\* The parts that hold whatever the answer is.
LEMMA LegacyKeeps ==
  ASSUME AccountInv, LegacyPage, NEW g \in Legacy, answers[g] # <<>>,
         answers' = [answers EXCEPT ![g] = Tail(@)],
         UNCHANGED <<store, registered, attested, loads, minted, destroyed, lost, refused, nukes, haunted>>,
         NEW sent, Sent(sent), SentOK(sent), requests' \in [Generation -> Seq(Request)],
         \A h \in Generation : \A i \in Places(sent[h]) : sent[h][i].op \notin {"Delete", "Register"},
         \A i \in Places(sent[Current]) : sent[Current][i].op = "Store"
  PROVE  /\ TypeInv' /\ UnheardInv' /\ HeardInv' /\ AnswerInv' /\ WipeInv' /\ DeleteInv'
         /\ ~Unheard /\ Open
<1>1. /\ StoreOK /\ RequestsOK /\ AnswersOK /\ RestOK
      /\ ScreenInv /\ UnheardInv /\ HeardInv /\ AnswerInv
      /\ NukeIsFinal /\ WipeInv /\ DeleteInv
  BY DEF AccountInv, TypeInv, PageInv, ProbeInv
<1>2. /\ g \in Generation /\ g # Current /\ Current \in Generation /\ Legacy \subseteq Generation
      /\ requests \in [Generation -> Seq(Request)] /\ answers \in [Generation -> Seq(Answer)]
  BY <1>1, Keys DEF RequestsOK, AnswersOK
<1>3. AnswersOK' /\ Moved(g)
  BY <1>1, <1>2, Heard
<1>4. ~Unheard /\ Open /\ ~Unheard' /\ Open' /\ answers'[Current] = answers[Current]
  <2>1. ~Unheard /\ Open
    BY <1>1, <1>2 DEF UnheardInv, ScreenInv
  <2>2. QED BY <1>2, <2>1 DEF LegacyPage, Unheard, Open
<1>5. TypeInv'
  <2>1. StoreOK' /\ RestOK'
    BY <1>1 DEF StoreOK, RestOK, LegacyPage
  <2>2. RequestsOK'
    <3>1. loads \in Nat /\ loads' \in Nat /\ loads <= loads'
      BY <1>1, AccountAssumption DEF RestOK
    <3>2. QED BY <1>1, <3>1, SentTypes
  <2>3. QED BY <1>3, <2>1, <2>2 DEF TypeInv
<1>6. UnheardInv'
  BY <1>4 DEF UnheardInv
<1>7. HeardInv'
  <2>1. attested[loads] /\ Current \in registered
        /\ \A i \in Places(requests[Current]) :
             ~(requests[Current][i].op = "Get" /\ requests[Current][i].load = loads)
    BY <1>1, <1>4 DEF HeardInv
  <2>2. \A i \in Places(requests'[Current]) :
          ~(requests'[Current][i].op = "Get" /\ requests'[Current][i].load = loads)
    <3> TAKE i \in Places(requests'[Current])
    <3>1. \/ i \in Places(requests[Current]) /\ requests'[Current][i] = requests[Current][i]
          \/ /\ i - Len(requests[Current]) \in Places(sent[Current])
             /\ requests'[Current][i] = sent[Current][i - Len(requests[Current])]
      BY <1>2 DEF Sent
    <3>2. QED BY <2>1, <3>1
  <2>3. QED BY <2>1, <2>2 DEF HeardInv
<1>8. AnswerInv'
  BY <1>1, <1>4 DEF AnswerInv
<1>9. WipeInv'
  <2> SUFFICES ASSUME Wiped, NEW h \in Legacy
               PROVE  /\ \A i \in Places(answers'[h]) :
                           IsSeed(answers'[h][i]) => answers'[h][i].value \notin destroyed
                      /\ \A i \in Places(requests'[h]) :
                           /\ requests'[h][i].op = "Get" /\ requests'[h][i].key = "posting_key"
                           /\ \A j \in 1..i-1 : requests'[h][j].op # "Delete"
                           => store'[h]["posting_key"] \notin destroyed'
    BY DEF WipeInv, Wiped
  <2>1. \A i \in Places(answers'[h]) : \E j \in Places(answers[h]) : answers'[h][i] = answers[h][j]
    BY <1>2, <1>3 DEF Moved
  <2>2. \A i \in Places(answers'[h]) : IsSeed(answers'[h][i]) => answers'[h][i].value \notin destroyed
    BY <1>1, <2>1 DEF WipeInv, Wiped
  <2>3. ASSUME NEW i \in Places(requests'[h]), requests'[h][i].op = "Get",
               requests'[h][i].key = "posting_key", \A j \in 1..i-1 : requests'[h][j].op # "Delete"
        PROVE  store'[h]["posting_key"] \notin destroyed'
    BY <1>1, <2>3, SentWipe
  <2>4. QED BY <2>2, <2>3
<1>10. DeleteInv'
  BY <1>1 DEF DeleteInv, Sent
<1>11. QED BY <1>4, <1>5, <1>6, <1>7, <1>8, <1>9, <1>10

\* The names of an old generation: it is asked for the value of each.
LEMMA KeyListKeeps ==
  ASSUME AccountInv, NEW g \in Legacy, Dispatch(g), Head(answers[g]).kind = "KeyList"
  PROVE  AccountInv'
<1> DEFINE a == Head(answers[g])
           S == {[op |-> "Get", key |-> k, load |-> loads] : k \in a.keys}
           t == SetToSeq(S)
           sent == [Nothing EXCEPT ![g] = t]
           n == Cardinality(a.keys)
<1>1. /\ StoreOK /\ RequestsOK /\ AnswersOK /\ RestOK
      /\ ScreenInv /\ UnheardInv /\ HeardInv /\ AnswerInv
      /\ AccountIsStored /\ NukeIsFinal
      /\ HeldInv /\ LiveInv /\ CarryInv
  BY DEF AccountInv, TypeInv, PageInv, ProbeInv
<1>2. /\ g \in Generation /\ g # Current /\ Current \in Generation /\ Legacy \subseteq Generation
      /\ requests \in [Generation -> Seq(Request)] /\ answers \in [Generation -> Seq(Answer)]
      /\ page \in Page /\ loads \in 1..MaxLoads /\ "posting_key" \in Key
      /\ answers[g] # <<>> /\ answers' = [answers EXCEPT ![g] = Tail(@)]
      /\ UNCHANGED <<store, registered, attested, loads, minted, destroyed, lost, refused, nukes, haunted>>
  BY <1>1, Keys DEF RequestsOK, AnswersOK, RestOK, Dispatch
<1>3. a \in Answer /\ a.keys \in SUBSET Key /\ g \in registered
  <2>1. Answerable(g, a, registered, minted)
    BY <1>1, <1>2, Heard
  <2>2. a \in Answer /\ g \in registered
    BY <1>2, <2>1 DEF Answerable
  <2> HIDE DEF a
  <2>3. a.kind = "KeyList"
    BY DEF a
  <2>4. QED BY <2>2, <2>3, AnswerShape
<1>4. AnswersOK'
  BY <1>1, <1>2, Heard
<1>5. /\ t \in Seq(Request) /\ Len(t) <= n /\ n \in Nat
      /\ \A i \in Places(t) : t[i].op = "Get" /\ t[i].load = loads /\ t[i].key \in a.keys
      /\ \A k \in a.keys : \E i \in Places(t) : t[i] = [op |-> "Get", key |-> k, load |-> loads]
  BY <1>2, <1>3, GetsListed
<1>6. page' = probe_note(page, n - 1) /\ send(sent)
  <2>1. dispatch(g, a) = [page |-> probe_note(page, n - 1), sent |-> sent]
    BY <1>2 DEF dispatch, dispatch_legacy_kv, legacy_key_list, To, Get
  <2>2. page' = dispatch(g, a).page /\ send(dispatch(g, a).sent)
    BY DEF Dispatch
  <2> HIDE DEF a, n, sent
  <2>3. dispatch(g, a).page = probe_note(page, n - 1) /\ dispatch(g, a).sent = sent
    BY <2>1
  <2>4. QED BY <2>2, <2>3
<1> HIDE DEF a, n, t
<1>7. /\ sent \in [Generation -> Seq(Request)] /\ sent[g] = t
      /\ \A h \in Generation \ {g} : sent[h] = <<>>
  <2>1. <<>> \in Seq(Request)
    BY EmptySeq
  <2>2. QED BY <1>2, <1>5, <2>1 DEF Nothing
<1>8. requests' = [h \in Generation |-> requests[h] \o sent[h]]
  BY <1>6 DEF send
<1> HIDE DEF sent
<1>9. Sent(sent) /\ requests' \in [Generation -> Seq(Request)]
  BY <1>2, <1>7, <1>8, Sends
<1>10. Noted(page, n - 1, page')
  BY <1>2, <1>5, <1>6, NoteFields
<1>11. \A h \in Generation : \A i \in Places(sent[h]) :
          h = g /\ sent[h][i] = t[i] /\ i \in Places(t) /\ sent[h][i].op = "Get"
          /\ sent[h][i].load = loads /\ sent[h][i] \in Request
  <2>1. Places(<<>>) = {}
    BY DEF Places
  <2>2. \A i \in Places(t) : t[i] \in Request
    BY <1>5, PlacesOf
  <2>3. QED BY <1>5, <1>7, <2>1, <2>2
<1>12. SentOK(sent)
  <2>1. loads <= loads
    BY <1>2
  <2>2. QED BY <1>2, <1>3, <1>11, <2>1 DEF SentOK, Sendable
<1>13. /\ page'.ACCOUNT = page.ACCOUNT /\ page'.POSTING_KEY_LOADED = page.POSTING_KEY_LOADED
       /\ Unheard' = Unheard /\ Open' = Open /\ ~Unheard
  BY <1>1, <1>2, <1>10 DEF Noted, Unheard, Open, UnheardInv
<1>14. LegacyPage
  BY <1>10, <1>13 DEF Noted, LegacyPage, Unheard
<1>15. TypeInv' /\ UnheardInv' /\ HeardInv' /\ AnswerInv' /\ WipeInv' /\ DeleteInv' /\ Open
  <2>1. /\ \A h \in Generation : \A i \in Places(sent[h]) : sent[h][i].op \notin {"Delete", "Register"}
        /\ \A i \in Places(sent[Current]) : sent[Current][i].op = "Store"
    BY <1>2, <1>11
  <2>2. QED BY <1>2, <1>9, <1>12, <1>14, <2>1, LegacyKeeps
<1>16. CountInv'
  <2>1. /\ Cardinality(Asked(loads, requests')) \in Nat /\ Cardinality(Asked(loads, requests)) \in Nat
        /\ Cardinality(Asked(loads, requests')) <= Cardinality(Asked(loads, requests)) + Len(sent[g])
    BY <1>2, <1>7, <1>9, AskedMore DEF Sent
  <2>2. Len(sent[g]) \in Nat /\ Len(sent[g]) <= n
    BY <1>5, <1>7, LenProperties
  <2>3. Cardinality(Asked(loads, requests')) <= Cardinality(Asked(loads, requests)) + n
    BY <1>5, <2>1, <2>2
  <2>4. a.kind # "Empty"
    BY DEF a
  <2>5. /\ page'.OUTSTANDING = page.OUTSTANDING + (n - 1)
        /\ page'.PENDING <=> (page.PENDING /\ page.OUTSTANDING + (n - 1) > 0)
    BY <1>10 DEF Noted
  <2>6. QED BY <1>2, <1>4, <1>5, <1>14, <2>1, <2>3, <2>4, <2>5, LegacyCount DEF a
<1>17. requests'[Current] = requests[Current]
  <2>1. sent[Current] = <<>>
    BY <1>2, <1>7
  <2>2. QED BY <1>2, <1>9, <2>1, SentNone
<1>18. ScreenInv'
  <2>1. \A h \in Generation : answers'[h] # <<>> => Open'
    BY <1>13, <1>15
  <2>2. QED BY <1>1, <1>2, <1>10, <1>13, <2>1 DEF ScreenInv, Noted
<1>19. \A h \in Generation, k \in Key : WillHold(h, k)' = WillHold(h, k)
  <2> TAKE h \in Generation, k \in Key
  <2>1. Writes(sent[h], k) = {}
    BY <1>11 DEF Writes, Places
  <2>2. QED BY <1>2, <1>9, <2>1, SentHold
<1>20. AccountIsStored' /\ NukeIsFinal'
  BY <1>1, <1>2, <1>13, <1>19 DEF AccountIsStored, NukeIsFinal, Wiped
<1>21. HeldInv'
  BY <1>1, <1>2, <1>13, <1>17 DEF HeldInv
<1>22. \A h \in Legacy, k \in Key : Tells(h, k) => Tells(h, k)'
  <2> SUFFICES ASSUME NEW h \in Legacy, NEW k \in Key, Tells(h, k) PROVE Tells(h, k)'
    OBVIOUS
  <2>1. Asks(loads, requests[h], k) => Asks(loads', requests'[h], k)
    BY <1>2, <1>9, SentAsks
  <2>2. Tells(h, k)' \/ (h = g /\ Says(a, k))
    BY <1>1, <1>2, <2>1, TellsHeard DEF a
  <2>3. CASE h = g /\ Says(a, k)
    <3>1. k \in a.keys
      <4>1. a.kind = "KeyList"
        BY DEF a
      <4>2. QED BY <2>3, <4>1 DEF Says
    <3>2. Asks(loads, sent[g], k)
      <4>1. PICK i \in Places(t) : t[i] = [op |-> "Get", key |-> k, load |-> loads]
        BY <1>5, <3>1
      <4>2. t[i].load = loads /\ t[i].op = "Get" /\ t[i].key = k
        BY <4>1
      <4>3. Asks(loads, t, k)
        BY <4>2 DEF Asks
      <4>4. QED BY <1>7, <4>3
    <3>3. Asks(loads', requests'[g], k)
      BY <1>2, <1>9, <3>2, SentAsks
    <3>4. QED BY <2>3, <3>3 DEF Tells
  <2>4. QED BY <2>2, <2>3
<1>23. LiveInv'
  BY <1>1, <1>2, <1>10, <1>13, <1>22 DEF LiveInv, Noted
<1>24. CarryInv'
  BY <1>1, <1>2, <1>10, <1>13, <1>19, <1>22 DEF CarryInv, Noted
<1>25. QED
  BY <1>15, <1>16, <1>18, <1>20, <1>21, <1>23, <1>24 DEF AccountInv, PageInv, ProbeInv

\* One value is stored, and nothing else is sent.
OneStore(sent, c) ==
  /\ c \in Request /\ c.op = "Store"
  /\ sent[Current] = <<c>> /\ \A h \in Generation \ {Current} : sent[h] = <<>>

\* Then it is what the current generation will hold.
LEMMA StoreSent ==
  ASSUME StoreOK, requests \in [Generation -> Seq(Request)], store' = store,
         NEW sent, Sent(sent), NEW c, OneStore(sent, c)
  PROVE  /\ \A h \in Generation, k \in Key :
              WillHold(h, k)' = IF h = Current /\ k = c.key THEN c.value ELSE WillHold(h, k)
         /\ \A h \in Generation : \A i \in Places(sent[h]) : h = Current /\ i = 1 /\ sent[h][i] = c
         /\ \A h \in Generation \ {Current} : requests'[h] = requests[h]
<1>1. /\ Places(<<>>) = {} /\ Places(<<c>>) = {1} /\ <<c>>[1] = c
      /\ Current \in Generation /\ store[Current] \in [Key -> Value \cup {None}]
  <2>1. Current \in Generation /\ store[Current] \in [Key -> Value \cup {None}]
    BY Keys DEF StoreOK
  <2>2. Len(<<>>) = 0 /\ Len(<<c>>) = 1 /\ <<c>>[1] = c
    OBVIOUS
  <2>3. 1..0 = {} /\ 1..1 = {1}
    OBVIOUS
  <2>4. QED BY <2>1, <2>2, <2>3 DEF Places
<1>2. \A h \in Generation : \A i \in Places(sent[h]) : h = Current /\ i = 1 /\ sent[h][i] = c
  BY <1>1 DEF OneStore
<1>3. \A h \in Generation \ {Current} : requests'[h] = requests[h]
  BY SentNone DEF OneStore
<1>4. ASSUME NEW h \in Generation, NEW k \in Key
      PROVE  WillHold(h, k)' = IF h = Current /\ k = c.key THEN c.value ELSE WillHold(h, k)
  <2>1. /\ Writes(sent[h], k) = {} => WillHold(h, k)' = WillHold(h, k)
        /\ \A i \in Writes(sent[h], k) : (\A j \in Writes(sent[h], k) : j <= i)
             => WillHold(h, k)' = handle_store(store[h], sent[h][i])[k]
    BY SentHold
  <2>2. CASE h = Current /\ k = c.key
    <3>1. Writes(sent[h], k) = {1}
      <4>1. 1 \in Writes(sent[h], k)
        BY <1>1, <2>2 DEF OneStore, Writes, Places
      <4>2. \A i \in Writes(sent[h], k) : i = 1
        BY <1>2 DEF Writes, Places
      <4>3. QED BY <4>1, <4>2
    <3>2. WillHold(h, k)' = handle_store(store[h], sent[h][1])[k]
      BY <2>1, <3>1
    <3>3. sent[h][1] = c
      BY <1>1, <2>2 DEF OneStore
    <3>4. handle_store(store[Current], c)[k] = c.value
      BY <1>1, <2>2, HandleWrite DEF OneStore
    <3>5. QED BY <2>2, <3>2, <3>3, <3>4
  <2>3. CASE ~(h = Current /\ k = c.key)
    <3>1. Writes(sent[h], k) = {}
      BY <1>2, <2>3 DEF Writes, Places
    <3>2. QED BY <2>1, <2>3, <3>1
  <2>4. QED BY <2>2, <2>3
<1>5. QED BY <1>2, <1>3, <1>4

\* What the answer of an old generation may carry.
LEMMA OldValue ==
  ASSUME AccountInv, NEW g \in Legacy, answers[g] # <<>>, Head(answers[g]).kind = "Value",
         answers' = [answers EXCEPT ![g] = Tail(@)], UNCHANGED <<registered, minted>>
  PROVE  LET a == Head(answers[g])
         IN  /\ a.key \in Key /\ a.value \in Value \cup {None}
             /\ a.key = "posting_key" => a.value \in minted \cup {None}
             /\ a.key # "posting_key" => a.value \in {Stored, None}
             /\ a.key = "posting_key" /\ Wiped => a.value \notin destroyed
             /\ AnswersOK' /\ attested[loads] /\ Current \in registered /\ ~Unheard /\ Open
<1> DEFINE a == Head(answers[g])
<1>1. AnswersOK /\ ScreenInv /\ UnheardInv /\ HeardInv /\ WipeInv /\ g \in Generation
  BY Keys DEF AccountInv, TypeInv, PageInv
<1>2. /\ AnswersOK' /\ a = answers[g][1] /\ 1 \in Places(answers[g])
      /\ Answerable(g, a, registered, minted)
  BY <1>1, Heard
<1>3. ~Unheard /\ Open
  BY <1>1 DEF UnheardInv, ScreenInv
<1>4. a.kind = "Value"
  OBVIOUS
<1>5. a.key = "posting_key" /\ Wiped => a.value \notin destroyed
  BY <1>1, <1>2, <1>4 DEF WipeInv, IsSeed, Wiped
<1> HIDE DEF a
<1>6. a.key \in Key /\ a.value \in Value \cup {None}
  BY <1>2, <1>4, AnswerShape DEF Answerable
<1>7. a.key = "posting_key" => a.value \in minted \cup {None}
  BY <1>2, <1>4 DEF Answerable
<1>8. a.key # "posting_key" => a.value \in {Stored, None}
  BY <1>2, <1>4 DEF Answerable
<1>9. QED BY <1>1, <1>2, <1>3, <1>5, <1>6, <1>7, <1>8 DEF HeardInv, a

\* What the page does about the value a of an old generation.
OldValuePage(a) ==
  /\ LegacyPage
  /\ page'.OUTSTANDING = page.OUTSTANDING + (0 - 1)
  /\ page'.PENDING <=> (page.PENDING /\ page.OUTSTANDING + (0 - 1) > 0)
  /\ IF page'.ACCOUNT = page.ACCOUNT
     THEN page'.POSTING_KEY_LOADED = page.POSTING_KEY_LOADED
     ELSE /\ a.key = "posting_key" /\ a.value \in Seed /\ page.ACCOUNT = None
          /\ page'.ACCOUNT = a.value /\ page'.POSTING_KEY_LOADED = a.value

\* It stores it, or has no use for it.
Carried(a, sent) ==
  \/ /\ a.value # None
     /\ OneStore(sent, [op |-> "Store", key |-> a.key, value |-> a.value, load |-> loads])
     /\ a.key = "posting_key" => page'.ACCOUNT = a.value
  \/ /\ a.value = None \/ (a.key = "posting_key" /\ page.ACCOUNT # None)
     /\ \A h \in Generation : sent[h] = <<>>
     /\ page'.ACCOUNT = page.ACCOUNT

\* What is stored then.
CarriedFacts(a, sent) ==
  /\ \A h \in Legacy, k \in Key : WillHold(h, k)' = WillHold(h, k)
  /\ \A k \in Key : WillHold(Current, k)' = WillHold(Current, k)
                    \/ (k = a.key /\ WillHold(Current, k)' = a.value /\ a.value # None)
  /\ a.key = "posting_key" /\ page'.ACCOUNT # page.ACCOUNT => WillHold(Current, "posting_key")' = a.value
  /\ a.value = None \/ WillHold(Current, a.key)' = a.value
       \/ (a.key = "posting_key" /\ page.ACCOUNT # None)
  /\ \A h \in Generation : \A i \in Places(sent[h]) :
       /\ h = Current /\ i = 1 /\ a.value # None
       /\ sent[h][i] = [op |-> "Store", key |-> a.key, value |-> a.value, load |-> loads]
       /\ a.key = "posting_key" => page'.ACCOUNT = a.value
  /\ \A h \in Legacy : requests'[h] = requests[h]

\* What a value of an old generation, carried or not, leaves on its way to the
\* current generation.
LEMMA CarriedHold ==
  ASSUME StoreOK, requests \in [Generation -> Seq(Request)], store' = store,
         NEW sent, Sent(sent), NEW a, Carried(a, sent), a.key \in Key
  PROVE  CarriedFacts(a, sent)
<1>0. Legacy \subseteq Generation /\ Current \in Generation /\ Current \notin Legacy /\ "posting_key" \in Key
  BY Keys
<1> DEFINE c == [op |-> "Store", key |-> a.key, value |-> a.value, load |-> loads]
<1>1. CASE /\ a.value # None /\ OneStore(sent, c)
           /\ a.key = "posting_key" => page'.ACCOUNT = a.value
  <2>1. c.key = a.key /\ c.value = a.value
    OBVIOUS
  <2> HIDE DEF c
  <2>2. /\ \A h \in Generation, k \in Key :
              WillHold(h, k)' = IF h = Current /\ k = c.key THEN c.value ELSE WillHold(h, k)
        /\ \A h \in Generation : \A i \in Places(sent[h]) : h = Current /\ i = 1 /\ sent[h][i] = c
        /\ \A h \in Generation \ {Current} : requests'[h] = requests[h]
    BY <1>1, StoreSent
  <2>3. QED BY <1>0, <1>1, <2>1, <2>2 DEF c, CarriedFacts
<1>2. CASE /\ a.value = None \/ (a.key = "posting_key" /\ page.ACCOUNT # None)
           /\ \A h \in Generation : sent[h] = <<>>
           /\ page'.ACCOUNT = page.ACCOUNT
  <2>1. \A h \in Generation : requests'[h] = requests[h]
    BY <1>2, SentNone
  <2>2. \A h \in Generation, k \in Key : WillHold(h, k)' = WillHold(h, k)
    BY <2>1 DEF WillHold
  <2>3. \A h \in Generation : Places(sent[h]) = {}
    BY <1>2 DEF Places
  <2>4. QED BY <1>0, <1>2, <2>1, <2>2, <2>3 DEF CarriedFacts
<1>3. QED BY <1>1, <1>2 DEF Carried

\* The step keeps the invariant, ...
LEMMA CarriedKeeps ==
  ASSUME AccountInv, NEW g \in Legacy, answers[g] # <<>>, Head(answers[g]).kind = "Value",
         answers' = [answers EXCEPT ![g] = Tail(@)],
         UNCHANGED <<store, registered, attested, loads, minted, destroyed, lost, refused, nukes, haunted>>,
         NEW a, a = Head(answers[g]), OldValuePage(a),
         NEW sent, Sent(sent), Carried(a, sent), requests' \in [Generation -> Seq(Request)]
  PROVE  AccountInv'
<1>1. /\ StoreOK /\ RequestsOK /\ AnswersOK /\ RestOK
      /\ ScreenInv /\ UnheardInv /\ HeardInv /\ AnswerInv
      /\ AccountIsStored /\ NukeIsFinal
      /\ HeldInv /\ LiveInv /\ CarryInv
  BY DEF AccountInv, TypeInv, PageInv, ProbeInv
<1>2. /\ g \in Generation /\ g # Current /\ Current \in Generation /\ Legacy \subseteq Generation
      /\ requests \in [Generation -> Seq(Request)] /\ answers \in [Generation -> Seq(Answer)]
      /\ page \in Page /\ loads \in 1..MaxLoads /\ "posting_key" \in Key /\ None \notin Seed
      /\ None \notin minted /\ destroyed \subseteq minted
  BY <1>1, Keys DEF RequestsOK, AnswersOK, RestOK
<1>3. /\ a.key \in Key /\ a.value \in Value \cup {None}
      /\ a.key = "posting_key" => a.value \in minted \cup {None}
      /\ a.key # "posting_key" => a.value \in {Stored, None}
      /\ a.key = "posting_key" /\ Wiped => a.value \notin destroyed
      /\ AnswersOK' /\ attested[loads] /\ Current \in registered /\ ~Unheard /\ Open
      /\ a.kind = "Value"
  BY OldValue
<1>4. /\ \A h \in Legacy, k \in Key : WillHold(h, k)' = WillHold(h, k)
      /\ \A k \in Key : WillHold(Current, k)' = WillHold(Current, k)
                        \/ (k = a.key /\ WillHold(Current, k)' = a.value /\ a.value # None)
      /\ a.key = "posting_key" /\ page'.ACCOUNT # page.ACCOUNT => WillHold(Current, "posting_key")' = a.value
      /\ a.value = None \/ WillHold(Current, a.key)' = a.value
           \/ (a.key = "posting_key" /\ page.ACCOUNT # None)
      /\ \A h \in Generation : \A i \in Places(sent[h]) :
           /\ h = Current /\ i = 1 /\ a.value # None
           /\ sent[h][i] = [op |-> "Store", key |-> a.key, value |-> a.value, load |-> loads]
           /\ a.key = "posting_key" => page'.ACCOUNT = a.value
      /\ \A h \in Legacy : requests'[h] = requests[h]
  <2>1. CarriedFacts(a, sent)
    BY <1>1, <1>2, <1>3, CarriedHold
  <2>2. QED BY <2>1 DEF CarriedFacts
<1>5. /\ LegacyPage /\ Open' = Open /\ ~Unheard'
      /\ page'.PROBE_DONE = page.PROBE_DONE /\ page'.FAILED = page.FAILED /\ page'.status = page.status
      /\ page' \in Page
  BY DEF OldValuePage, LegacyPage, Open, Unheard
<1>6. IF page'.ACCOUNT = page.ACCOUNT
      THEN page'.POSTING_KEY_LOADED = page.POSTING_KEY_LOADED
      ELSE /\ a.key = "posting_key" /\ a.value \in Seed /\ page.ACCOUNT = None
           /\ page'.ACCOUNT = a.value /\ page'.POSTING_KEY_LOADED = a.value
           /\ WillHold(Current, "posting_key")' = a.value
  BY <1>4 DEF OldValuePage
<1>7. SentOK(sent)
  <2> SUFFICES ASSUME NEW i \in Places(sent[Current])
               PROVE  Sendable(Current, sent[Current][i], loads', attested', minted') /\ Current \in registered'
    BY <1>4 DEF SentOK
  <2> DEFINE c == [op |-> "Store", key |-> a.key, value |-> a.value, load |-> loads]
  <2>1. sent[Current][i] = c /\ a.value \in Value
    BY <1>2, <1>3, <1>4
  <2>2. c \in Request
    BY <1>2, <1>3, <2>1, RequestsMade
  <2>3. c.op = "Store" /\ c.key = a.key /\ c.value = a.value /\ c.load = loads
    OBVIOUS
  <2>4. c.load <= loads /\ IF c.key = "posting_key" THEN c.value \in minted ELSE c.value = Stored
    <3>1. loads <= loads /\ None # Stored
      BY <1>2, Keys
    <3>2. a.value # None
      BY <1>2, <1>4
    <3> HIDE DEF c
    <3>3. QED BY <1>3, <2>3, <3>1, <3>2
  <2> HIDE DEF c
  <2>5. QED BY <1>3, <2>1, <2>2, <2>3, <2>4 DEF Sendable
<1>8. TypeInv' /\ UnheardInv' /\ HeardInv' /\ AnswerInv' /\ WipeInv' /\ DeleteInv'
  <2>1. /\ \A h \in Generation : \A i \in Places(sent[h]) : sent[h][i].op \notin {"Delete", "Register"}
        /\ \A i \in Places(sent[Current]) : sent[Current][i].op = "Store"
    BY <1>2, <1>4
  <2>2. QED BY <1>5, <1>7, <2>1, LegacyKeeps
<1>9. CountInv'
  <2>1. /\ Cardinality(Asked(loads, requests')) \in Nat /\ Cardinality(Asked(loads, requests)) \in Nat
        /\ Cardinality(Asked(loads, requests')) <= Cardinality(Asked(loads, requests))
    <3>1. \A h \in Legacy : \A i \in Places(sent[h]) :
            ~(sent[h][i].op \in {"List", "Get"} /\ sent[h][i].load = loads)
      BY <1>2, <1>4
    <3>2. sent \in [Generation -> Seq(Request)] /\ \A h \in Generation : requests'[h] = requests[h] \o sent[h]
      BY DEF Sent
    <3>3. QED BY <1>2, <3>1, <3>2, AskedSilent
  <2>2. Cardinality(Asked(loads, requests')) <= Cardinality(Asked(loads, requests)) + 0 /\ 0 \in Nat
    BY <2>1
  <2>3. /\ page'.OUTSTANDING = page.OUTSTANDING + (0 - 1)
        /\ page'.PENDING <=> (page.PENDING /\ page.OUTSTANDING + (0 - 1) > 0)
    BY DEF OldValuePage
  <2>4. a.kind # "Empty"
    BY <1>3
  <2>5. QED BY <1>3, <1>5, <2>1, <2>2, <2>3, <2>4, LegacyCount
<1>10. ScreenInv'
  <2>1. \A h \in Generation : answers'[h] # <<>> => Open'
    BY <1>3, <1>5
  <2>2. page'.ACCOUNT = IF page'.POSTING_KEY_LOADED \in Seed THEN page'.POSTING_KEY_LOADED ELSE None
    BY <1>1, <1>6 DEF ScreenInv
  <2>3. page'.ACCOUNT \in minted \cup {None}
    BY <1>1, <1>3, <1>6 DEF ScreenInv
  <2>4. QED BY <1>1, <1>5, <2>1, <2>2, <2>3 DEF ScreenInv
<1>11. AccountIsStored'
  <2> SUFFICES ASSUME page'.ACCOUNT # None, ~lost, "Store" \notin refused
               PROVE  WillHold(Current, "posting_key")' = page'.ACCOUNT
    BY DEF AccountIsStored
  <2>1. CASE page'.ACCOUNT = page.ACCOUNT
    <3>1. WillHold(Current, "posting_key") = page.ACCOUNT
      BY <1>1, <2>1 DEF AccountIsStored
    <3>2. CASE WillHold(Current, "posting_key")' = WillHold(Current, "posting_key")
      BY <2>1, <3>1, <3>2
    <3>3. CASE /\ WillHold(Current, "posting_key")' # WillHold(Current, "posting_key")
               /\ "posting_key" = a.key /\ a.value # None
      <4>1. sent[Current] # <<>>
        <5>1. sent[Current] = <<>> => requests'[Current] = requests[Current]
          BY <1>2, SentNone
        <5>2. QED BY <3>3, <5>1 DEF WillHold
      <4>2. OneStore(sent, [op |-> "Store", key |-> a.key, value |-> a.value, load |-> loads])
            /\ (a.key = "posting_key" => page'.ACCOUNT = a.value)
        BY <1>2, <4>1 DEF Carried
      <4>3. QED BY <1>2, <1>4, <3>3, <4>2
    <3>4. QED BY <1>2, <1>4, <3>2, <3>3
  <2>2. CASE page'.ACCOUNT # page.ACCOUNT
    BY <1>6, <2>2
  <2>3. QED BY <2>1, <2>2
<1>12. NukeIsFinal'
  <2> SUFFICES ASSUME Wiped
               PROVE  /\ page'.ACCOUNT \notin destroyed
                      /\ \A h \in Generation : WillHold(h, "posting_key")' \notin destroyed
    BY DEF NukeIsFinal, Wiped
  <2>1. page.ACCOUNT \notin destroyed /\ \A h \in Generation : WillHold(h, "posting_key") \notin destroyed
    BY <1>1 DEF NukeIsFinal, Wiped
  <2>2. page'.ACCOUNT \notin destroyed
    BY <1>3, <1>6, <2>1
  <2>3. WillHold(Current, "posting_key")' \notin destroyed
    BY <1>2, <1>3, <1>4, <2>1
  <2>4. QED BY <1>2, <1>4, <2>1, <2>2, <2>3, Keys
<1>13. HeldInv'
  <2> SUFFICES /\ store[Current]["posting_key"] \in destroyed \cup {None, page'.ACCOUNT}
               /\ \A i \in Places(requests'[Current]) :
                    requests'[Current][i].op = "Store" /\ requests'[Current][i].key = "posting_key" =>
                      requests'[Current][i].value \in destroyed \cup {page'.ACCOUNT}
    BY DEF HeldInv
  <2>1. /\ store[Current]["posting_key"] \in destroyed \cup {None, page.ACCOUNT}
        /\ \A i \in Places(requests[Current]) :
             requests[Current][i].op = "Store" /\ requests[Current][i].key = "posting_key" =>
               requests[Current][i].value \in destroyed \cup {page.ACCOUNT}
    BY <1>1, <1>3 DEF HeldInv
  <2>2. page.ACCOUNT \in {None, page'.ACCOUNT}
    BY <1>6
  <2>3. ASSUME NEW i \in Places(requests'[Current]), requests'[Current][i].op = "Store",
               requests'[Current][i].key = "posting_key"
        PROVE  requests'[Current][i].value \in destroyed \cup {page'.ACCOUNT}
    <3>1. CASE i \in Places(requests[Current]) /\ requests'[Current][i] = requests[Current][i]
      <4>1. requests[Current][i].value \in minted
        BY <1>1, <1>2, <2>3, <3>1 DEF RequestsOK, Sendable
      <4>2. QED BY <1>2, <2>1, <2>2, <2>3, <3>1, <4>1
    <3>2. CASE /\ i - Len(requests[Current]) \in Places(sent[Current])
               /\ requests'[Current][i] = sent[Current][i - Len(requests[Current])]
      BY <1>2, <1>4, <2>3, <3>2
    <3>3. QED BY <1>2, <3>1, <3>2 DEF Sent
  <2>4. QED BY <2>1, <2>2, <2>3
<1>14. \A h \in Legacy, k \in Key : Tells(h, k) => Tells(h, k)' \/ (k = a.key /\ a.value # None)
  <2> SUFFICES ASSUME NEW h \in Legacy, NEW k \in Key, Tells(h, k)
               PROVE  Tells(h, k)' \/ (k = a.key /\ a.value # None)
    OBVIOUS
  <2>1. Asks(loads, requests[h], k) => Asks(loads', requests'[h], k)
    BY <1>4
  <2>2. Tells(h, k)' \/ (h = g /\ Says(a, k))
    BY <1>1, <1>2, <2>1, TellsHeard
  <2>3. QED BY <1>3, <2>2 DEF Says
<1>15. LiveInv'
  <2> SUFFICES ASSUME Open, ~page.FAILED, page'.POSTING_KEY_LOADED = None, NEW h \in Legacy
               PROVE  store[h]["posting_key"] \in destroyed \cup {None} \/ Tells(h, "posting_key")'
    BY <1>5 DEF LiveInv
  <2>1. page'.ACCOUNT = page.ACCOUNT /\ page.POSTING_KEY_LOADED = None /\ page.ACCOUNT = None
    BY <1>1, <1>2, <1>6 DEF ScreenInv
  <2>2. store[h]["posting_key"] \in destroyed \cup {None} \/ Tells(h, "posting_key")
    BY <1>1, <2>1 DEF LiveInv
  <2>3. ~(a.key = "posting_key" /\ a.value # None)
    <3>1. CASE a.key = "posting_key" /\ a.value # None
      BY <2>1, <3>1 DEF Carried
    <3>2. QED BY <3>1
  <2>4. QED BY <1>2, <1>14, <2>2, <2>3
<1>16. CarryInv'
  <2> SUFFICES ASSUME Open, ~page.FAILED, page.PROBE_DONE, nukes = 0, ~lost, "Store" \notin refused,
                      NEW h \in Legacy, NEW k \in Key, store[h][k] # None
               PROVE  WillHold(Current, k)' # None \/ Tells(h, k)'
    BY <1>5 DEF CarryInv
  <2>1. WillHold(Current, k) # None \/ Tells(h, k)
    BY <1>1 DEF CarryInv
  <2>2. WillHold(Current, k) # None => WillHold(Current, k)' # None
    BY <1>4
  <2>3. CASE k = a.key /\ a.value # None
    <3>1. CASE WillHold(Current, a.key)' = a.value
      BY <2>3, <3>1
    <3>2. CASE a.key = "posting_key" /\ page.ACCOUNT # None
      <4>1. WillHold(Current, "posting_key") # None
        BY <1>1, <3>2 DEF AccountIsStored
      <4>2. QED BY <2>2, <2>3, <3>2, <4>1
    <3>3. QED BY <1>4, <2>3, <3>1, <3>2
  <2>4. QED BY <1>14, <2>1, <2>2, <2>3
<1>17. QED
  BY <1>8, <1>9, <1>10, <1>11, <1>12, <1>13, <1>15, <1>16 DEF AccountInv, PageInv, ProbeInv

\* The effect on the posting key: a seed is the account, and none has the
\* probe begin.
LEMMA Resumed ==
  ASSUME NEW p
  PROVE  /\ p.POSTING_KEY_LOADED \in Seed =>
              /\ resume_or_probe(p).page = IF p.ACCOUNT = None
                                          THEN [p EXCEPT !.ACCOUNT = p.POSTING_KEY_LOADED] ELSE p
              /\ resume_or_probe(p).sent = Nothing
         /\ p.POSTING_KEY_LOADED = None => resume_or_probe(p) = begin_legacy_probe(p)
<1> DEFINE q == IF p.ACCOUNT = None THEN [p EXCEPT !.ACCOUNT = p.POSTING_KEY_LOADED] ELSE p
<1>1. None \notin Seed
  BY Keys
<1>2. resume_or_probe(p) = CASE p.POSTING_KEY_LOADED \in Seed -> [page |-> q, sent |-> Nothing]
                             [] p.POSTING_KEY_LOADED = None -> begin_legacy_probe(p)
                             [] OTHER -> [page |-> p, sent |-> Nothing]
  BY Zenon DEF resume_or_probe
<1> HIDE DEF q
<1>3. p.POSTING_KEY_LOADED \in Seed => resume_or_probe(p) = [page |-> q, sent |-> Nothing]
  BY <1>1, <1>2
<1>4. p.POSTING_KEY_LOADED \in Seed => resume_or_probe(p).page = q /\ resume_or_probe(p).sent = Nothing
  BY <1>3
<1>5. p.POSTING_KEY_LOADED = None => resume_or_probe(p) = begin_legacy_probe(p)
  BY <1>1, <1>2
<1>6. QED BY <1>4, <1>5 DEF q

\* ... and it is what the page does.
LEMMA OldValueKeeps ==
  ASSUME AccountInv, NEW g \in Legacy, Dispatch(g), Head(answers[g]).kind = "Value"
  PROVE  AccountInv'
<1> DEFINE a == Head(answers[g])
           noted == probe_note(page, -1)
           c == [op |-> "Store", key |-> a.key, value |-> a.value, load |-> loads]
           carry == [Nothing EXCEPT ![Current] = <<c>>]
           seen == [noted EXCEPT !.POSTING_KEY_LOADED = a.value]
           resumed == [seen EXCEPT !.ACCOUNT = a.value]
<1>1. /\ RequestsOK /\ AnswersOK /\ RestOK /\ ScreenInv /\ UnheardInv
      /\ requests \in [Generation -> Seq(Request)] /\ page \in Page /\ loads \in 1..MaxLoads
  BY DEF AccountInv, TypeInv, PageInv, RequestsOK, RestOK
<1>2. /\ g \in Generation /\ g # Current /\ Current \in Generation
      /\ Current \notin Legacy /\ None \notin Seed /\ Unanswered \notin Seed /\ Unanswered # None
      /\ answers[g] # <<>> /\ answers' = [answers EXCEPT ![g] = Tail(@)]
      /\ UNCHANGED <<store, registered, attested, loads, minted, destroyed, lost, refused, nukes, haunted>>
  BY <1>1, Keys DEF Dispatch
<1>3. /\ a.key \in Key /\ a.value \in Value \cup {None}
      /\ a.key = "posting_key" => a.value \in minted \cup {None}
      /\ a.key # "posting_key" => a.value \in {Stored, None}
      /\ ~Unheard /\ a.kind = "Value" /\ minted \subseteq Seed
  BY <1>1, <1>2, OldValue DEF RestOK
<1>4. Noted(page, -1, noted) /\ noted \in Page
  BY <1>1, NoteFields DEF Noted
<1>5. page' = legacy_value(a).page /\ send(legacy_value(a).sent)
  <2>1. page' = dispatch(g, a).page /\ send(dispatch(g, a).sent)
    BY DEF Dispatch
  <2> HIDE DEF a
  <2>2. dispatch(g, a) = legacy_value(a)
    BY <1>2, <1>3 DEF dispatch, dispatch_legacy_kv
  <2>3. QED BY <2>1, <2>2
<1>6. /\ a.value = None => legacy_value(a) = [page |-> noted, sent |-> Nothing]
      /\ a.value # None /\ a.key # "posting_key" => legacy_value(a) = [page |-> noted, sent |-> carry]
      /\ a.value # None /\ a.key = "posting_key" /\ has_identity(noted) =>
           legacy_value(a) = [page |-> noted, sent |-> Nothing]
      /\ a.value # None /\ a.key = "posting_key" /\ ~has_identity(noted) =>
           legacy_value(a) = [page |-> resume_or_probe(seen).page, sent |-> carry]
  <2> HIDE DEF a
  <2>1. carry = To(Current, <<Store(a.key, a.value)>>)
    BY DEF To, Store
  <2> HIDE DEF carry, noted
  <2>2. QED BY <2>1 DEF legacy_value, noted
<1> HIDE DEF a, noted
<1>7. has_identity(noted) <=> page.ACCOUNT # None
  BY <1>1, <1>2, <1>4 DEF has_identity, Noted, ScreenInv
<1>8. a.value # None /\ a.key = "posting_key" => resume_or_probe(seen).page = IF seen.ACCOUNT = None THEN resumed ELSE seen
  <2>1. a.value # None /\ a.key = "posting_key" => a.value \in Seed
    BY <1>3
  <2>2. seen.POSTING_KEY_LOADED = a.value
    BY <1>4 DEF Page
  <2> HIDE DEF seen
  <2>3. a.value \in Seed => resume_or_probe(seen).page = IF seen.ACCOUNT = None THEN resumed ELSE seen
    BY <2>2, Resumed, Zenon
  <2>4. QED BY <2>1, <2>3
<1>9. \A h \in Generation : Nothing[h] = <<>>
  BY DEF Nothing
<1>10. a.value # None => OneStore(carry, c) /\ carry \in [Generation -> Seq(Request)]
  <2>1. a.value # None => c \in Request
    BY <1>1, <1>3, RequestsMade
  <2>2. c.op = "Store"
    OBVIOUS
  <2> HIDE DEF c
  <2>3. /\ carry[Current] = <<c>> /\ \A h \in Generation \ {Current} : carry[h] = <<>>
        /\ DOMAIN carry = Generation /\ carry = [h \in Generation |-> IF h = Current THEN <<c>> ELSE <<>>]
    BY <1>2 DEF Nothing
  <2>4. <<>> \in Seq(Request) /\ (a.value # None => <<c>> \in Seq(Request))
    BY <2>1
  <2>5. QED BY <2>1, <2>2, <2>3, <2>4 DEF OneStore
<1>11. Nothing \in [Generation -> Seq(Request)]
  BY DEF Nothing
<1>12. ASSUME page' = noted PROVE OldValuePage(a) /\ page'.ACCOUNT = page.ACCOUNT
  <2>1. /\ page'.OUTSTANDING = page.OUTSTANDING + (0 - 1)
        /\ page'.PENDING <=> (page.PENDING /\ page.OUTSTANDING + (0 - 1) > 0)
    BY <1>4, <1>12 DEF Noted
  <2>2. QED BY <1>3, <1>4, <1>12, <2>1 DEF OldValuePage, LegacyPage, Noted, Unheard
<1>13. ASSUME send(Nothing), a.value = None \/ (a.key = "posting_key" /\ page.ACCOUNT # None), page' = noted
       PROVE  AccountInv'
  <2>1. requests' = [h \in Generation |-> requests[h] \o Nothing[h]]
    BY <1>13 DEF send
  <2>2. Sent(Nothing) /\ requests' \in [Generation -> Seq(Request)]
    BY <1>1, <1>11, <2>1, Sends
  <2>3. Carried(a, Nothing) /\ OldValuePage(a)
    BY <1>9, <1>12, <1>13 DEF Carried
  <2>4. QED BY <1>2, <1>3, <2>2, <2>3, CarriedKeeps DEF a
<1>14. ASSUME send(carry), a.value # None, OldValuePage(a), a.key = "posting_key" => page'.ACCOUNT = a.value
       PROVE  AccountInv'
  <2>1. requests' = [h \in Generation |-> requests[h] \o carry[h]]
    BY <1>14 DEF send
  <2> HIDE DEF carry
  <2>2. Sent(carry) /\ requests' \in [Generation -> Seq(Request)]
    BY <1>1, <1>10, <1>14, <2>1, Sends
  <2>3. Carried(a, carry)
    BY <1>10, <1>14 DEF Carried
  <2>4. QED BY <1>2, <1>3, <1>14, <2>2, <2>3, CarriedKeeps DEF a
<1>15. CASE a.value = None
  <2>1. legacy_value(a) = [page |-> noted, sent |-> Nothing]
    BY <1>6, <1>15
  <2>2. page' = noted /\ send(Nothing)
    BY <1>5, <2>1
  <2>3. QED BY <1>13, <1>15, <2>2
<1>16. CASE a.value # None /\ a.key # "posting_key"
  <2> HIDE DEF carry
  <2>1. legacy_value(a) = [page |-> noted, sent |-> carry]
    BY <1>6, <1>16
  <2>2. page' = noted /\ send(carry)
    BY <1>5, <2>1
  <2>3. QED BY <1>12, <1>14, <1>16, <2>2
<1>17. CASE a.value # None /\ a.key = "posting_key" /\ page.ACCOUNT # None
  <2>1. legacy_value(a) = [page |-> noted, sent |-> Nothing]
    BY <1>6, <1>7, <1>17
  <2>2. page' = noted /\ send(Nothing)
    BY <1>5, <2>1
  <2>3. QED BY <1>13, <1>17, <2>2
<1>18. CASE a.value # None /\ a.key = "posting_key" /\ page.ACCOUNT = None
  <2>1. /\ a.value \in Seed
        /\ resumed \in Page /\ resumed.ACCOUNT = a.value /\ resumed.POSTING_KEY_LOADED = a.value
        /\ resumed.socket = noted.socket /\ resumed.status = noted.status
        /\ resumed.PROBE_DONE = noted.PROBE_DONE /\ resumed.FAILED = noted.FAILED
        /\ resumed.OUTSTANDING = noted.OUTSTANDING /\ resumed.PENDING = noted.PENDING
        /\ seen.ACCOUNT = noted.ACCOUNT
    BY <1>3, <1>4, <1>18 DEF Page
  <2>2. noted.ACCOUNT = None
    BY <1>4, <1>18 DEF Noted
  <2> HIDE DEF carry, seen, resumed
  <2>3. page' = resumed /\ send(carry)
    <3>1. legacy_value(a) = [page |-> resume_or_probe(seen).page, sent |-> carry]
      BY <1>6, <1>7, <1>18
    <3>2. resume_or_probe(seen).page = resumed
      BY <1>8, <1>18, <2>1, <2>2
    <3>3. QED BY <1>5, <3>1, <3>2
  <2>4. /\ page'.OUTSTANDING = page.OUTSTANDING + (0 - 1)
        /\ page'.PENDING <=> (page.PENDING /\ page.OUTSTANDING + (0 - 1) > 0)
    BY <1>4, <2>1, <2>3 DEF Noted
  <2>5. OldValuePage(a)
    BY <1>2, <1>4, <1>18, <2>1, <2>3, <2>4 DEF OldValuePage, LegacyPage, Noted
  <2>6. QED BY <1>14, <1>18, <2>1, <2>3, <2>5
<1>19. QED BY <1>15, <1>16, <1>17, <1>18

-----------------------------------------------------------------------------
(* The current generation is heard *)

\* Its answer about the posting key is the last word on it.
HearFacts(a) ==
  /\ a.key = "posting_key" /\ a.value = store[Current]["posting_key"]
  /\ a.value \in minted \cup {None} /\ minted \subseteq Seed
  /\ requests[Current] = <<>> /\ attested[loads] /\ Current \in registered
  /\ Unheard /\ Open /\ page.ACCOUNT = None /\ ~page.PENDING /\ ~page.PROBE_DONE
  /\ \A g \in Legacy : answers[g] = <<>> /\ answers'[g] = <<>>
  /\ \A g \in Legacy : \A i \in Places(requests[g]) : requests[g][i].load # loads
  /\ \A i \in Places(answers'[Current]) : answers'[Current][i].kind # "Value"
  /\ AnswersOK'

\* What the page and the queues are like when the current generation's answer
\* about the posting key is heard.
LEMMA Hears ==
  ASSUME AccountInv, answers[Current] # <<>>, NEW a, a = Head(answers[Current]), a.kind = "Value",
         answers' = [answers EXCEPT ![Current] = Tail(@)],
         UNCHANGED <<store, registered, attested, loads, minted, destroyed, lost, refused, nukes, haunted>>
  PROVE  HearFacts(a)
<1>1. /\ StoreOK /\ RequestsOK /\ AnswersOK /\ RestOK /\ ScreenInv /\ UnheardInv /\ AnswerInv
      /\ answers \in [Generation -> Seq(Answer)]
  BY DEF AccountInv, TypeInv, PageInv, AnswersOK
<1>2. Current \in Generation /\ Legacy \subseteq Generation /\ Current \notin Legacy /\ Unanswered \notin Seed
  BY Keys
<1>3. /\ AnswersOK' /\ Moved(Current) /\ a = answers[Current][1] /\ 1 \in Places(answers[Current])
      /\ Answerable(Current, a, registered, minted)
  BY <1>1, <1>2, Heard
<1>4. /\ Unheard /\ requests[Current] = <<>> /\ a.value = store[Current]["posting_key"]
      /\ attested[loads] /\ Current \in registered
      /\ \A j \in Places(answers[Current]) : answers[Current][j].kind = "Value" => j = 1
  BY <1>1, <1>3 DEF AnswerInv
<1>5. a.key = "posting_key" /\ a.value \in minted \cup {None} /\ minted \subseteq Seed
  BY <1>1, <1>3 DEF Answerable, RestOK
<1>6. Open /\ page.ACCOUNT = None /\ ~page.PENDING /\ ~page.PROBE_DONE
  BY <1>1, <1>2, <1>4 DEF ScreenInv, UnheardInv, Unheard
<1>7. \A g \in Legacy : answers[g] = <<>> /\ answers'[g] = <<>>
  BY <1>1, <1>2, <1>4 DEF UnheardInv
<1>8. \A g \in Legacy : \A i \in Places(requests[g]) : requests[g][i].load # loads
  BY <1>1, <1>4 DEF UnheardInv
<1>9. \A i \in Places(answers'[Current]) : answers'[Current][i].kind # "Value"
  <2> SUFFICES ASSUME NEW i \in Places(answers'[Current]), answers'[Current][i].kind = "Value"
               PROVE  FALSE
    OBVIOUS
  <2>1. i \in Nat /\ i >= 1 /\ i + 1 \in Places(answers[Current]) /\ answers'[Current][i] = answers[Current][i+1]
    BY <1>2, <1>3 DEF Moved
  <2>2. i + 1 = 1
    BY <1>4, <2>1
  <2>3. QED BY <2>1, <2>2
<1>10. QED BY <1>3, <1>4, <1>5, <1>6, <1>7, <1>8, <1>9 DEF HearFacts

\* The page that has heard it, and what it sends to the old generations.
HearPage(a, sent) ==
  /\ page' \in Page
  /\ page'.socket = page.socket /\ page'.status = page.status /\ page'.FAILED = page.FAILED
  /\ page'.POSTING_KEY_LOADED = a.value
  /\ page'.ACCOUNT = IF a.value \in Seed THEN a.value ELSE None
  /\ Sent(sent) /\ sent[Current] = <<>> /\ requests' \in [Generation -> Seq(Request)]
  /\ \A g \in Legacy : \A i \in Places(sent[g]) :
       /\ sent[g][i] \in {[op |-> "Register", load |-> loads], [op |-> "List", load |-> loads]}
       /\ sent[g][i].op = "Register" \/ \E j \in 1..i-1 : sent[g][j].op = "Register"

\* Hearing it keeps the invariant, once the probe's counts are known to hold.
LEMMA HearKeeps ==
  ASSUME AccountInv, answers[Current] # <<>>, NEW a, a = Head(answers[Current]), a.kind = "Value",
         answers' = [answers EXCEPT ![Current] = Tail(@)],
         UNCHANGED <<store, registered, attested, loads, minted, destroyed, lost, refused, nukes, haunted>>,
         NEW sent, HearPage(a, sent), CountInv', LiveInv', CarryInv'
  PROVE  AccountInv'
<1>1. /\ StoreOK /\ RequestsOK /\ AnswersOK /\ RestOK /\ ScreenInv
      /\ AccountIsStored /\ NukeIsFinal /\ WipeInv /\ DeleteInv
      /\ requests \in [Generation -> Seq(Request)]
  BY DEF AccountInv, TypeInv, PageInv, ProbeInv, RequestsOK
<1>2. /\ Current \in Generation /\ Legacy \subseteq Generation /\ Current \notin Legacy
      /\ Generation = Legacy \cup {Current}
      /\ None \notin Seed /\ Unanswered \notin Seed /\ Unanswered # None /\ "posting_key" \in Key
      /\ loads \in 1..MaxLoads
  BY <1>1, Keys DEF RestOK
<1>3. HearFacts(a)
  BY Hears
<1>4. /\ requests'[Current] = <<>> /\ Places(requests'[Current]) = {}
      /\ \A g \in Legacy : \A i \in Places(sent[g]) : sent[g][i].op \in {"Register", "List"}
  <2>1. requests'[Current] = requests[Current]
    BY <1>1, <1>2, SentNone DEF HearPage
  <2>2. requests'[Current] = <<>>
    BY <1>3, <2>1 DEF HearFacts
  <2>3. Places(<<>>) = {}
    BY DEF Places
  <2>4. QED BY <2>2, <2>3 DEF HearPage
<1>5. ~Unheard' /\ Open' = Open
  BY <1>2, <1>3 DEF HearPage, HearFacts, Unheard, Open
<1>6. StoreOK' /\ RestOK' /\ AnswersOK'
  BY <1>1, <1>3 DEF StoreOK, RestOK, HearPage, HearFacts
<1>7. RequestsOK'
  <2>1. SentOK(sent)
    <3> SUFFICES ASSUME NEW h \in Generation, NEW i \in Places(sent[h])
                 PROVE  /\ Sendable(h, sent[h][i], loads, attested, minted)
                        /\ \/ sent[h][i].op = "Register"
                           \/ \E j \in 1..i-1 : sent[h][j].op = "Register"
      BY DEF SentOK
    <3>1. h \in Legacy
      <4>1. Places(<<>>) = {}
        BY DEF Places
      <4>2. QED BY <1>2, <4>1 DEF HearPage
    <3>2. /\ sent[h][i] \in {[op |-> "Register", load |-> loads], [op |-> "List", load |-> loads]}
          /\ sent[h][i].op = "Register" \/ \E j \in 1..i-1 : sent[h][j].op = "Register"
      BY <3>1 DEF HearPage
    <3>3. sent[h][i].load = loads /\ sent[h][i].op \in {"Register", "List"} /\ loads <= loads
      BY <1>2, <3>2
    <3>4. sent[h][i] \in Request
      BY <1>2, <3>2 DEF Request
    <3>5. QED BY <1>2, <3>1, <3>2, <3>3, <3>4 DEF Sendable
  <2>2. loads \in Nat /\ loads' \in Nat /\ loads <= loads'
    BY <1>1, AccountAssumption DEF RestOK
  <2>3. QED BY <1>1, <2>1, <2>2, SentTypes DEF HearPage
<1>8. ScreenInv'
  <2>1. \A g \in Generation : answers'[g] # <<>> => Open'
    BY <1>3, <1>5 DEF HearFacts
  <2>2. page'.ACCOUNT \in minted \cup {None}
    BY <1>3 DEF HearPage, HearFacts
  <2>3. QED BY <1>1, <1>5, <2>1, <2>2 DEF ScreenInv, HearPage, Open
<1>9. UnheardInv' /\ HeardInv' /\ AnswerInv'
  BY <1>3, <1>4, <1>5 DEF UnheardInv, HeardInv, AnswerInv, HearFacts
<1>10. \A h \in Generation, k \in Key : WillHold(h, k)' = WillHold(h, k)
  <2> TAKE h \in Generation, k \in Key
  <2>1. Writes(sent[h], k) = {}
    <3>1. \A i \in Places(sent[h]) : sent[h][i].op \notin {"Store", "Delete"}
      <4>1. Places(<<>>) = {}
        BY DEF Places
      <4>2. QED BY <1>2, <1>4, <4>1 DEF HearPage
    <3>2. QED BY <3>1 DEF Writes, Places
  <2>2. QED BY <1>1, <2>1, SentHold DEF HearPage
<1>11. WillHold(Current, "posting_key") = a.value
  <2>1. Writes(<<>>, "posting_key") = {}
    BY DEF Writes
  <2>2. QED BY <1>3, <2>1, AfterNone DEF WillHold, HearFacts
<1>12. AccountIsStored'
  BY <1>2, <1>10, <1>11 DEF AccountIsStored, HearPage
<1>13. NukeIsFinal'
  <2>1. None \notin destroyed
    BY <1>1, <1>2 DEF RestOK
  <2>2. QED BY <1>1, <1>2, <1>10, <1>11, <2>1 DEF NukeIsFinal, HearPage, Wiped
<1>14. WipeInv'
  <2> SUFFICES ASSUME Wiped, NEW h \in Legacy
               PROVE  /\ \A i \in Places(answers'[h]) :
                           IsSeed(answers'[h][i]) => answers'[h][i].value \notin destroyed
                      /\ \A i \in Places(requests'[h]) :
                           /\ requests'[h][i].op = "Get" /\ requests'[h][i].key = "posting_key"
                           /\ \A j \in 1..i-1 : requests'[h][j].op # "Delete"
                           => store'[h]["posting_key"] \notin destroyed'
    BY DEF WipeInv, Wiped
  <2>1. Places(answers'[h]) = {}
    <3>1. Places(<<>>) = {}
      BY DEF Places
    <3>2. QED BY <1>3, <3>1 DEF HearFacts
  <2>2. ASSUME NEW i \in Places(requests'[h]), requests'[h][i].op = "Get",
               requests'[h][i].key = "posting_key", \A j \in 1..i-1 : requests'[h][j].op # "Delete"
        PROVE  store'[h]["posting_key"] \notin destroyed'
    BY <1>1, <2>2, SentWipe DEF HearPage
  <2>3. QED BY <2>1, <2>2
<1>15. HeldInv'
  BY <1>2, <1>3, <1>4 DEF HeldInv, HearFacts, HearPage
<1>16. DeleteInv'
  <2> SUFFICES ASSUME nukes = 0, NEW h \in Generation, NEW i \in Places(requests'[h])
               PROVE  requests'[h][i].op # "Delete"
    BY DEF DeleteInv
  <2>1. CASE h = Current
    BY <1>4, <2>1
  <2>2. CASE h # Current
    <3>1. h \in Legacy
      BY <1>2, <2>2
    <3>2. CASE i \in Places(requests[h]) /\ requests'[h][i] = requests[h][i]
      BY <1>1, <3>2 DEF DeleteInv
    <3>3. CASE /\ i - Len(requests[h]) \in Places(sent[h])
               /\ requests'[h][i] = sent[h][i - Len(requests[h])]
      <4>1. sent[h][i - Len(requests[h])].op \in {"Register", "List"}
        BY <1>4, <3>1, <3>3
      <4>2. QED BY <3>3, <4>1
    <3>4. QED BY <3>2, <3>3 DEF Sent, HearPage
  <2>3. QED BY <2>1, <2>2
<1>17. QED
  BY <1>6, <1>7, <1>8, <1>9, <1>12, <1>13, <1>14, <1>15, <1>16
  DEF AccountInv, TypeInv, PageInv, ProbeInv

\* The probe asks each old generation once.
LEMMA ProbeAsks ==
  ASSUME requests \in [Generation -> Seq(Request)], NEW sent, Sent(sent), loads \in 1..MaxLoads,
         \A g \in Legacy : \A i \in Places(requests[g]) : requests[g][i].load # loads,
         \A g \in Legacy : sent[g] = <<[op |-> "Register", load |-> loads], [op |-> "List", load |-> loads]>>
  PROVE  /\ Cardinality(Asked(loads, requests')) \in Nat
         /\ Cardinality(Asked(loads, requests')) <= Cardinality(Legacy)
         /\ Cardinality(Legacy) \in Nat
         /\ \A g \in Legacy, k \in Key : Asks(loads, requests'[g], k)
<1> DEFINE X == Asked(loads, requests')
           f == [p \in X |-> p[1]]
<1>1. ASSUME NEW g \in Legacy
      PROVE  /\ Places(sent[g]) = {1, 2} /\ sent[g][1].op = "Register"
             /\ sent[g][2] = [op |-> "List", load |-> loads] /\ Len(requests[g]) \in Nat
  <2>1. Len(sent[g]) = 2 /\ sent[g][1] = [op |-> "Register", load |-> loads]
        /\ sent[g][2] = [op |-> "List", load |-> loads]
    <3> DEFINE R == [op |-> "Register", load |-> loads]
               L == [op |-> "List", load |-> loads]
    <3>1. sent[g] = <<R, L>>
      BY Zenon
    <3> HIDE DEF R, L
    <3>2. Len(sent[g]) = 2 /\ sent[g][1] = R /\ sent[g][2] = L
      BY <3>1
    <3>3. QED BY <3>2 DEF R, L
  <2>2. 1..2 = {1, 2}
    OBVIOUS
  <2>3. requests[g] \in Seq(Request)
    BY Keys
  <2>4. QED BY <2>1, <2>2, <2>3, LenProperties DEF Places
<1>2. ASSUME NEW p \in X PROVE p = <<p[1], Len(requests[p[1]]) + 2>> /\ p[1] \in Legacy
  <2>1. AskedFrom(loads, requests, sent, requests')
    BY AskedCat DEF Sent
  <2>2. p \notin Asked(loads, requests)
    BY DEF Asked
  <2>3. /\ p = <<p[1], p[2]>> /\ p[1] \in Legacy /\ p[2] \in Nat
        /\ p[2] > Len(requests[p[1]]) /\ p[2] - Len(requests[p[1]]) \in Places(sent[p[1]])
        /\ requests'[p[1]][p[2]] = sent[p[1]][p[2] - Len(requests[p[1]])]
        /\ requests'[p[1]][p[2]].op \in {"List", "Get"}
    BY <2>1, <2>2 DEF AskedFrom
  <2>4. p[2] - Len(requests[p[1]]) \in {1, 2} /\ p[2] - Len(requests[p[1]]) # 1
    BY <1>1, <2>3
  <2>5. p[2] = Len(requests[p[1]]) + 2
    <3>1. \A m, n \in Nat : m - n = 2 => m = n + 2
      OBVIOUS
    <3>2. Len(requests[p[1]]) \in Nat
      BY <1>1, <2>3
    <3>3. QED BY <2>3, <2>4, <3>1, <3>2
  <2>6. QED BY <2>3, <2>5
<1>3. f \in [X -> Legacy] /\ \A p, q \in X : f[p] = f[q] => p = q
  BY <1>2
<1>4. f \in Injection(X, Legacy)
  <2> HIDE DEF f, X
  <2> QED BY <1>3, Fun_IsInj
<1>5. IsFiniteSet(X) /\ Cardinality(X) <= Cardinality(Legacy)
  <2> HIDE DEF f, X
  <2> QED BY <1>4, AccountAssumption, FS_Injection
<1>6. Cardinality(X) \in Nat /\ Cardinality(Legacy) \in Nat
  <2> HIDE DEF X
  <2> QED BY <1>5, AccountAssumption, FS_CardinalityType
<1>7. ASSUME NEW g \in Legacy, NEW k \in Key PROVE Asks(loads, requests'[g], k)
  <2>1. Len(requests[g]) + 2 \in Places(requests'[g]) /\ requests'[g][Len(requests[g]) + 2] = sent[g][2]
    <3>1. 2 \in Places(sent[g]) /\ g \in Generation
      BY <1>1, Keys
    <3>2. QED BY <3>1, Zenon DEF Sent
  <2>2. QED BY <1>1, <2>1 DEF Asks
<1>8. QED BY <1>5, <1>6, <1>7

\* A seed, or none and nobody to ask: nothing is sent.
LEMMA HearQuiet ==
  ASSUME AccountInv, answers[Current] # <<>>, NEW a, a = Head(answers[Current]), a.kind = "Value",
         answers' = [answers EXCEPT ![Current] = Tail(@)],
         UNCHANGED <<store, registered, attested, loads, minted, destroyed, lost, refused, nukes, haunted>>,
         page' \in Page,
         page'.socket = page.socket, page'.status = page.status, page'.FAILED = page.FAILED,
         page'.POSTING_KEY_LOADED = a.value,
         page'.ACCOUNT = IF a.value \in Seed THEN a.value ELSE None,
         page'.OUTSTANDING = page.OUTSTANDING, page'.PENDING = page.PENDING,
         Legacy = {} \/ (a.value # None /\ page'.PROBE_DONE = page.PROBE_DONE),
         send(Nothing)
  PROVE  AccountInv'
<1>1. /\ requests \in [Generation -> Seq(Request)] /\ answers \in [Generation -> Seq(Answer)]
      /\ CountInv /\ page \in Page /\ HearFacts(a)
  BY Hears DEF AccountInv, TypeInv, ProbeInv, RequestsOK, AnswersOK, RestOK
<1>2. Nothing \in [Generation -> Seq(Request)] /\ \A h \in Generation : Nothing[h] = <<>>
  BY DEF Nothing
<1>3. Sent(Nothing) /\ requests' \in [Generation -> Seq(Request)]
  BY <1>1, <1>2, Sends DEF send
<1>4. Legacy \subseteq Generation /\ Current \in Generation
  BY Keys
<1>5. HearPage(a, Nothing)
  <2>1. Places(<<>>) = {}
    BY DEF Places
  <2>2. \A g \in Legacy : Places(Nothing[g]) = {}
    BY <1>2, <1>4, <2>1
  <2>3. QED BY <1>2, <1>3, <1>4, <2>2 DEF HearPage
<1>6. requests' = requests
  BY <1>1, SendNothing
<1>7. CountInv'
  <2> SUFFICES ASSUME Open', ~page'.FAILED
               PROVE  /\ page'.OUTSTANDING >= Cardinality(Asked(loads, requests)) + Cardinality(Said(answers'))
                      /\ page'.OUTSTANDING > 0 => page'.PENDING
    BY <1>6 DEF CountInv
  <2>1. /\ page.OUTSTANDING >= Cardinality(Asked(loads, requests)) + Cardinality(Said(answers))
        /\ page.OUTSTANDING > 0 => page.PENDING
    BY <1>1 DEF CountInv, Open
  <2>2. Cardinality(Asked(loads, requests)) \in Nat /\ page.OUTSTANDING \in Int
    BY <1>1, OwedFinite DEF Page
  <2>3. /\ Cardinality(Said(answers')) \in Nat /\ Cardinality(Said(answers)) \in Nat
        /\ Cardinality(Said(answers')) <= Cardinality(Said(answers))
    <3>1. answers' \in [Generation -> Seq(Answer)]
      BY <1>1 DEF HearFacts, AnswersOK
    <3>2. answers'[Current] = Tail(answers[Current]) /\ \A h \in Generation \ {Current} : answers'[h] = answers[h]
      BY <1>1, <1>4
    <3>3. QED BY <1>1, <1>4, <3>1, <3>2, SaidTail
  <2>4. QED BY <2>1, <2>2, <2>3
<1>8. LiveInv'
  BY DEF LiveInv
<1>9. CarryInv'
  BY <1>1 DEF CarryInv, HearFacts
<1>10. QED BY <1>5, <1>7, <1>8, <1>9, HearKeeps

\* None: the probe begins.
LEMMA HearProbe ==
  ASSUME AccountInv, answers[Current] # <<>>, NEW a, a = Head(answers[Current]), a.kind = "Value",
         answers' = [answers EXCEPT ![Current] = Tail(@)],
         UNCHANGED <<store, registered, attested, loads, minted, destroyed, lost, refused, nukes, haunted>>,
         page' \in Page,
         page'.socket = page.socket, page'.status = page.status, page'.FAILED = page.FAILED,
         a.value = None, page'.POSTING_KEY_LOADED = None, page'.ACCOUNT = None,
         page'.OUTSTANDING = Cardinality(Legacy), page'.PENDING,
         send([g \in Generation |-> IF g \in Legacy THEN <<Register, List>> ELSE <<>>])
  PROVE  AccountInv'
<1> DEFINE R == [op |-> "Register", load |-> loads]
           L == [op |-> "List", load |-> loads]
           sent == [g \in Generation |-> IF g \in Legacy THEN <<R, L>> ELSE <<>>]
<1>1. /\ requests \in [Generation -> Seq(Request)] /\ answers \in [Generation -> Seq(Answer)]
      /\ page \in Page /\ HearFacts(a) /\ loads \in 1..MaxLoads
  BY Hears DEF AccountInv, TypeInv, RequestsOK, AnswersOK, RestOK
<1>2. Legacy \subseteq Generation /\ Current \in Generation /\ Current \notin Legacy
      /\ None \notin Seed /\ Generation = Legacy \cup {Current}
  BY Keys
<1>3. R \in Request /\ L \in Request
  BY <1>1 DEF Request
<1>4. R.op = "Register" /\ R \in {R, L} /\ L \in {R, L}
  OBVIOUS
<1>5. send(sent)
  BY DEF Register, List
<1>6. /\ sent \in [Generation -> Seq(Request)] /\ sent[Current] = <<>>
      /\ \A g \in Legacy : sent[g] = <<R, L>>
  <2> HIDE DEF R, L
  <2>1. <<R, L>> \in Seq(Request) /\ <<>> \in Seq(Request)
    BY <1>3
  <2>2. QED BY <1>2, <2>1
<1>7. Sent(sent) /\ requests' \in [Generation -> Seq(Request)]
  <2> HIDE DEF sent
  <2> QED BY <1>1, <1>5, <1>6, Sends DEF send
<1>8. ASSUME NEW g \in Legacy, NEW i \in Places(sent[g])
      PROVE  /\ sent[g][i] \in {R, L}
             /\ sent[g][i].op = "Register" \/ \E j \in 1..i-1 : sent[g][j].op = "Register"
  <2> HIDE DEF R, L, sent
  <2>1. sent[g] = <<R, L>>
    BY <1>6
  <2>2. i \in 1..2 /\ sent[g][1] = R /\ sent[g][2] = L
    BY <2>1 DEF Places
  <2>3. i = 1 \/ (i = 2 /\ 1 \in 1..i-1)
    BY <2>2
  <2>4. QED BY <1>4, <2>2, <2>3
<1>9. HearPage(a, sent)
  <2>1. \A g \in Legacy : \A i \in Places(sent[g]) :
          /\ sent[g][i] \in {[op |-> "Register", load |-> loads], [op |-> "List", load |-> loads]}
          /\ sent[g][i].op = "Register" \/ \E j \in 1..i-1 : sent[g][j].op = "Register"
    BY <1>8
  <2> HIDE DEF sent
  <2>2. QED BY <1>2, <1>6, <1>7, <2>1 DEF HearPage
<1>10. /\ Cardinality(Asked(loads, requests')) \in Nat
       /\ Cardinality(Asked(loads, requests')) <= Cardinality(Legacy)
       /\ Cardinality(Legacy) \in Nat
       /\ \A g \in Legacy, k \in Key : Asks(loads, requests'[g], k)
  <2>1. \A g \in Legacy : sent[g] = <<[op |-> "Register", load |-> loads], [op |-> "List", load |-> loads]>>
    BY <1>6
  <2>2. \A g \in Legacy : \A i \in Places(requests[g]) : requests[g][i].load # loads
    BY <1>1 DEF HearFacts
  <2> HIDE DEF sent
  <2>3. QED BY <1>1, <1>7, <2>1, <2>2, ProbeAsks
<1>11. CountInv'
  <2>1. Said(answers') = {}
    <3>1. Places(<<>>) = {}
      BY DEF Places
    <3>2. QED BY <1>1, <3>1 DEF Said, HearFacts
  <2>2. Cardinality(Said(answers')) = 0
    BY <2>1, FS_EmptySet
  <2>3. page'.OUTSTANDING >= Cardinality(Asked(loads, requests')) + Cardinality(Said(answers'))
    BY <1>10, <2>2
  <2>4. QED BY <2>3 DEF CountInv
<1>12. \A g \in Legacy, k \in Key : Tells(g, k)'
  BY <1>10 DEF Tells
<1>13. LiveInv' /\ CarryInv'
  BY <1>12, Keys DEF LiveInv, CarryInv
<1>14. QED
  <2> HIDE DEF sent
  <2> QED BY <1>9, <1>11, <1>13, HearKeeps

\* What the page does about either.
LEMMA ValueKeeps ==
  ASSUME AccountInv, Dispatch(Current), Head(answers[Current]).kind = "Value"
  PROVE  AccountInv'
<1> DEFINE a == Head(answers[Current])
           told == [page EXCEPT !.POSTING_KEY_LOADED = a.value]
           shown == [told EXCEPT !.ACCOUNT = a.value]
           done == [told EXCEPT !.PROBE_DONE = TRUE]
           n == Cardinality(Legacy)
           b == page.ACK_BUDGET + n
           ts == page.timers \cup {"ceiling"}
           begun == [done EXCEPT !.PENDING = TRUE, !.OUTSTANDING = n, !.ACK_BUDGET = b, !.timers = ts]
           asks == [g \in Generation |-> IF g \in Legacy THEN <<Register, List>> ELSE <<>>]
<1>1. /\ answers[Current] # <<>> /\ answers' = [answers EXCEPT ![Current] = Tail(@)]
      /\ UNCHANGED <<store, registered, attested, loads, minted, destroyed, lost, refused, nukes, haunted>>
      /\ page \in Page /\ None \notin Seed
  BY Keys DEF Dispatch, AccountInv, TypeInv, RestOK
<1>2. a.kind = "Value" /\ HearFacts(a)
  BY <1>1, Hears
<1>3. /\ a.key = "posting_key" /\ a.value \in Seed \cup {None} /\ page.ACCOUNT = None /\ ~page.PROBE_DONE
  BY <1>2 DEF HearFacts
<1>4. page' = resume_or_probe(told).page /\ send(resume_or_probe(told).sent)
  <2>1. page' = dispatch(Current, a).page /\ send(dispatch(Current, a).sent)
    BY DEF Dispatch
  <2> HIDE DEF a
  <2>2. dispatch(Current, a) = resume_or_probe(told)
    BY <1>2, <1>3 DEF dispatch, dispatch_kv
  <2>3. QED BY <2>1, <2>2
<1> HIDE DEF a
<1>5. /\ told \in Page /\ told.POSTING_KEY_LOADED = a.value /\ told.ACCOUNT = None /\ ~told.PROBE_DONE
      /\ told.socket = page.socket /\ told.status = page.status /\ told.FAILED = page.FAILED
      /\ told.OUTSTANDING = page.OUTSTANDING /\ told.PENDING = page.PENDING
      /\ told.PROBE_DONE = page.PROBE_DONE /\ told.ACK_BUDGET = page.ACK_BUDGET
      /\ told.timers = page.timers
  BY <1>1, <1>3 DEF Page
<1> HIDE DEF told
<1>6. CASE a.value \in Seed
  <2>1. shown = [told EXCEPT !.ACCOUNT = told.POSTING_KEY_LOADED]
    BY <1>5
  <2>2. page' = shown /\ send(Nothing)
    BY <1>4, <1>5, <1>6, <2>1, Resumed, Zenon
  <2>3. /\ shown \in Page /\ shown.POSTING_KEY_LOADED = a.value /\ shown.ACCOUNT = a.value
        /\ shown.socket = page.socket /\ shown.status = page.status /\ shown.FAILED = page.FAILED
        /\ shown.OUTSTANDING = page.OUTSTANDING /\ shown.PENDING = page.PENDING
        /\ shown.PROBE_DONE = page.PROBE_DONE
    BY <1>5, <1>6 DEF Page
  <2> HIDE DEF shown
  <2>4. QED BY <1>1, <1>2, <1>6, <2>2, <2>3, HearQuiet DEF a
<1>7. CASE a.value = None /\ Legacy = {}
  <2>1. begin_legacy_probe(told) = [page |-> done, sent |-> Nothing]
    BY <1>7 DEF begin_legacy_probe, suppress_legacy_probe
  <2>2. /\ done \in Page /\ done.POSTING_KEY_LOADED = a.value /\ done.ACCOUNT = None
        /\ done.socket = page.socket /\ done.status = page.status /\ done.FAILED = page.FAILED
        /\ done.OUTSTANDING = page.OUTSTANDING /\ done.PENDING = page.PENDING
    BY <1>5 DEF Page
  <2> HIDE DEF done
  <2>3. resume_or_probe(told) = begin_legacy_probe(told)
    BY <1>5, <1>7, Resumed
  <2>4. page' = done /\ send(Nothing)
    BY <1>4, <2>1, <2>3
  <2>5. QED BY <1>1, <1>2, <1>7, <2>2, <2>4, HearQuiet DEF a
<1>8. CASE a.value = None /\ Legacy # {}
  <2>0. n \in Nat
    BY AccountAssumption, FS_CardinalityType
  <2>1. begin_legacy_probe(told) = [page |-> begun, sent |-> asks]
    <3>1. b = told.ACK_BUDGET + Cardinality(Legacy) /\ ts = told.timers \cup {"ceiling"}
      BY <1>5
    <3> HIDE DEF b, ts, asks
    <3>2. begun = [suppress_legacy_probe(told) EXCEPT !.PENDING = TRUE, !.OUTSTANDING = Cardinality(Legacy),
                     !.ACK_BUDGET = told.ACK_BUDGET + Cardinality(Legacy), !.timers = told.timers \cup {"ceiling"}]
      BY <3>1, Zenon DEF suppress_legacy_probe
    <3>3. suppress_legacy_probe(told).ACK_BUDGET = told.ACK_BUDGET /\ suppress_legacy_probe(told).timers = told.timers
      BY <1>5 DEF suppress_legacy_probe, Page
    <3> HIDE DEF begun
    <3>4. begin_legacy_probe(told).page = begun /\ begin_legacy_probe(told).sent = asks
          /\ DOMAIN begin_legacy_probe(told) = {"page", "sent"}
      BY <1>5, <1>8, <3>2, <3>3 DEF begin_legacy_probe, asks
    <3>5. QED BY <1>5, <1>8, <3>2, <3>3, Zenon DEF begin_legacy_probe, asks
  <2>2. b \in Int /\ ts \subseteq {"watchdog", "ceiling"}
    BY <1>1, <2>0 DEF Page
  <2>3. /\ done \in Page /\ done.POSTING_KEY_LOADED = a.value /\ done.ACCOUNT = None
        /\ done.socket = page.socket /\ done.status = page.status /\ done.FAILED = page.FAILED
    BY <1>5 DEF Page
  <2> HIDE DEF done, n, b, ts
  <2>4. /\ begun \in Page /\ begun.POSTING_KEY_LOADED = a.value /\ begun.ACCOUNT = None
        /\ begun.socket = page.socket /\ begun.status = page.status /\ begun.FAILED = page.FAILED
        /\ begun.OUTSTANDING = n /\ begun.PENDING
    <3> DEFINE asked == [done EXCEPT !.PENDING = TRUE, !.OUTSTANDING = n]
    <3>1. n \in Int
      BY <2>0
    <3>2. /\ asked \in Page /\ asked.POSTING_KEY_LOADED = a.value /\ asked.ACCOUNT = None
          /\ asked.socket = page.socket /\ asked.status = page.status /\ asked.FAILED = page.FAILED
          /\ asked.OUTSTANDING = n /\ asked.PENDING
      <4> HIDE DEF begun
      <4> QED BY <2>3, <3>1 DEF Page
    <3>3. begun = [asked EXCEPT !.ACK_BUDGET = b, !.timers = ts]
      BY Zenon
    <3> HIDE DEF asked, begun
    <3>4. QED BY <2>2, <3>2, <3>3 DEF Page
  <2> HIDE DEF begun, asks
  <2>5. resume_or_probe(told) = begin_legacy_probe(told)
    BY <1>5, <1>8, Resumed
  <2>6. page' = begun /\ send(asks)
    BY <1>4, <2>1, <2>5
  <2>7. QED BY <1>1, <1>2, <1>8, <2>4, <2>6, HearProbe DEF a, n, asks
<1>9. QED BY <1>3, <1>6, <1>7, <1>8

\* An answer reaches the page.
LEMMA DispatchKeeps ==
  ASSUME AccountInv, NEW g \in Generation, Dispatch(g)
  PROVE  AccountInv'
<1> DEFINE a == Head(answers[g])
<1>1. Answerable(g, a, registered, minted)
  <2>1. AnswersOK /\ answers[g] # <<>> /\ answers' = [answers EXCEPT ![g] = Tail(@)]
        /\ UNCHANGED <<registered, minted>>
    BY DEF AccountInv, TypeInv, Dispatch
  <2>2. QED BY <2>1, Heard
<1>2. a.kind \in {"Empty", "Value", "KeyList"} /\ (g = Current => a.kind # "KeyList")
  <2> HIDE DEF a
  <2> QED BY <1>1, AnswerShape DEF Answerable
<1>3. CASE a.kind = "Empty"
  BY <1>3, EmptyKeeps
<1>4. CASE a.kind = "Value" /\ g = Current
  BY <1>4, ValueKeeps
<1>5. CASE a.kind = "Value" /\ g # Current
  BY <1>5, OldValueKeeps, Keys
<1>6. CASE a.kind = "KeyList"
  BY <1>2, <1>6, KeyListKeeps, Keys
<1>7. QED BY <1>2, <1>3, <1>4, <1>5, <1>6

-----------------------------------------------------------------------------
(* The user *)

\* What the screen says about the page.
LEMMA Screens ==
  ASSUME AccountInv
  PROVE  /\ gate = "App" => page.ACCOUNT # None /\ page.ACCOUNT \in minted /\ ~Unheard
         /\ gate = "Onboarding" /\ Open =>
              page.ACCOUNT = None /\ page.POSTING_KEY_LOADED = None /\ ~page.PENDING /\ ~Unheard
<1>1. ScreenInv /\ page \in Page /\ minted \subseteq Seed
  BY DEF AccountInv, TypeInv, PageInv, RestOK
<1>2. None \notin Seed /\ Unanswered \notin Seed /\ Unanswered # None
  BY Keys
<1> DEFINE on == page.ACCOUNT # None
           await == page.POSTING_KEY_LOADED = Unanswered \/ page.PENDING
           late == page.KEY_STORE_UNREACHABLE
           live == page.status = "Connected"
<1>3. gate = account_gate(on, await, late, live)
  BY DEF gate
<1>4. page.KEY_STORE_UNREACHABLE \in BOOLEAN /\ page.PENDING \in BOOLEAN
  BY <1>1 DEF Page
<1>5. on \in BOOLEAN /\ await \in BOOLEAN /\ late \in BOOLEAN /\ live \in BOOLEAN
  BY <1>4
<1>6. (gate = "App" => on) /\ (gate = "Onboarding" => ~on /\ ~(await /\ live))
  <2> HIDE DEF on, await, late, live
  <2> QED BY <1>3, <1>5 DEF account_gate
<1>7. gate = "App" => page.ACCOUNT # None /\ page.ACCOUNT \in minted /\ ~Unheard
  BY <1>1, <1>2, <1>6 DEF ScreenInv, Unheard
<1>8. gate = "Onboarding" /\ Open =>
        page.ACCOUNT = None /\ page.POSTING_KEY_LOADED = None /\ ~page.PENDING /\ ~Unheard
  <2> SUFFICES ASSUME gate = "Onboarding", Open
               PROVE  page.ACCOUNT = None /\ page.POSTING_KEY_LOADED = None /\ ~page.PENDING /\ ~Unheard
    OBVIOUS
  <2>1. ~on /\ ~await
    BY <1>1, <1>6 DEF ScreenInv
  <2>2. page.POSTING_KEY_LOADED \in Seed \cup {None, Unanswered}
    BY <1>1 DEF Page
  <2>3. QED BY <1>1, <1>2, <2>1, <2>2 DEF ScreenInv, Unheard
<1>9. QED BY <1>7, <1>8

\* What is asked and told depends on the queues of the old generations.
LEMMA OldQueues ==
  ASSUME \A h \in Legacy : requests'[h] = requests[h] /\ answers'[h] = answers[h], loads' = loads
  PROVE  /\ Asked(loads', requests') = Asked(loads, requests) /\ Said(answers') = Said(answers)
         /\ \A h \in Legacy, k \in Key : Tells(h, k)' <=> Tells(h, k)
<1>1. Asked(loads', requests') = Asked(loads, requests)
  <2>1. \A p \in Legacy \X Nat : p[1] \in Legacy
    OBVIOUS
  <2>2. QED BY <2>1 DEF Asked
<1>2. Said(answers') = Said(answers)
  <2>1. \A p \in Legacy \X Nat : p[1] \in Legacy
    OBVIOUS
  <2>2. QED BY <2>1 DEF Said
<1>3. \A h \in Legacy, k \in Key : Tells(h, k)' <=> Tells(h, k)
  BY DEF Tells
<1>4. QED BY <1>1, <1>2, <1>3

\* A seed is created or restored: it is stored, and no seed is stranded.
LEMMA SettleKeeps ==
  ASSUME AccountInv, NEW s \in Seed, gate = "Onboarding", page.socket = "open",
         send(To(Current, <<Store("posting_key", s)>>)),
         page' = [page EXCEPT !.ACCOUNT = s, !.POSTING_KEY_LOADED = s],
         minted' = minted \cup {s}, destroyed' = destroyed \ {s},
         UNCHANGED <<store, registered, attested, answers, loads, lost, refused, nukes, haunted>>
  PROVE  AccountInv'
<1> DEFINE c == [op |-> "Store", key |-> "posting_key", value |-> s, load |-> loads]
           sent == [Nothing EXCEPT ![Current] = <<c>>]
<1>1. /\ StoreOK /\ RequestsOK /\ AnswersOK /\ RestOK
      /\ ScreenInv /\ UnheardInv /\ HeardInv /\ AnswerInv
      /\ AccountIsStored /\ NukeIsFinal /\ WipeInv
      /\ CountInv /\ HeldInv /\ LiveInv /\ DeleteInv /\ CarryInv
      /\ requests \in [Generation -> Seq(Request)] /\ answers \in [Generation -> Seq(Answer)]
      /\ page \in Page /\ loads \in 1..MaxLoads /\ destroyed \subseteq minted /\ minted \subseteq Seed
  BY DEF AccountInv, TypeInv, PageInv, ProbeInv, RequestsOK, AnswersOK, RestOK
<1>2. /\ Current \in Generation /\ Legacy \subseteq Generation /\ Current \notin Legacy
      /\ "posting_key" \in Key /\ None \notin Seed /\ Unanswered \notin Seed /\ Open
  BY Keys DEF Open
<1>3. page.ACCOUNT = None /\ page.POSTING_KEY_LOADED = None /\ ~page.PENDING /\ ~Unheard
  BY <1>2, Screens
<1>4. c \in Request /\ c.op = "Store" /\ c.key = "posting_key" /\ c.value = s /\ c.load = loads
  BY <1>1, <1>2, RequestsMade DEF Value
<1>5. send(sent)
  BY DEF To, Store
<1> HIDE DEF c
<1>6. /\ OneStore(sent, c) /\ sent \in [Generation -> Seq(Request)]
  <2>1. /\ sent[Current] = <<c>> /\ \A h \in Generation \ {Current} : sent[h] = <<>>
        /\ sent = [h \in Generation |-> IF h = Current THEN <<c>> ELSE <<>>]
    BY <1>2 DEF Nothing
  <2>2. <<>> \in Seq(Request) /\ <<c>> \in Seq(Request)
    BY <1>4
  <2> HIDE DEF sent
  <2>3. QED BY <1>4, <2>1, <2>2 DEF OneStore
<1> HIDE DEF sent
<1>7. Sent(sent) /\ requests' \in [Generation -> Seq(Request)]
  BY <1>1, <1>5, <1>6, Sends DEF send
<1>8. /\ \A h \in Generation, k \in Key :
           WillHold(h, k)' = IF h = Current /\ k = "posting_key" THEN s ELSE WillHold(h, k)
      /\ \A h \in Generation : \A i \in Places(sent[h]) : h = Current /\ i = 1 /\ sent[h][i] = c
      /\ \A h \in Generation \ {Current} : requests'[h] = requests[h]
  <2>1. /\ \A h \in Generation, k \in Key :
              WillHold(h, k)' = IF h = Current /\ k = c.key THEN c.value ELSE WillHold(h, k)
        /\ \A h \in Generation : \A i \in Places(sent[h]) : h = Current /\ i = 1 /\ sent[h][i] = c
        /\ \A h \in Generation \ {Current} : requests'[h] = requests[h]
    BY <1>1, <1>6, <1>7, StoreSent
  <2>2. QED BY <1>4, <2>1
<1>9. /\ page'.ACCOUNT = s /\ page'.POSTING_KEY_LOADED = s /\ page' \in Page
      /\ page'.socket = page.socket /\ page'.status = page.status /\ page'.FAILED = page.FAILED
      /\ page'.OUTSTANDING = page.OUTSTANDING /\ page'.PENDING = page.PENDING
      /\ page'.PROBE_DONE = page.PROBE_DONE
  BY <1>1 DEF Page
<1>10. ~Unheard' /\ Open'
  BY <1>2, <1>9 DEF Unheard, Open
<1>11. \A i \in Places(requests'[Current]) :
         \/ i \in Places(requests[Current]) /\ requests'[Current][i] = requests[Current][i]
         \/ requests'[Current][i] = c
  <2> TAKE i \in Places(requests'[Current])
  <2>1. \/ i \in Places(requests[Current]) /\ requests'[Current][i] = requests[Current][i]
        \/ /\ i > Len(requests[Current]) /\ i - Len(requests[Current]) \in Places(sent[Current])
           /\ requests'[Current][i] = sent[Current][i - Len(requests[Current])]
    BY <1>2, <1>7 DEF Sent
  <2>2. \A j \in Places(sent[Current]) : sent[Current][j] = c
    BY <1>2, <1>8
  <2>3. QED BY <2>1, <2>2
<1>12. StoreOK' /\ AnswersOK' /\ RestOK'
  <2>1. StoreOK'
    BY <1>1 DEF StoreOK
  <2>2. AnswersOK'
    BY <1>1 DEF AnswersOK, Answerable
  <2>3. RestOK'
    BY <1>1, <1>9 DEF RestOK
  <2>4. QED BY <2>1, <2>2, <2>3
<1>13. RequestsOK'
  <2>1. SentOK(sent)
    <3>1. attested[loads] /\ Current \in registered /\ loads <= loads
      BY <1>1, <1>2, <1>3 DEF HeardInv
    <3>2. QED BY <1>4, <1>8, <3>1 DEF SentOK, Sendable
  <2>2. loads \in Nat /\ loads' \in Nat /\ loads <= loads'
    BY <1>1, AccountAssumption
  <2>3. minted \subseteq minted'
    OBVIOUS
  <2>4. QED BY <1>1, <1>7, <2>1, <2>2, <2>3, SentTypes
<1>14. ScreenInv'
  BY <1>1, <1>2, <1>9, <1>10 DEF ScreenInv
<1>15. UnheardInv' /\ AnswerInv'
  BY <1>1, <1>3, <1>10 DEF UnheardInv, AnswerInv
<1>16. HeardInv'
  BY <1>1, <1>2, <1>3, <1>4, <1>11 DEF HeardInv
<1>17. AccountIsStored'
  BY <1>2, <1>8, <1>9 DEF AccountIsStored
<1>18. NukeIsFinal'
  BY <1>1, <1>2, <1>8, <1>9 DEF NukeIsFinal, Wiped
<1>19. WipeInv'
  BY <1>1, <1>2, <1>8 DEF WipeInv, Wiped
<1>20. \A h \in Legacy : requests'[h] = requests[h] /\ answers'[h] = answers[h]
  BY <1>2, <1>8
<1>21. /\ Asked(loads', requests') = Asked(loads, requests) /\ Said(answers') = Said(answers)
       /\ \A h \in Legacy, k \in Key : Tells(h, k)' <=> Tells(h, k)
  BY <1>20, OldQueues
<1>22. CountInv'
  BY <1>1, <1>2, <1>9, <1>21 DEF CountInv
<1>23. HeldInv'
  <2> SUFFICES /\ store[Current]["posting_key"] \in destroyed' \cup {None, s}
               /\ \A i \in Places(requests'[Current]) :
                    requests'[Current][i].op = "Store" /\ requests'[Current][i].key = "posting_key" =>
                      requests'[Current][i].value \in destroyed' \cup {s}
    BY <1>9 DEF HeldInv
  <2>1. /\ store[Current]["posting_key"] \in destroyed \cup {None}
        /\ \A i \in Places(requests[Current]) :
             requests[Current][i].op = "Store" /\ requests[Current][i].key = "posting_key" =>
               requests[Current][i].value \in destroyed \cup {None}
    BY <1>1, <1>3 DEF HeldInv
  <2>2. \A i \in Places(requests[Current]) :
             requests[Current][i].op = "Store" /\ requests[Current][i].key = "posting_key" =>
               requests[Current][i].value \in minted
    BY <1>1, <1>2 DEF RequestsOK, Sendable
  <2>3. QED BY <1>1, <1>2, <1>4, <1>11, <2>1, <2>2
<1>24. LiveInv'
  BY <1>2, <1>9 DEF LiveInv
<1>25. DeleteInv'
  <2> SUFFICES ASSUME nukes = 0, NEW h \in Generation, NEW i \in Places(requests'[h])
               PROVE  requests'[h][i].op # "Delete"
    BY DEF DeleteInv
  <2>1. CASE h = Current
    BY <1>1, <1>2, <1>4, <1>11, <2>1 DEF DeleteInv
  <2>2. CASE h # Current
    BY <1>1, <1>8, <2>2 DEF DeleteInv
  <2>3. QED BY <2>1, <2>2
<1>26. CarryInv'
  BY <1>1, <1>2, <1>8, <1>9, <1>21 DEF CarryInv
<1>27. QED
  BY <1>12, <1>13, <1>14, <1>15, <1>16, <1>17, <1>18, <1>19, <1>22, <1>23, <1>24, <1>25, <1>26
  DEF AccountInv, TypeInv, PageInv, ProbeInv

\* What a nuke sends: the wipe of every generation, the last thing it is sent.
LEMMA WipeSent ==
  ASSUME StoreOK, RestOK, requests \in [Generation -> Seq(Request)], store' = store,
         send([g \in Generation |-> wipe_legacy_seeds[g] \o Nothing[g]])
  PROVE  \E sent :
           /\ Sent(sent) /\ requests' \in [Generation -> Seq(Request)]
           /\ \A h \in Generation : WillHold(h, "posting_key")' = None
           /\ \A h \in Generation : \A i \in Places(sent[h]) :
                /\ sent[h][i] \in Request /\ sent[h][i].load = loads
                /\ sent[h][i].op \in {"Register", "Delete"}
                /\ sent[h][i].op = "Delete" => sent[h][i].key = "posting_key"
                /\ \/ sent[h][i].op = "Register" \/ h = Current
                   \/ \E j \in 1..i-1 : sent[h][j].op = "Register"
<1> DEFINE R == [op |-> "Register", load |-> loads]
           D == [op |-> "Delete", key |-> "posting_key", load |-> loads]
           sent == [h \in Generation |-> IF h \in Legacy THEN <<R, D>> ELSE <<D>>]
<1>1. /\ loads \in 1..MaxLoads /\ "posting_key" \in Key
      /\ Current \in Generation /\ Generation = Legacy \cup {Current} /\ Current \notin Legacy
  BY Keys DEF RestOK
<1>2. R \in Request /\ D \in Request
  BY <1>1 DEF Request
<1>3. /\ R.op = "Register" /\ R.load = loads
      /\ D.op = "Delete" /\ D.key = "posting_key" /\ D.load = loads
  OBVIOUS
<1>4. wipe_legacy_seeds = sent
  BY DEF wipe_legacy_seeds, Register, Delete
<1> HIDE DEF R, D
<1>5. /\ <<R, D>> \in Seq(Request) /\ <<D>> \in Seq(Request)
  BY <1>2
<1>6. sent \in [Generation -> Seq(Request)]
  BY <1>5
<1>7. /\ \A h \in Legacy : sent[h] = <<R, D>>
      /\ sent[Current] = <<D>>
  BY <1>1
<1> HIDE DEF sent
<1>8. requests' = [h \in Generation |-> requests[h] \o sent[h]]
  <2>1. \A h \in Generation : sent[h] \o <<>> = sent[h]
    BY <1>6, ConcatEmptySeq
  <2>2. \A h \in Generation : wipe_legacy_seeds[h] \o Nothing[h] = sent[h]
    BY <1>4, <2>1 DEF Nothing
  <2>3. requests' = [h \in Generation |-> requests[h]
                       \o [g \in Generation |-> wipe_legacy_seeds[g] \o Nothing[g]][h]]
    BY DEF send
  <2>4. \A h \in Generation : [g \in Generation |-> wipe_legacy_seeds[g] \o Nothing[g]][h] = sent[h]
    BY <2>2
  <2>5. QED BY <2>3, <2>4
<1>9. Sent(sent) /\ requests' \in [Generation -> Seq(Request)]
  BY <1>6, <1>8, Sends
<1>10. ASSUME NEW h \in Legacy
       PROVE  Places(sent[h]) = {1, 2} /\ sent[h][1] = R /\ sent[h][2] = D
  <2>0. sent[h] = <<R, D>>
    BY <1>7, Zenon
  <2>1. Len(sent[h]) = 2 /\ sent[h][1] = R /\ sent[h][2] = D
    BY <2>0
  <2>2. 1..2 = {1, 2}
    OBVIOUS
  <2>3. QED BY <2>1, <2>2 DEF Places
<1>11. Places(sent[Current]) = {1} /\ sent[Current][1] = D
  <2>1. Len(sent[Current]) = 1 /\ sent[Current][1] = D
    BY <1>7
  <2>2. 1..1 = {1}
    OBVIOUS
  <2>3. QED BY <2>1, <2>2 DEF Places
<1>12. ASSUME NEW h \in Generation PROVE WillHold(h, "posting_key")' = None
  <2>1. \A i \in Writes(sent[h], "posting_key") : (\A j \in Writes(sent[h], "posting_key") : j <= i)
             => WillHold(h, "posting_key")' = handle_store(store[h], sent[h][i])["posting_key"]
    BY <1>9, SentHold
  <2>2. handle_store(store[h], D)["posting_key"] = None
    <3>1. store[h] \in [Key -> Value \cup {None}]
      BY DEF StoreOK
    <3>2. QED BY <1>1, <1>2, <1>3, <3>1, HandleWrite
  <2>3. CASE h = Current
    <3>1. Writes(sent[h], "posting_key") = {1}
      BY <1>3, <1>11, <2>3 DEF Writes, Places
    <3>2. 1 \in Writes(sent[h], "posting_key") /\ \A j \in Writes(sent[h], "posting_key") : j <= 1
      BY <3>1
    <3>3. WillHold(h, "posting_key")' = handle_store(store[h], sent[h][1])["posting_key"]
      BY <2>1, <3>2
    <3>4. sent[h][1] = D
      BY <1>11, <2>3
    <3>5. QED BY <2>2, <3>3, <3>4
  <2>4. CASE h \in Legacy
    <3>1. Writes(sent[h], "posting_key") = {2}
      BY <1>3, <1>10, <2>4 DEF Writes, Places
    <3>2. 2 \in Writes(sent[h], "posting_key") /\ \A j \in Writes(sent[h], "posting_key") : j <= 2
      BY <3>1
    <3>3. WillHold(h, "posting_key")' = handle_store(store[h], sent[h][2])["posting_key"]
      BY <2>1, <3>2
    <3>4. sent[h][2] = D
      BY <1>10, <2>4
    <3>5. QED BY <2>2, <3>3, <3>4
  <2>5. QED BY <1>1, <2>3, <2>4
<1>13. ASSUME NEW h \in Generation, NEW i \in Places(sent[h])
       PROVE  /\ sent[h][i] \in Request /\ sent[h][i].load = loads
              /\ sent[h][i].op \in {"Register", "Delete"}
              /\ sent[h][i].op = "Delete" => sent[h][i].key = "posting_key"
              /\ \/ sent[h][i].op = "Register" \/ h = Current
                 \/ \E j \in 1..i-1 : sent[h][j].op = "Register"
  <2>1. CASE h = Current
    BY <1>2, <1>3, <1>11, <2>1
  <2>2. CASE h \in Legacy
    <3>1. 1 \in 1..2-1
      OBVIOUS
    <3>2. QED BY <1>2, <1>3, <1>10, <2>2, <3>1
  <2>3. QED BY <1>1, <2>1, <2>2
<1>14. QED BY <1>9, <1>12, <1>13

\* The page after a nuke.
WipedPage ==
  /\ page' \in Page
  /\ page'.socket = page.socket /\ page'.status = page.status /\ page'.FAILED = page.FAILED
  /\ page'.OUTSTANDING = page.OUTSTANDING /\ page'.PENDING = page.PENDING
  /\ page'.ACCOUNT = None /\ page'.POSTING_KEY_LOADED = None

\* An account is destroyed: every generation is wiped, and what they hold is
\* destroyed with it.
LEMMA NukeOpenKeeps ==
  ASSUME AccountInv, gate = "App", page.socket = "open", nukes' = nukes + 1, WipedPage,
         send([g \in Generation |-> wipe_legacy_seeds[g] \o Nothing[g]]),
         destroyed' = destroyed \cup {page.ACCOUNT}
               \cup ({store[g]["posting_key"] : g \in Generation} \ {None}),
         haunted' = (haunted \/ \E g \in Legacy : SeedUnderWay(g)),
         UNCHANGED <<store, registered, attested, answers, loads, minted, lost, refused>>
  PROVE  AccountInv'
<1>1. /\ StoreOK /\ RequestsOK /\ AnswersOK /\ RestOK
      /\ ScreenInv /\ UnheardInv /\ HeardInv /\ AnswerInv
      /\ AccountIsStored /\ NukeIsFinal /\ WipeInv
      /\ CountInv /\ HeldInv
      /\ requests \in [Generation -> Seq(Request)] /\ answers \in [Generation -> Seq(Answer)]
      /\ page \in Page /\ loads \in 1..MaxLoads /\ destroyed \subseteq minted /\ minted \subseteq Seed
      /\ nukes \in Nat /\ haunted \in BOOLEAN
  BY DEF AccountInv, TypeInv, PageInv, ProbeInv, RequestsOK, AnswersOK, RestOK
<1>2. /\ Current \in Generation /\ Legacy \subseteq Generation /\ Current \notin Legacy
      /\ "posting_key" \in Key /\ None \notin Seed /\ Unanswered # None /\ Open
  BY Keys DEF Open
<1>3. page.ACCOUNT # None /\ page.ACCOUNT \in minted /\ ~Unheard
  BY Screens
<1>4. PICK sent :
        /\ Sent(sent) /\ requests' \in [Generation -> Seq(Request)]
        /\ \A h \in Generation : WillHold(h, "posting_key")' = None
        /\ \A h \in Generation : \A i \in Places(sent[h]) :
             /\ sent[h][i] \in Request /\ sent[h][i].load = loads
             /\ sent[h][i].op \in {"Register", "Delete"}
             /\ sent[h][i].op = "Delete" => sent[h][i].key = "posting_key"
             /\ \/ sent[h][i].op = "Register" \/ h = Current
                \/ \E j \in 1..i-1 : sent[h][j].op = "Register"
  BY <1>1, WipeSent
<1>5. ~Unheard' /\ Open'
  BY <1>2 DEF WipedPage, Unheard, Open
<1>6. destroyed' \subseteq minted /\ destroyed \subseteq destroyed' /\ None \notin destroyed'
  BY <1>1, <1>2, <1>3 DEF StoreOK
<1>7. StoreOK' /\ AnswersOK' /\ RestOK'
  <2>1. StoreOK' /\ AnswersOK'
    BY <1>1 DEF StoreOK, AnswersOK
  <2>2. haunted' \in BOOLEAN /\ nukes' \in Nat
    BY <1>1
  <2>3. QED BY <1>1, <1>6, <2>1, <2>2 DEF RestOK, WipedPage
<1>8. RequestsOK'
  <2>1. SentOK(sent)
    <3>1. attested[loads] /\ Current \in registered /\ loads <= loads
      BY <1>1, <1>2, <1>3 DEF HeardInv
    <3>2. ASSUME NEW h \in Generation, NEW i \in Places(sent[h])
          PROVE  Sendable(h, sent[h][i], loads, attested, minted)
      BY <1>4, <3>1 DEF Sendable
    <3>3. QED BY <1>4, <3>1, <3>2 DEF SentOK
  <2>2. loads \in Nat /\ loads' \in Nat /\ loads <= loads'
    BY <1>1, AccountAssumption
  <2>3. QED BY <1>1, <1>4, <2>1, <2>2, SentTypes
<1>9. ScreenInv'
  BY <1>1, <1>2, <1>5 DEF ScreenInv, WipedPage
<1>10. \A h \in Generation : \A i \in Places(requests'[h]) :
         \/ i \in Places(requests[h]) /\ requests'[h][i] = requests[h][i]
         \/ requests'[h][i].op \in {"Register", "Delete"}
  <2> TAKE h \in Generation
  <2> TAKE i \in Places(requests'[h])
  <2>1. \/ i \in Places(requests[h]) /\ requests'[h][i] = requests[h][i]
        \/ /\ i > Len(requests[h]) /\ i - Len(requests[h]) \in Places(sent[h])
           /\ requests'[h][i] = sent[h][i - Len(requests[h])]
    BY <1>4 DEF Sent
  <2>2. \A j \in Places(sent[h]) : sent[h][j].op \in {"Register", "Delete"}
    BY <1>4
  <2>3. QED BY <2>1, <2>2
<1>11. UnheardInv' /\ AnswerInv'
  BY <1>1, <1>3, <1>5 DEF UnheardInv, AnswerInv
<1>12. HeardInv'
  BY <1>1, <1>2, <1>3, <1>10 DEF HeardInv
<1>13. AccountIsStored' /\ NukeIsFinal'
  BY <1>4, <1>6 DEF AccountIsStored, NukeIsFinal, WipedPage, Wiped
<1>14. WipeInv'
  <2> SUFFICES ASSUME ~lost, ~haunted', "Delete" \notin refused, NEW h \in Legacy
               PROVE  /\ \A i \in Places(answers[h]) :
                           IsSeed(answers[h][i]) => answers[h][i].value \notin destroyed'
                      /\ \A i \in Places(requests'[h]) :
                           /\ requests'[h][i].op = "Get" /\ requests'[h][i].key = "posting_key"
                           /\ \A j \in 1..i-1 : requests'[h][j].op # "Delete"
                           => store[h]["posting_key"] \notin destroyed'
    BY DEF WipeInv, Wiped
  <2>1. ~SeedUnderWay(h)
    OBVIOUS
  <2>2. ASSUME NEW i \in Places(answers[h]), IsSeed(answers[h][i])
        PROVE  answers[h][i].value \notin destroyed'
    BY <1>6, <2>1, <2>2 DEF SeedUnderWay, IsSeed, Places
  <2>3. ASSUME NEW i \in Places(requests'[h]), requests'[h][i].op = "Get",
               requests'[h][i].key = "posting_key"
        PROVE  store[h]["posting_key"] \notin destroyed'
    <3>1. i \in Places(requests[h]) /\ requests'[h][i] = requests[h][i]
      BY <1>2, <1>10, <2>3
    <3>2. QED BY <1>6, <2>1, <2>3, <3>1 DEF SeedUnderWay, Places
  <2>4. QED BY <2>2, <2>3
<1>15. CountInv'
  <2> SUFFICES ASSUME ~page'.FAILED
               PROVE  /\ page'.OUTSTANDING >= Cardinality(Asked(loads, requests')) + Cardinality(Said(answers))
                      /\ page'.OUTSTANDING > 0 => page'.PENDING
    BY DEF CountInv
  <2>1. /\ page.OUTSTANDING >= Cardinality(Asked(loads, requests)) + Cardinality(Said(answers))
        /\ page.OUTSTANDING > 0 => page.PENDING
    BY <1>1, <1>2 DEF CountInv, WipedPage
  <2>2. /\ Cardinality(Asked(loads, requests')) \in Nat /\ Cardinality(Asked(loads, requests)) \in Nat
        /\ Cardinality(Asked(loads, requests')) <= Cardinality(Asked(loads, requests))
    <3>1. \A h \in Legacy : \A i \in Places(sent[h]) :
            ~(sent[h][i].op \in {"List", "Get"} /\ sent[h][i].load = loads)
      BY <1>2, <1>4
    <3>2. sent \in [Generation -> Seq(Request)] /\ \A h \in Generation : requests'[h] = requests[h] \o sent[h]
      BY <1>4 DEF Sent
    <3>3. QED BY <1>1, <3>1, <3>2, AskedSilent
  <2>3. Cardinality(Said(answers)) \in Nat /\ page.OUTSTANDING \in Int
    BY <1>1, OwedFinite DEF Page
  <2>4. QED BY <2>1, <2>2, <2>3 DEF WipedPage
<1>16. HeldInv'
  <2> SUFFICES /\ store[Current]["posting_key"] \in destroyed' \cup {None}
               /\ \A i \in Places(requests'[Current]) :
                    requests'[Current][i].op = "Store" /\ requests'[Current][i].key = "posting_key" =>
                      requests'[Current][i].value \in destroyed'
    BY DEF HeldInv
  <2>1. store[Current]["posting_key"] \in destroyed' \cup {None}
    BY <1>2
  <2>2. \A i \in Places(requests[Current]) :
             requests[Current][i].op = "Store" /\ requests[Current][i].key = "posting_key" =>
               requests[Current][i].value \in destroyed \cup {page.ACCOUNT}
    BY <1>1, <1>3 DEF HeldInv
  <2>3. QED BY <1>2, <1>10, <2>1, <2>2
<1>17. LiveInv'
  BY <1>2 DEF LiveInv
<1>18. DeleteInv' /\ CarryInv'
  BY <1>1 DEF DeleteInv, CarryInv
<1>19. QED
  BY <1>7, <1>8, <1>9, <1>11, <1>12, <1>13, <1>14, <1>15, <1>16, <1>17, <1>18
  DEF AccountInv, TypeInv, PageInv, ProbeInv

\* "Yes, delete forever".
LEMMA NukeKeeps ==
  ASSUME AccountInv, nuke_account
  PROVE  AccountInv'
<1> DEFINE n == Cardinality(Legacy)
           b == page.ACK_BUDGET + n
           done == suppress_legacy_probe(page)
           wiped == [done EXCEPT !.ACCOUNT = None, !.POSTING_KEY_LOADED = None, !.ACK_BUDGET = b]
           over == suppress_legacy_probe(wiped)
<1>1. page \in Page /\ gate = "App" /\ nukes' = nukes + 1
      /\ UNCHANGED <<store, registered, attested, answers, loads, minted, lost, refused>>
  BY DEF nuke_account, AccountInv, TypeInv, RestOK
<1>2. b \in Int
  <2>1. n \in Nat
    BY AccountAssumption, FS_CardinalityType
  <2>2. QED BY <1>1, <2>1 DEF Page
<1>3. CASE page.socket = "open"
  <2>1. /\ page' = resume_or_probe(wiped).page
        /\ send([g \in Generation |-> wipe_legacy_seeds[g] \o resume_or_probe(wiped).sent[g]])
        /\ destroyed' = destroyed \cup {page.ACCOUNT}
               \cup ({store[g]["posting_key"] : g \in Generation} \ {None})
        /\ haunted' = (haunted \/ \E g \in Legacy : SeedUnderWay(g))
    <3>1. done.ACK_BUDGET = page.ACK_BUDGET
      BY <1>1 DEF suppress_legacy_probe, Page
    <3>2. wiped = [done EXCEPT !.ACCOUNT = None, !.POSTING_KEY_LOADED = None,
                               !.ACK_BUDGET = done.ACK_BUDGET + Cardinality(Legacy)]
      BY <3>1, Zenon
    <3> HIDE DEF wiped, done
    <3>3. QED BY <1>3, <3>2, Zenon DEF nuke_account, done
  <2> HIDE DEF b
  <2>2. /\ wiped \in Page /\ wiped.PROBE_DONE
        /\ wiped.socket = page.socket /\ wiped.status = page.status /\ wiped.FAILED = page.FAILED
        /\ wiped.OUTSTANDING = page.OUTSTANDING /\ wiped.PENDING = page.PENDING
        /\ wiped.ACCOUNT = None /\ wiped.POSTING_KEY_LOADED = None
    BY <1>1, <1>2 DEF suppress_legacy_probe, Page
  <2> HIDE DEF wiped
  <2>3. /\ over \in Page
        /\ over.socket = page.socket /\ over.status = page.status /\ over.FAILED = page.FAILED
        /\ over.OUTSTANDING = page.OUTSTANDING /\ over.PENDING = page.PENDING
        /\ over.ACCOUNT = None /\ over.POSTING_KEY_LOADED = None
    BY <2>2 DEF suppress_legacy_probe, Page
  <2> HIDE DEF over
  <2>4. resume_or_probe(wiped) = [page |-> over, sent |-> Nothing]
    <3>1. resume_or_probe(wiped) = begin_legacy_probe(wiped)
      BY <2>2, Resumed
    <3>2. begin_legacy_probe(wiped) = [page |-> over, sent |-> Nothing]
      BY <2>2 DEF begin_legacy_probe, over
    <3>3. QED BY <3>1, <3>2
  <2>5. resume_or_probe(wiped).page = over /\ resume_or_probe(wiped).sent = Nothing
    BY <2>4
  <2>6. page' = over /\ send([g \in Generation |-> wipe_legacy_seeds[g] \o Nothing[g]])
    BY <2>1, <2>5, Zenon
  <2>7. WipedPage
    BY <2>3, <2>6 DEF WipedPage
  <2>8. QED BY <1>1, <1>3, <2>1, <2>6, <2>7, NukeOpenKeeps
<1>4. CASE page.socket # "open"
  <2> DEFINE m == IF Legacy = {} THEN page.ACK_BUDGET ELSE page.ACK_BUDGET + 1
             kept == [done EXCEPT !.ACK_BUDGET = m]
  <2>1. page' = kept /\ UNCHANGED <<requests, destroyed, haunted>>
    <3>1. done.ACK_BUDGET = page.ACK_BUDGET
      BY <1>1 DEF suppress_legacy_probe, Page
    <3> HIDE DEF done
    <3>2. kept = [done EXCEPT !.ACK_BUDGET = IF Legacy = {} THEN done.ACK_BUDGET ELSE done.ACK_BUDGET + 1]
      BY <3>1, Zenon
    <3> HIDE DEF kept
    <3>3. QED BY <1>4, <3>2, Zenon DEF nuke_account, done
  <2>2. m \in Int
    BY <1>1 DEF Page
  <2> HIDE DEF m
  <2>3. page.socket = "closed" /\ ~Unheard
    BY <1>1, <1>4, Screens DEF Page
  <2>4. PageStays
    <3>1. /\ kept \in Page /\ kept.socket = page.socket /\ kept.ACCOUNT = page.ACCOUNT
          /\ kept.POSTING_KEY_LOADED = page.POSTING_KEY_LOADED /\ kept.status = page.status
          /\ kept.PENDING = page.PENDING /\ kept.FAILED = page.FAILED
          /\ kept.OUTSTANDING = page.OUTSTANDING
      BY <1>1, <2>2 DEF suppress_legacy_probe, Page
    <3> HIDE DEF kept
    <3>2. QED BY <2>1, <2>3, <3>1 DEF PageStays
  <2>5. EmptyHeard
    BY <1>1 DEF EmptyHeard
  <2>6. QED BY <1>1, <2>1, <2>3, <2>4, <2>5, StaysKeeps
<1>5. QED BY <1>3, <1>4

-----------------------------------------------------------------------------
(* The connection *)

\* The socket dies: nothing is answered any more, and what was sent may be lost.
LEMMA LostKeeps ==
  ASSUME AccountInv, ConnectionLost
  PROVE  AccountInv'
<1>1. /\ StoreOK /\ RequestsOK /\ AnswersOK /\ RestOK
      /\ ScreenInv /\ UnheardInv /\ HeardInv
      /\ AccountIsStored /\ NukeIsFinal /\ WipeInv
      /\ HeldInv /\ DeleteInv
      /\ requests \in [Generation -> Seq(Request)]
      /\ page \in Page /\ lost \in BOOLEAN
  BY DEF AccountInv, TypeInv, PageInv, ProbeInv, RequestsOK, RestOK
<1>2. /\ Current \in Generation /\ Legacy \subseteq Generation /\ "posting_key" \in Key
  BY Keys
<1>3. /\ page' = [page EXCEPT !.socket = "closed"] /\ answers' = Nothing
      /\ UNCHANGED <<store, attested, loads, minted, destroyed, refused, nukes, haunted>>
  BY DEF ConnectionLost
<1>4. /\ page' \in Page /\ page'.socket = "closed" /\ page'.ACCOUNT = page.ACCOUNT
      /\ page'.POSTING_KEY_LOADED = page.POSTING_KEY_LOADED
      /\ page'.PENDING = page.PENDING /\ page'.PROBE_DONE = page.PROBE_DONE
  BY <1>1, <1>3 DEF Page
<1>5. ~Open' /\ Unheard' = Unheard
  BY <1>4 DEF Open, Unheard
<1>6. \A h \in Generation : Places(<<>>) = {} /\ Nothing[h] = <<>>
  BY DEF Places, Nothing
<1>7. AnswersOK' /\ Nothing \in [Generation -> Seq(Request)]
  <2>1. Nothing \in [Generation -> Seq(Answer)] /\ Nothing \in [Generation -> Seq(Request)]
    BY DEF Nothing
  <2>2. QED BY <1>3, <1>6, <2>1 DEF AnswersOK
<1>8. StoreOK' /\ RestOK'
  <2>1. StoreOK'
    BY <1>1, <1>3 DEF StoreOK
  <2>2. registered' \subseteq Generation /\ lost' \in BOOLEAN
    BY <1>1 DEF ConnectionLost, RestOK
  <2>3. QED BY <1>1, <1>3, <1>4, <2>1, <2>2 DEF RestOK
<1>9. \/ UNCHANGED <<requests, registered, lost>>
      \/ /\ requests' = Nothing
         /\ lost' = (lost \/ \E g \in Generation : \E i \in 1..Len(requests[g]) :
                               requests[g][i].op \in {"Store", "Delete"})
  BY DEF ConnectionLost
<1>10. \A h \in Generation : \A i \in Places(requests'[h]) :
         i \in Places(requests[h]) /\ requests'[h] = requests[h] /\ requests' = requests /\ registered' = registered
  BY <1>6, <1>9
<1>11. RequestsOK'
  <2>1. CASE UNCHANGED <<requests, registered, lost>>
    BY <1>1, <1>3, <2>1 DEF RequestsOK
  <2>2. CASE requests' = Nothing
    BY <1>6, <1>7, <2>2 DEF RequestsOK
  <2>3. QED BY <1>9, <2>1, <2>2
<1>12. ScreenInv'
  BY <1>1, <1>3, <1>4, <1>5, <1>6 DEF ScreenInv
<1>13. UnheardInv' /\ HeardInv' /\ AnswerInv'
  <2>1. UnheardInv'
    BY <1>1, <1>2, <1>3, <1>4, <1>5, <1>6, <1>10 DEF UnheardInv
  <2>2. HeardInv'
    BY <1>1, <1>2, <1>3, <1>5, <1>10 DEF HeardInv
  <2>3. AnswerInv'
    BY <1>2, <1>3, <1>6 DEF AnswerInv
  <2>4. QED BY <2>1, <2>2, <2>3
<1>14. ~lost' => ~lost /\ \A h \in Generation : WillHold(h, "posting_key")' = WillHold(h, "posting_key")
  <2>1. CASE UNCHANGED <<requests, registered, lost>>
    BY <1>3, <2>1 DEF WillHold
  <2>2. CASE /\ requests' = Nothing
             /\ lost' = (lost \/ \E g \in Generation : \E i \in 1..Len(requests[g]) :
                                   requests[g][i].op \in {"Store", "Delete"})
    <3> SUFFICES ASSUME ~lost', NEW h \in Generation
                 PROVE  WillHold(h, "posting_key")' = WillHold(h, "posting_key")
      BY <2>2
    <3>1. Writes(requests[h], "posting_key") = {}
      BY <2>2 DEF Writes
    <3>2. Writes(requests'[h], "posting_key") = {}
      BY <1>6, <2>2 DEF Writes, Places
    <3>3. WillHold(h, "posting_key") = store[h]["posting_key"]
      BY <3>1, AfterNone DEF WillHold
    <3>4. WillHold(h, "posting_key")' = store[h]["posting_key"]
      BY <1>3, <3>2, AfterNone DEF WillHold
    <3>5. QED BY <3>3, <3>4
  <2>3. QED BY <1>9, <2>1, <2>2
<1>15. AccountIsStored' /\ NukeIsFinal'
  BY <1>1, <1>2, <1>3, <1>4, <1>14 DEF AccountIsStored, NukeIsFinal, Wiped
<1>16. WipeInv'
  BY <1>1, <1>2, <1>3, <1>6, <1>10, <1>14 DEF WipeInv, Wiped
<1>17. CountInv' /\ LiveInv' /\ CarryInv'
  BY <1>5 DEF CountInv, LiveInv, CarryInv
<1>18. HeldInv' /\ DeleteInv'
  BY <1>1, <1>2, <1>3, <1>4, <1>5, <1>10 DEF HeldInv, DeleteInv
<1>19. QED
  BY <1>7, <1>8, <1>11, <1>12, <1>13, <1>15, <1>16, <1>17, <1>18
  DEF AccountInv, TypeInv, PageInv, ProbeInv

\* The page before anything is heard.
LEMMA FreshFields ==
  /\ FreshPage \in Page /\ FreshPage.socket = "open" /\ FreshPage.status = "Connected"
  /\ FreshPage.POSTING_KEY_LOADED = Unanswered /\ FreshPage.ACCOUNT = None
  /\ FreshPage.PENDING = FALSE /\ FreshPage.PROBE_DONE = FALSE /\ FreshPage.OUTSTANDING = 0
BY DEF FreshPage, Page

\* The page is loaded again: it asks for the posting key, after all that was asked.
LEMMA LoadKeeps ==
  ASSUME AccountInv, Load
  PROVE  AccountInv'
<1> DEFINE R == [op |-> "Register", load |-> loads + 1]
           G == [op |-> "Get", key |-> "posting_key", load |-> loads + 1]
           sent == [h \in Generation |-> IF h = Current THEN <<R, G>> ELSE <<>>]
<1>1. /\ StoreOK /\ RequestsOK /\ AnswersOK /\ RestOK
      /\ AccountIsStored /\ NukeIsFinal /\ WipeInv /\ DeleteInv
      /\ requests \in [Generation -> Seq(Request)]
      /\ loads \in 1..MaxLoads /\ loads < MaxLoads /\ MaxLoads \in Nat
      /\ destroyed \subseteq minted /\ minted \subseteq Seed
  BY AccountAssumption DEF AccountInv, TypeInv, ProbeInv, RequestsOK, RestOK, Load
<1>2. /\ Current \in Generation /\ Legacy \subseteq Generation /\ Current \notin Legacy
      /\ Generation = Legacy \cup {Current}
      /\ "posting_key" \in Key /\ None \notin Seed /\ Unanswered \notin Seed /\ Unanswered # None
  BY Keys
<1>3. /\ loads' = loads + 1 /\ page' = FreshPage /\ answers' = Nothing
      /\ UNCHANGED <<store, registered, attested, minted, destroyed, lost, refused, nukes, haunted>>
      /\ requests' = [requests EXCEPT ![Current] = @ \o <<R, G>>]
  BY DEF Load
<1>4. loads + 1 \in 1..MaxLoads /\ loads < loads + 1 /\ loads <= loads + 1 /\ loads \in Nat /\ loads + 1 \in Nat
  BY <1>1
<1>5. /\ R \in Request /\ R.op = "Register" /\ R.load = loads + 1
      /\ G \in Request /\ G.op = "Get" /\ G.key = "posting_key" /\ G.load = loads + 1
  BY <1>2, <1>4, RequestsMade DEF Request
<1> HIDE DEF R, G
<1>6. /\ sent \in [Generation -> Seq(Request)] /\ sent[Current] = <<R, G>>
      /\ \A h \in Legacy : sent[h] = <<>>
  <2>1. <<R, G>> \in Seq(Request) /\ <<>> \in Seq(Request)
    BY <1>5
  <2>2. QED BY <1>2, <2>1
<1> HIDE DEF sent
<1>7. requests' = [h \in Generation |-> requests[h] \o sent[h]]
  <2>1. \A h \in Legacy : requests[h] \o sent[h] = requests[h]
    BY <1>1, <1>2, <1>6, ConcatEmptySeq
  <2>2. requests' = [h \in Generation |-> IF h = Current THEN requests[Current] \o <<R, G>> ELSE requests[h]]
    BY <1>1, <1>3
  <2>3. \A h \in Generation :
          (IF h = Current THEN requests[Current] \o <<R, G>> ELSE requests[h]) = requests[h] \o sent[h]
    BY <1>2, <1>6, <2>1
  <2>4. QED BY <2>2, <2>3
<1>8. Sent(sent) /\ requests' \in [Generation -> Seq(Request)]
  BY <1>1, <1>6, <1>7, Sends
<1>9. /\ Len(sent[Current]) = 2 /\ Places(sent[Current]) = {1, 2}
      /\ sent[Current][1] = R /\ sent[Current][2] = G
  <2>1. Len(sent[Current]) = 2 /\ sent[Current][1] = R /\ sent[Current][2] = G
    BY <1>6
  <2>2. 1..2 = {1, 2}
    OBVIOUS
  <2>3. QED BY <2>1, <2>2 DEF Places
<1>10. \A h \in Legacy : requests'[h] = requests[h] /\ Places(sent[h]) = {}
  <2>1. Places(<<>>) = {}
    BY DEF Places
  <2>2. QED BY <1>1, <1>2, <1>6, <1>8, <2>1, SentNone
<1>11. \A h \in Generation : \A i \in Places(requests[h]) : requests[h][i].load # loads + 1
  <2> SUFFICES ASSUME NEW h \in Generation, NEW i \in Places(requests[h]) PROVE requests[h][i].load # loads + 1
    OBVIOUS
  <2>1. requests[h][i].load \in Nat /\ requests[h][i].load <= loads
    <3>1. Sendable(h, requests[h][i], loads, attested, minted)
      BY <1>1 DEF RequestsOK
    <3>2. requests[h][i].load \in 1..MaxLoads
      BY <3>1, RequestShape DEF Sendable
    <3>3. QED BY <1>1, <3>1, <3>2 DEF Sendable
  <2>2. QED BY <1>4, <2>1
<1>12. /\ page'.socket = "open" /\ page'.status = "Connected" /\ page' \in Page
       /\ page'.POSTING_KEY_LOADED = Unanswered /\ page'.ACCOUNT = None
       /\ page'.PENDING = FALSE /\ page'.PROBE_DONE = FALSE /\ page'.OUTSTANDING = 0
       /\ Unheard' /\ Open'
  BY <1>3, FreshFields DEF Unheard, Open
<1>13. \A h \in Generation : answers'[h] = <<>> /\ Places(answers'[h]) = {}
  BY <1>3 DEF Nothing, Places
<1>14. StoreOK' /\ AnswersOK' /\ RestOK'
  <2>1. StoreOK'
    BY <1>1, <1>3 DEF StoreOK
  <2>2. Nothing \in [Generation -> Seq(Answer)]
    BY DEF Nothing
  <2>3. AnswersOK'
    BY <1>3, <1>13, <2>2 DEF AnswersOK
  <2>4. RestOK'
    BY <1>1, <1>3, <1>4, <1>12 DEF RestOK
  <2>5. QED BY <2>1, <2>3, <2>4
<1>15. RequestsOK'
  <2>1. SentOK(sent)
    <3> SUFFICES ASSUME NEW i \in Places(sent[Current])
                 PROVE  /\ Sendable(Current, sent[Current][i], loads + 1, attested, minted)
                        /\ \/ sent[Current][i].op = "Register"
                           \/ \E j \in 1..i-1 : sent[Current][j].op = "Register"
      BY <1>2, <1>3, <1>10 DEF SentOK
    <3>1. i = 1 \/ (i = 2 /\ 1 \in 1..i-1)
      BY <1>9
    <3>2. loads + 1 <= loads + 1
      BY <1>4
    <3>3. QED BY <1>5, <1>9, <3>1, <3>2 DEF Sendable
  <2>2. QED BY <1>1, <1>3, <1>4, <1>8, <2>1, SentTypes
<1>16. ScreenInv'
  BY <1>2, <1>12, <1>13 DEF ScreenInv
<1>17. UnheardInv'
  <2>1. \A i \in Places(requests'[Current]) :
         IF i = Len(requests'[Current])
         THEN requests'[Current][i] = G
         ELSE requests'[Current][i].op = "Get" => requests'[Current][i].load # loads + 1
    <3> TAKE i \in Places(requests'[Current])
    <3>1. Len(requests[Current]) \in Nat /\ Len(requests'[Current]) = Len(requests[Current]) + 2
      <4>1. requests[Current] \in Seq(Request) /\ sent[Current] \in Seq(Request)
            /\ requests'[Current] = requests[Current] \o sent[Current]
        BY <1>1, <1>2, <1>6, <1>7
      <4> DEFINE s == requests[Current]
                 t == sent[Current]
      <4>2. s \in Seq(Request) /\ t \in Seq(Request) /\ Len(t) = 2 /\ requests'[Current] = s \o t
        BY <1>9, <4>1
      <4> HIDE DEF s, t
      <4>3. /\ s \o t \in Seq(Request)
            /\ Len(s) \in Nat /\ Len(t) \in Nat /\ Len(s \o t) = Len(s) + Len(t)
            /\ \A j \in Places(s) : j \in Places(s \o t) /\ (s \o t)[j] = s[j]
            /\ \A j \in Places(t) : Len(s) + j \in Places(s \o t) /\ (s \o t)[Len(s) + j] = t[j]
            /\ \A j \in Places(s \o t) : /\ j \in Nat /\ j >= 1
                                         /\ \/ j \in Places(s)
                                            \/ j > Len(s) /\ j - Len(s) \in Places(t)
        BY <4>2, CatPlaces
      <4>4. Len(s) \in Nat /\ Len(requests'[Current]) = Len(s) + 2
        BY <4>2, <4>3
      <4>5. QED BY <4>4 DEF s
    <3>2. CASE i \in Places(requests[Current]) /\ requests'[Current][i] = requests[Current][i]
      <4>1. i \in Nat /\ i <= Len(requests[Current])
        BY <1>2, <1>8, <3>2 DEF Sent
      <4>2. i # Len(requests'[Current])
        BY <3>1, <4>1
      <4>3. QED BY <1>2, <1>11, <3>2, <4>2
    <3>3. CASE /\ i - Len(requests[Current]) \in Places(sent[Current])
               /\ requests'[Current][i] = sent[Current][i - Len(requests[Current])]
      <4>1. i \in Nat
        BY <1>2, <1>8 DEF Sent
      <4>2. i - Len(requests[Current]) \in {1, 2}
        BY <1>9, <3>3
      <4>3. CASE i - Len(requests[Current]) = 1
        <5>1. i # Len(requests'[Current])
          BY <3>1, <4>1, <4>3
        <5>2. requests'[Current][i] = R
          BY <1>9, <3>3, <4>3
        <5>3. QED BY <1>5, <5>1, <5>2
      <4>4. CASE i - Len(requests[Current]) = 2
        <5>1. i = Len(requests'[Current])
          BY <3>1, <4>1, <4>4
        <5>2. requests'[Current][i] = G
          BY <1>9, <3>3, <4>4
        <5>3. QED BY <5>1, <5>2
      <4>5. QED BY <4>2, <4>3, <4>4
    <3>4. QED BY <1>2, <1>8, <3>2, <3>3 DEF Sent
  <2>2. \A h \in Legacy : \A i \in Places(requests'[h]) : requests'[h][i].load # loads + 1
    BY <1>2, <1>10, <1>11
  <2>3. QED BY <1>2, <1>3, <1>12, <1>13, <2>1, <2>2 DEF UnheardInv, G
<1>18. HeardInv' /\ AnswerInv' /\ HeldInv'
  BY <1>2, <1>12, <1>13 DEF HeardInv, AnswerInv, HeldInv
<1>19. \A h \in Generation, k \in Key : WillHold(h, k)' = WillHold(h, k)
  <2> TAKE h \in Generation, k \in Key
  <2>1. Writes(sent[h], k) = {}
    <3>1. \A i \in Places(sent[h]) : sent[h][i].op \notin {"Store", "Delete"}
      BY <1>2, <1>5, <1>9, <1>10
    <3>2. QED BY <3>1 DEF Writes, Places
  <2>2. QED BY <1>1, <1>3, <1>8, <2>1, SentHold
<1>20. AccountIsStored' /\ NukeIsFinal'
  BY <1>1, <1>2, <1>3, <1>12, <1>19 DEF AccountIsStored, NukeIsFinal, Wiped
<1>21. WipeInv'
  BY <1>1, <1>2, <1>3, <1>10, <1>13 DEF WipeInv, Wiped
<1>22. CountInv'
  <2>1. Asked(loads', requests') = {}
    BY <1>2, <1>3, <1>10, <1>11 DEF Asked
  <2>2. Said(answers') = {}
    BY <1>2, <1>13 DEF Said
  <2>3. Cardinality({}) = 0
    BY FS_EmptySet
  <2>4. QED BY <1>12, <2>1, <2>2, <2>3 DEF CountInv
<1>23. LiveInv' /\ CarryInv'
  BY <1>2, <1>12 DEF LiveInv, CarryInv
<1>24. DeleteInv'
  <2> SUFFICES ASSUME nukes = 0, NEW h \in Generation, NEW i \in Places(requests'[h])
               PROVE  requests'[h][i].op # "Delete"
    BY <1>3 DEF DeleteInv
  <2>1. CASE h \in Legacy
    BY <1>1, <1>2, <1>10, <2>1 DEF DeleteInv
  <2>2. CASE h = Current
    <3>1. \A j \in Places(sent[Current]) : sent[Current][j].op # "Delete"
      BY <1>5, <1>9
    <3>2. \A j \in Places(requests[Current]) : requests[Current][j].op # "Delete"
      BY <1>1, <1>2 DEF DeleteInv
    <3>3. \/ i \in Places(requests[Current]) /\ requests'[Current][i] = requests[Current][i]
          \/ /\ i - Len(requests[Current]) \in Places(sent[Current])
             /\ requests'[Current][i] = sent[Current][i - Len(requests[Current])]
      BY <1>2, <1>8, <2>2 DEF Sent
    <3>4. QED BY <2>2, <3>1, <3>2, <3>3
  <2>3. QED BY <1>2, <2>1, <2>2
<1>25. QED
  BY <1>14, <1>15, <1>16, <1>17, <1>18, <1>20, <1>21, <1>22, <1>23, <1>24
  DEF AccountInv, TypeInv, PageInv, ProbeInv

-----------------------------------------------------------------------------
(* A destroyed seed has its wipe behind it *)

\* Nothing new in the queue, and nothing newly destroyed.
LEMMA DoomedSame ==
  ASSUME DoomedInv, requests'[Current] = requests[Current], store' = store,
         Wiped' => Wiped /\ destroyed' \subseteq destroyed
  PROVE  DoomedInv'
BY DEF DoomedInv, Revives

\* What is sent stores no destroyed seed, or is a wipe.
LEMMA DoomedCat ==
  ASSUME DoomedInv, requests[Current] \in Seq(Request), NEW t \in Seq(Request),
         requests'[Current] = requests[Current] \o t, store' = store,
         Wiped' => Wiped,
         Wiped' => \/ /\ destroyed' \subseteq destroyed
                      /\ \A i \in Places(t) : ~Revives(t[i], destroyed')
                   \/ /\ \E i \in Places(t) : t[i].op = "Delete"
                      /\ \A i \in Places(t) : t[i].op # "Store"
  PROVE  DoomedInv'
<1> DEFINE rs == requests[Current]
           c == requests'[Current]
<1>0. Joins(rs, t, c)
  <2>1. Joins(rs, t, rs \o t)
    BY CatJoins
  <2>2. QED BY <2>1
<1> HIDE DEF rs, c
<1>1. /\ Len(rs) \in Nat
      /\ \A i \in Places(rs) : i \in Nat /\ i >= 1 /\ i <= Len(rs) /\ i \in Places(c) /\ c[i] = rs[i]
      /\ \A i \in Places(t) : i \in Nat /\ i >= 1 /\ Len(rs) + i \in Places(c) /\ c[Len(rs) + i] = t[i]
      /\ \A i \in Places(c) : \/ i \in Places(rs) /\ c[i] = rs[i]
                              \/ \E j \in Places(t) : c[i] = t[j]
  BY <1>0 DEF Joins
<1> SUFFICES ASSUME Wiped'
             PROVE  /\ store[Current]["posting_key"] \in destroyed' =>
                         \E j \in Places(c) : c[j].op = "Delete"
                    /\ \A i \in Places(c) : Revives(c[i], destroyed') =>
                         \E j \in Places(c) : j > i /\ c[j].op = "Delete"
  BY DEF DoomedInv, c, Revives
<1>2. /\ store[Current]["posting_key"] \in destroyed =>
           \E j \in Places(rs) : rs[j].op = "Delete"
      /\ \A i \in Places(rs) : Revives(rs[i], destroyed) =>
           \E j \in Places(rs) : j > i /\ rs[j].op = "Delete"
  BY DEF DoomedInv, rs
<1>3. CASE destroyed' \subseteq destroyed /\ \A i \in Places(t) : ~Revives(t[i], destroyed')
  <2>1. store[Current]["posting_key"] \in destroyed' => \E j \in Places(c) : c[j].op = "Delete"
    BY <1>1, <1>2, <1>3
  <2>2. ASSUME NEW i \in Places(c), Revives(c[i], destroyed')
        PROVE  \E j \in Places(c) : j > i /\ c[j].op = "Delete"
    <3>1. i \in Places(rs) /\ c[i] = rs[i]
      BY <1>1, <1>3, <2>2
    <3>2. Revives(rs[i], destroyed)
      BY <1>3, <2>2, <3>1 DEF Revives
    <3>3. PICK j \in Places(rs) : j > i /\ rs[j].op = "Delete"
      BY <1>2, <3>1, <3>2
    <3>4. QED BY <1>1, <3>3
  <2>3. QED BY <2>1, <2>2
<1>4. CASE (\E i \in Places(t) : t[i].op = "Delete") /\ \A i \in Places(t) : t[i].op # "Store"
  <2>1. PICK i \in Places(t) : t[i].op = "Delete"
    BY <1>4
  <2>2. Len(rs) + i \in Places(c) /\ c[Len(rs) + i].op = "Delete"
    BY <1>1, <2>1
  <2>3. ASSUME NEW j \in Places(c), c[j].op = "Store" PROVE Len(rs) + i > j
    <3>1. j \in Places(rs)
      BY <1>1, <1>4, <2>3
    <3>2. j \in Nat /\ j <= Len(rs) /\ i \in Nat /\ i >= 1 /\ Len(rs) \in Nat
      BY <1>1, <3>1
    <3>3. QED BY <3>2
  <2>4. QED BY <2>2, <2>3 DEF Revives
<1>5. QED BY <1>3, <1>4

\* The head of a queue is carried out or refused.
LEMMA DoomedHandled ==
  ASSUME AccountInv, DoomedInv, NEW g \in Generation, NEW r, HandledHead(g, r), StoreMoves(g, r),
         HandledRequests(g, r),
         \/ HandledStore(g, r)
         \/ RefusedStore(g, r)
  PROVE  DoomedInv'
<1>1. /\ StoreOK /\ RestOK /\ Current \in Generation /\ "posting_key" \in Key /\ None \notin Seed
      /\ requests[g] \in Seq(Request)
  BY Keys DEF AccountInv, TypeInv, RequestsOK
<1>2. (Wiped' => Wiped) /\ destroyed' = destroyed /\ None \notin destroyed
  BY <1>1 DEF Wiped, HandledHead, HandledStore, RefusedStore, RestOK
<1>3. CASE g # Current
  <2>1. requests'[Current] = requests[Current] /\ store'[Current] = store[Current]
    BY <1>1, <1>3 DEF HandledRequests, StoreMoves
  <2>2. QED BY <1>2, <2>1 DEF DoomedInv, Revives
<1>4. CASE g = Current
  <2> SUFFICES ASSUME Wiped'
               PROVE  /\ store'[Current]["posting_key"] \in destroyed =>
                           \E j \in Places(requests'[Current]) : requests'[Current][j].op = "Delete"
                      /\ \A i \in Places(requests'[Current]) : Revives(requests'[Current][i], destroyed) =>
                           \E j \in Places(requests'[Current]) : j > i /\ requests'[Current][j].op = "Delete"
    BY <1>2 DEF DoomedInv, Revives
  <2>1. /\ store[Current]["posting_key"] \in destroyed =>
             \E j \in Places(requests[Current]) : requests[Current][j].op = "Delete"
        /\ \A i \in Places(requests[Current]) : Revives(requests[Current][i], destroyed) =>
             \E j \in Places(requests[Current]) : j > i /\ requests[Current][j].op = "Delete"
    BY <1>2 DEF DoomedInv
  <2>2. /\ Len(requests[Current]) \in Nat /\ Len(requests'[Current]) = Len(requests[Current]) - 1
        /\ 1 \in Places(requests[Current]) /\ r = requests[Current][1]
        /\ Sendable(Current, r, loads, attested, minted)
        /\ \A i \in Places(requests'[Current]) :
             /\ i \in Nat /\ i >= 1
             /\ i + 1 \in Places(requests[Current]) /\ requests'[Current][i] = requests[Current][i+1]
    BY <1>4 DEF HandledRequests, HandledHead
  <2>3. ASSUME NEW j \in Places(requests[Current]), j # 1
        PROVE  /\ j \in Nat /\ j - 1 \in Places(requests'[Current])
               /\ requests'[Current][j - 1] = requests[Current][j]
    <3>1. j \in Nat /\ j - 1 \in Places(requests'[Current]) /\ (j - 1) + 1 = j
      BY <2>2, <2>3 DEF Places
    <3>2. requests'[Current][j - 1] = requests[Current][(j - 1) + 1]
      BY <2>2, <3>1
    <3>3. QED BY <3>1, <3>2
  <2>4. ASSUME store'[Current]["posting_key"] \in destroyed
        PROVE  \E j \in Places(requests[Current]) : j # 1 /\ requests[Current][j].op = "Delete"
    <3>1. r.op # "Delete"
      <4> SUFFICES ASSUME r.op = "Delete" PROVE FALSE
        OBVIOUS
      <4>1. r.key = "posting_key"
        BY <2>2 DEF Sendable
      <4>2. HandledStore(g, r)
        BY DEF RefusedStore, Wiped
      <4>3. store'[Current] = handle_store(store[Current], r)
        BY <1>1, <1>4, <4>2 DEF HandledStore, StoreOK
      <4>4. store'[Current]["posting_key"] = None
        BY <1>1, <4>1, <4>3 DEF handle_store, StoreOK
      <4>5. QED BY <1>2, <2>4, <4>4
    <3>2. CASE store'[Current]["posting_key"] = store[Current]["posting_key"]
      BY <2>1, <2>2, <2>4, <3>1, <3>2
    <3>3. CASE r.op = "Store" /\ r.key = "posting_key" /\ store'[Current]["posting_key"] = r.value
      <4>1. Revives(requests[Current][1], destroyed)
        BY <2>2, <2>4, <3>3 DEF Revives
      <4>2. PICK j \in Places(requests[Current]) : j > 1 /\ requests[Current][j].op = "Delete"
        BY <2>1, <2>2, <4>1
      <4>3. QED BY <4>2
    <3>4. QED BY <1>1, <1>4, <3>1, <3>2, <3>3 DEF StoreMoves
  <2>5. store'[Current]["posting_key"] \in destroyed =>
          \E j \in Places(requests'[Current]) : requests'[Current][j].op = "Delete"
    BY <2>3, <2>4
  <2>6. ASSUME NEW i \in Places(requests'[Current]), Revives(requests'[Current][i], destroyed)
        PROVE  \E j \in Places(requests'[Current]) : j > i /\ requests'[Current][j].op = "Delete"
    <3>1. PICK j \in Places(requests[Current]) : j > i + 1 /\ requests[Current][j].op = "Delete"
      BY <2>1, <2>2, <2>6
    <3>2. i \in Nat /\ i >= 1 /\ j \in Nat
      BY <2>2, <3>1 DEF Places
    <3>3. j # 1 /\ j - 1 > i
      BY <3>1, <3>2
    <3>4. QED BY <2>3, <3>1, <3>3
  <2>7. QED BY <2>5, <2>6
<1>5. QED BY <1>3, <1>4

\* A probe asks nothing of the current generation ...
LEMMA ResumeSends ==
  ASSUME NEW p
  PROVE  resume_or_probe(p).sent[Current] = <<>>
<1>1. Nothing[Current] = <<>> /\ Current \notin Legacy /\ Current \in Generation /\ None \notin Seed
  BY Keys DEF Nothing
<1>2. begin_legacy_probe(p).sent[Current] = <<>>
  <2>1. CASE p.PROBE_DONE \/ Legacy = {}
    <3>1. begin_legacy_probe(p).sent = Nothing
      BY <2>1 DEF begin_legacy_probe
    <3>2. QED BY <1>1, <3>1
  <2>2. CASE ~(p.PROBE_DONE \/ Legacy = {})
    <3>1. begin_legacy_probe(p).sent =
            [g \in Generation |-> IF g \in Legacy THEN <<Register, List>> ELSE <<>>]
      BY <2>2 DEF begin_legacy_probe
    <3>2. QED BY <1>1, <3>1
  <2>3. QED BY <2>1, <2>2
<1>3. CASE p.POSTING_KEY_LOADED \in Seed
  BY <1>1, <1>3, Resumed
<1>4. CASE p.POSTING_KEY_LOADED = None
  BY <1>2, <1>4, Resumed
<1>5. CASE p.POSTING_KEY_LOADED \notin Seed /\ p.POSTING_KEY_LOADED # None
  <2>1. resume_or_probe(p).sent = Nothing
    BY <1>5, Zenon DEF resume_or_probe
  <2>2. QED BY <1>1, <2>1
<1>6. QED BY <1>3, <1>4, <1>5

\* ... and of what is heard only the value of an old generation is stored.
LEMMA DispatchSends ==
  ASSUME NEW g \in Generation, NEW a \in Answer, g = Current => a.kind # "KeyList"
  PROVE  \/ dispatch(g, a).sent[Current] = <<>>
         \/ /\ g \in Legacy /\ a.kind = "Value" /\ a.value # None
            /\ dispatch(g, a).sent[Current] = <<Store(a.key, a.value)>>
<1>1. Nothing[Current] = <<>> /\ Current \in Generation /\ (g # Current => g \in Legacy)
  BY Keys DEF Nothing
<1>2. a.kind \in {"Empty", "Value", "KeyList"}
  BY AnswerShape
<1>3. CASE a.kind = "Empty"
  <2>1. dispatch(g, a).sent = Nothing
    BY <1>3 DEF dispatch
  <2>2. QED BY <1>1, <2>1
<1>4. CASE a.kind = "Value" /\ g = Current
  <2>1. dispatch(g, a) = dispatch_kv(a)
    BY <1>4 DEF dispatch
  <2>2. CASE a.key = "posting_key"
    <3>1. dispatch_kv(a) = resume_or_probe([page EXCEPT !.POSTING_KEY_LOADED = a.value])
      BY <1>4, <2>2 DEF dispatch_kv
    <3>2. QED BY <2>1, <3>1, ResumeSends
  <2>3. CASE a.key # "posting_key"
    <3>1. dispatch_kv(a).sent = Nothing
      BY <2>3 DEF dispatch_kv
    <3>2. QED BY <1>1, <2>1, <3>1
  <2>4. QED BY <2>2, <2>3
<1>5. CASE a.kind = "KeyList"
  <2>1. g # Current /\ dispatch(g, a) = legacy_key_list(g, a)
    BY <1>5 DEF dispatch, dispatch_legacy_kv
  <2>2. legacy_key_list(g, a).sent = [Nothing EXCEPT ![g] = SetToSeq({Get(k) : k \in a.keys})]
    BY DEF legacy_key_list, To
  <2>3. QED BY <1>1, <2>1, <2>2 DEF Nothing
<1>6. CASE a.kind = "Value" /\ g # Current
  <2> DEFINE carry == To(Current, <<Store(a.key, a.value)>>)
  <2>1. dispatch(g, a) = legacy_value(a)
    BY <1>6 DEF dispatch, dispatch_legacy_kv
  <2>2. carry[Current] = <<Store(a.key, a.value)>>
    BY <1>1 DEF To, Nothing
  <2> HIDE DEF carry
  <2>3. legacy_value(a).sent = Nothing \/ (a.value # None /\ legacy_value(a).sent = carry)
    <3>1. CASE a.value = None
      BY <3>1 DEF legacy_value
    <3>2. CASE a.value # None /\ a.key # "posting_key"
      BY <3>2 DEF legacy_value, carry
    <3>3. CASE a.value # None /\ a.key = "posting_key" /\ has_identity(probe_note(page, -1))
      BY <3>3 DEF legacy_value
    <3>4. CASE a.value # None /\ a.key = "posting_key" /\ ~has_identity(probe_note(page, -1))
      BY <3>4 DEF legacy_value, carry
    <3>5. QED BY <3>1, <3>2, <3>3, <3>4
  <2>4. QED BY <1>1, <1>6, <2>1, <2>2, <2>3
<1>7. QED BY <1>2, <1>3, <1>4, <1>5, <1>6

\* A queue of one.
LEMMA OneSent ==
  ASSUME NEW c \in Request
  PROVE  <<c>> \in Seq(Request) /\ 1 \in Places(<<c>>) /\ \A i \in Places(<<c>>) : <<c>>[i] = c
<1>1. <<c>> \in Seq(Request) /\ Len(<<c>>) = 1 /\ <<c>>[1] = c
  OBVIOUS
<1>2. 1..1 = {1}
  OBVIOUS
<1>3. QED BY <1>1, <1>2 DEF Places

\* What an answer makes the page store is not destroyed.
LEMMA DoomedDispatch ==
  ASSUME AccountInv, DoomedInv, NEW g \in Generation, Dispatch(g)
  PROVE  DoomedInv'
<1> DEFINE a == Head(answers[g])
           t == dispatch(g, a).sent[Current]
           c == Store(a.key, a.value)
<1>1. /\ AnswersOK /\ RestOK /\ Current \in Generation
      /\ requests \in [Generation -> Seq(Request)] /\ requests[Current] \in Seq(Request)
  BY Keys DEF AccountInv, TypeInv, RequestsOK
<1>2. /\ answers[g] # <<>> /\ answers' = [answers EXCEPT ![g] = Tail(@)]
      /\ UNCHANGED <<store, registered, attested, loads, minted, destroyed, lost, refused, nukes, haunted>>
      /\ requests' = [h \in Generation |-> requests[h] \o dispatch(g, a).sent[h]]
  BY DEF Dispatch, send
<1>3. Answerable(g, a, registered, minted)
  BY <1>1, <1>2, Heard
<1>4. (Wiped' => Wiped) /\ destroyed' = destroyed /\ requests'[Current] = requests[Current] \o t
  BY <1>1, <1>2 DEF Wiped
<1>5. \/ t = <<>>
      \/ g \in Legacy /\ a.kind = "Value" /\ a.value # None /\ t = <<c>>
  <2>1. a \in Answer /\ (g = Current => a.kind # "KeyList")
    BY <1>3 DEF Answerable
  <2> HIDE DEF a
  <2>2. QED BY <2>1, DispatchSends
<1>6. CASE t = <<>>
  <2>1. requests'[Current] = requests[Current]
    BY <1>1, <1>4, <1>6, ConcatEmptySeq
  <2>2. QED BY <1>2, <1>4, <2>1, DoomedSame
<1>7. CASE g \in Legacy /\ a.kind = "Value" /\ a.value # None /\ t = <<c>>
  <2>1. /\ a.key \in Key /\ a.value \in Value \cup {None}
        /\ a.key = "posting_key" /\ Wiped => a.value \notin destroyed
    BY <1>2, <1>7, OldValue
  <2>2. c = [op |-> "Store", key |-> a.key, value |-> a.value, load |-> loads]
    BY DEF Store
  <2> HIDE DEF a, c, t
  <2>3. c \in Request
    <3>1. a.value \in Value /\ loads \in 1..MaxLoads
      BY <1>1, <1>7, <2>1 DEF RestOK
    <3>2. QED BY <2>1, <2>2, <3>1, RequestsMade
  <2>4. Wiped => ~Revives(c, destroyed)
    BY <2>1, <2>2 DEF Revives
  <2>5. t \in Seq(Request) /\ \A i \in Places(t) : t[i] = c
    BY <1>7, <2>3, OneSent
  <2>6. Wiped' => destroyed' \subseteq destroyed /\ \A i \in Places(t) : ~Revives(t[i], destroyed')
    BY <1>4, <2>4, <2>5
  <2>7. QED BY <1>1, <1>2, <1>4, <2>5, <2>6, DoomedCat
<1>8. QED BY <1>5, <1>6, <1>7

\* A created seed is new, and a restored one is destroyed no more.
LEMMA DoomedOnboard ==
  ASSUME AccountInv, DoomedInv, NEW s \in Seed, create_account(s) \/ import_account(s)
  PROVE  DoomedInv'
<1> DEFINE c == Store("posting_key", s)
<1>1. /\ RestOK /\ Current \in Generation /\ "posting_key" \in Key /\ s \in Value
      /\ requests \in [Generation -> Seq(Request)] /\ requests[Current] \in Seq(Request)
  BY Keys DEF AccountInv, TypeInv, RequestsOK, Value
<1>2. /\ send(To(Current, <<c>>)) /\ store' = store
      /\ destroyed' \subseteq destroyed /\ s \notin destroyed' /\ (Wiped' => Wiped)
  BY <1>1 DEF create_account, import_account, RestOK, Wiped
<1>3. c = [op |-> "Store", key |-> "posting_key", value |-> s, load |-> loads]
  BY DEF Store
<1>4. c \in Request
  BY <1>1, <1>3, RequestsMade DEF RestOK
<1>5. ~Revives(c, destroyed')
  BY <1>2, <1>3 DEF Revives
<1> HIDE DEF c
<1>6. requests'[Current] = requests[Current] \o <<c>>
  BY <1>1, <1>2 DEF send, To, Nothing
<1>7. <<c>> \in Seq(Request) /\ \A i \in Places(<<c>>) : <<c>>[i] = c
  BY <1>4, OneSent
<1>8. Wiped' => destroyed' \subseteq destroyed /\ \A i \in Places(<<c>>) : ~Revives(<<c>>[i], destroyed')
  BY <1>2, <1>5, <1>7
<1>9. QED BY <1>1, <1>2, <1>6, <1>7, <1>8, DoomedCat

\* A nuke that goes out wipes the current generation too.
LEMMA DoomedNuke ==
  ASSUME AccountInv, DoomedInv, nuke_account
  PROVE  DoomedInv'
<1>1. /\ RestOK /\ Current \in Generation /\ Current \notin Legacy /\ "posting_key" \in Key
      /\ requests \in [Generation -> Seq(Request)] /\ requests[Current] \in Seq(Request)
  BY Keys DEF AccountInv, TypeInv, RequestsOK
<1>2. store' = store /\ lost' = lost /\ refused' = refused
  BY DEF nuke_account
<1>3. CASE page.socket # "open"
  <2>1. UNCHANGED <<requests, destroyed, haunted>>
    BY <1>3 DEF nuke_account
  <2>2. Wiped' => Wiped
    BY <1>2, <2>1 DEF Wiped
  <2>3. QED BY <1>2, <2>1, <2>2, DoomedSame
<1>4. CASE page.socket = "open"
  <2> DEFINE wiped == [suppress_legacy_probe(page) EXCEPT
                         !.ACCOUNT = None, !.POSTING_KEY_LOADED = None,
                         !.ACK_BUDGET = @ + Cardinality(Legacy)]
             c == Delete("posting_key")
  <2>1. /\ send([g \in Generation |-> wipe_legacy_seeds[g] \o resume_or_probe(wiped).sent[g]])
        /\ haunted' = (haunted \/ \E g \in Legacy : SeedUnderWay(g))
    BY <1>4 DEF nuke_account
  <2>2. Wiped' => Wiped
    BY <1>1, <1>2, <2>1 DEF Wiped, RestOK
  <2> HIDE DEF wiped
  <2>3. resume_or_probe(wiped).sent[Current] = <<>>
    BY ResumeSends
  <2>4. wipe_legacy_seeds[Current] = <<c>>
    BY <1>1 DEF wipe_legacy_seeds
  <2>5. c \in Request /\ c.op = "Delete"
    BY <1>1 DEF Delete, Request, RestOK
  <2> HIDE DEF c
  <2>6. /\ <<c>> \in Seq(Request) /\ 1 \in Places(<<c>>) /\ \A i \in Places(<<c>>) : <<c>>[i] = c
        /\ <<c>> \o <<>> = <<c>>
    BY <2>5, OneSent, ConcatEmptySeq
  <2>7. requests'[Current] = requests[Current] \o <<c>>
    BY <1>1, <2>1, <2>3, <2>4, <2>6 DEF send
  <2>8. (\E i \in Places(<<c>>) : <<c>>[i].op = "Delete") /\ \A i \in Places(<<c>>) : <<c>>[i].op # "Store"
    BY <2>5, <2>6
  <2>9. QED BY <1>1, <1>2, <2>2, <2>6, <2>7, <2>8, DoomedCat
<1>5. QED BY <1>3, <1>4

\* A queue that dies with the connection takes no write with it, or the write
\* counts as lost.
LEMMA DoomedLost ==
  ASSUME AccountInv, DoomedInv, ConnectionLost
  PROVE  DoomedInv'
<1>1. Current \in Generation /\ store' = store /\ destroyed' = destroyed
      /\ refused' = refused /\ haunted' = haunted
  BY Keys DEF ConnectionLost
<1>2. CASE UNCHANGED <<requests, registered, lost>>
  <2>1. Wiped' => Wiped
    BY <1>1, <1>2 DEF Wiped
  <2>2. QED BY <1>1, <1>2, <2>1, DoomedSame
<1>3. CASE /\ requests' = Nothing
           /\ lost' = (lost \/ \E g \in Generation : \E i \in 1..Len(requests[g]) :
                                 requests[g][i].op \in {"Store", "Delete"})
  <2> SUFFICES ASSUME Wiped' PROVE DoomedInv'
    BY DEF DoomedInv
  <2>1. Wiped /\ \A i \in Places(requests[Current]) : requests[Current][i].op # "Delete"
    BY <1>1, <1>3 DEF Wiped, Places
  <2>2. store[Current]["posting_key"] \notin destroyed
    BY <2>1 DEF DoomedInv
  <2>3. requests'[Current] = <<>> /\ Places(<<>>) = {}
    BY <1>1, <1>3 DEF Nothing, Places
  <2>4. QED BY <1>1, <2>2, <2>3 DEF DoomedInv
<1>4. QED BY <1>2, <1>3 DEF ConnectionLost

\* A new page asks, and writes nothing.
LEMMA DoomedLoad ==
  ASSUME AccountInv, DoomedInv, Load
  PROVE  DoomedInv'
<1> DEFINE R == [op |-> "Register", load |-> loads + 1]
           G == [op |-> "Get", key |-> "posting_key", load |-> loads + 1]
<1>1. /\ RestOK /\ Current \in Generation /\ "posting_key" \in Key
      /\ requests \in [Generation -> Seq(Request)] /\ requests[Current] \in Seq(Request)
  BY Keys DEF AccountInv, TypeInv, RequestsOK
<1>2. /\ loads < MaxLoads /\ store' = store /\ destroyed' = destroyed /\ (Wiped' => Wiped)
      /\ requests'[Current] = requests[Current] \o <<R, G>>
  BY <1>1 DEF Load, Wiped
<1>3. loads + 1 \in 1..MaxLoads
  BY <1>1, <1>2, AccountAssumption DEF RestOK
<1>4. R \in Request /\ G \in Request /\ R.op # "Store" /\ G.op # "Store"
  BY <1>1, <1>3 DEF Request
<1> HIDE DEF R, G
<1>5. <<R, G>> \in Seq(Request) /\ \A i \in Places(<<R, G>>) : <<R, G>>[i].op # "Store"
  <2>1. <<R, G>> \in Seq(Request) /\ Len(<<R, G>>) = 2 /\ <<R, G>>[1] = R /\ <<R, G>>[2] = G
    BY <1>4
  <2>2. 1..2 = {1, 2}
    OBVIOUS
  <2>3. QED BY <1>4, <2>1, <2>2 DEF Places
<1>6. \A i \in Places(<<R, G>>) : ~Revives(<<R, G>>[i], destroyed')
  BY <1>5 DEF Revives
<1>7. QED BY <1>1, <1>2, <1>5, <1>6, DoomedCat

\* Every other step keeps it as well.
LEMMA DoomedStep ==
  ASSUME AccountInv, DoomedInv, [AccountNext]_accountVars
  PROVE  DoomedInv'
<1>1. CASE UNCHANGED accountVars
  <2>1. (Wiped' => Wiped) /\ destroyed' = destroyed /\ requests' = requests /\ store' = store
    BY <1>1 DEF accountVars, Wiped
  <2>2. QED BY <2>1, DoomedSame
<1>2. CASE Watchdog \/ Ceiling \/ NoticeLost
  <2>1. (Wiped' => Wiped) /\ destroyed' = destroyed /\ requests' = requests /\ store' = store
    BY <1>2 DEF Watchdog, Ceiling, NoticeLost, Wiped
  <2>2. QED BY <2>1, DoomedSame
<1>3. ASSUME NEW g \in Generation, Handle(g) PROVE DoomedInv'
  <2> DEFINE r == Head(requests[g])
  <2>1. HandledHead(g, r) /\ HandledStore(g, r) /\ HandledRequests(g, r)
    BY <1>3, HandleStore
  <2> HIDE DEF r
  <2>2. StoreMoves(g, r)
    BY <2>1, StoreAfter DEF AccountInv, TypeInv
  <2>3. QED BY <2>1, <2>2, DoomedHandled
<1>4. ASSUME NEW g \in Generation, Refuse(g) PROVE DoomedInv'
  <2> DEFINE r == Head(requests[g])
  <2>1. HandledHead(g, r) /\ RefusedStore(g, r) /\ HandledRequests(g, r) /\ StoreMoves(g, r)
    BY <1>4, RefuseKeeps
  <2> HIDE DEF r
  <2>2. QED BY <2>1, DoomedHandled
<1>5. ASSUME NEW g \in Generation, Dispatch(g) PROVE DoomedInv'
  BY <1>5, DoomedDispatch
<1>6. ASSUME NEW s \in Seed, create_account(s) \/ import_account(s) PROVE DoomedInv'
  BY <1>6, DoomedOnboard
<1>7. CASE nuke_account
  BY <1>7, DoomedNuke
<1>8. CASE ConnectionLost
  BY <1>8, DoomedLost
<1>9. CASE Load
  BY <1>9, DoomedLoad
<1>10. QED BY <1>1, <1>2, <1>3, <1>4, <1>5, <1>6, <1>7, <1>8, <1>9 DEF AccountNext

-----------------------------------------------------------------------------
(* The first state, and every step *)

\* The first page asks for the posting key, and nothing else has happened.
LEMMA AccountInvInit ==
  ASSUME AccountInit
  PROVE  AccountInv /\ DoomedInv
<1> DEFINE R == [op |-> "Register", load |-> 1]
           G == [op |-> "Get", key |-> "posting_key", load |-> 1]
<1>1. /\ Current \in Generation /\ Legacy \subseteq Generation /\ Current \notin Legacy
      /\ "posting_key" \in Key /\ "posting_key" \notin Setting /\ Setting \subseteq Key
      /\ None \notin Seed /\ Unanswered \notin Seed /\ Unanswered # None
      /\ Old \subseteq Seed /\ 1 \in 1..MaxLoads
  BY Keys, AccountAssumption
<1>2. /\ loads = 1 /\ registered = {} /\ answers = Nothing /\ page = FreshPage
      /\ minted = Old /\ destroyed = {} /\ lost = FALSE /\ refused = {} /\ nukes = 0
      /\ haunted = FALSE
      /\ attested \in [1..MaxLoads -> BOOLEAN]
      /\ store \in [Generation -> [Key -> Old \cup {Stored, None}]]
      /\ \A h \in Generation : /\ store[h]["posting_key"] \in Old \cup {None}
                               /\ \A k \in Setting : store[h][k] \in {Stored, None}
      /\ requests = [Nothing EXCEPT ![Current] = <<R, G>>]
  BY DEF AccountInit
<1>3. /\ R \in Request /\ R.op = "Register" /\ R.load = 1
      /\ G \in Request /\ G.op = "Get" /\ G.key = "posting_key" /\ G.load = 1
      /\ G = [op |-> "Get", key |-> "posting_key", load |-> 1]
  BY <1>1, RequestsMade DEF Request
<1> HIDE DEF R, G
<1>4. <<R, G>> \in Seq(Request) /\ <<>> \in Seq(Request)
  BY <1>3
<1>5. requests \in [Generation -> Seq(Request)] /\ requests[Current] = <<R, G>>
      /\ \A h \in Legacy : requests[h] = <<>>
  BY <1>1, <1>2, <1>4 DEF Nothing
<1>6. /\ Len(requests[Current]) = 2 /\ Places(requests[Current]) = {1, 2}
      /\ requests[Current][1] = R /\ requests[Current][2] = G
  <2>1. Len(requests[Current]) = 2 /\ requests[Current][1] = R /\ requests[Current][2] = G
    BY <1>5
  <2>2. 1..2 = {1, 2}
    OBVIOUS
  <2>3. QED BY <2>1, <2>2 DEF Places
<1>7. \A h \in Legacy : Places(requests[h]) = {}
  BY <1>5 DEF Places
<1>8. \A h \in Generation : answers[h] = <<>> /\ Places(answers[h]) = {}
  BY <1>2 DEF Nothing, Places
<1>9. \A h \in Generation : h = Current \/ h \in Legacy
  BY Keys
<1>10. /\ page \in Page /\ page.socket = "open" /\ page.status = "Connected"
       /\ page.POSTING_KEY_LOADED = Unanswered /\ page.ACCOUNT = None
       /\ page.PENDING = FALSE /\ page.PROBE_DONE = FALSE /\ page.OUTSTANDING = 0
       /\ Unheard /\ Open
  BY <1>2, FreshFields DEF Unheard, Open
<1>11. TypeInv
  <2>1. StoreOK
    <3>1. Old \cup {Stored, None} \subseteq Value \cup {None}
      BY <1>1 DEF Value
    <3>2. store \in [Generation -> [Key -> Value \cup {None}]]
      BY <1>2, <3>1
    <3>3. QED BY <1>2, <3>2 DEF StoreOK
  <2>2. RequestsOK
    <3>1. \A h \in Generation : \A i \in Places(requests[h]) :
            /\ Sendable(h, requests[h][i], loads, attested, minted)
            /\ requests[h][i].op = "Register" \/ \E j \in 1..i-1 : requests[h][j].op = "Register"
      <4> SUFFICES ASSUME NEW i \in Places(requests[Current])
                   PROVE  /\ Sendable(Current, requests[Current][i], loads, attested, minted)
                          /\ \/ requests[Current][i].op = "Register"
                             \/ \E j \in 1..i-1 : requests[Current][j].op = "Register"
        BY <1>7, <1>9
      <4>1. i = 1 \/ (i = 2 /\ 1 \in 1..i-1)
        BY <1>6
      <4>2. loads <= loads /\ loads = 1
        BY <1>2
      <4>3. QED BY <1>3, <1>6, <4>1, <4>2 DEF Sendable
    <3>2. QED BY <1>5, <3>1 DEF RequestsOK
  <2>3. AnswersOK
    <3>1. answers \in [Generation -> Seq(Answer)]
      BY <1>2 DEF Nothing
    <3>2. QED BY <1>8, <3>1 DEF AnswersOK
  <2>4. RestOK
    BY <1>1, <1>2, <1>10 DEF RestOK
  <2>5. QED BY <2>1, <2>2, <2>3, <2>4 DEF TypeInv
<1>12. PageInv
  <2>1. ScreenInv
    BY <1>1, <1>8, <1>10 DEF ScreenInv
  <2>2. UnheardInv
    <3>1. \A i \in Places(requests[Current]) :
            IF i = Len(requests[Current]) THEN requests[Current][i] = G
            ELSE requests[Current][i].op = "Get" => requests[Current][i].load # loads
      BY <1>3, <1>6
    <3>2. \A h \in Legacy : /\ answers[h] = <<>>
                            /\ \A i \in Places(requests[h]) : requests[h][i].load # loads
      BY <1>1, <1>7, <1>8
    <3>3. QED BY <1>2, <1>3, <1>10, <3>1, <3>2 DEF UnheardInv
  <2>3. HeardInv /\ AnswerInv
    BY <1>1, <1>8, <1>10 DEF HeardInv, AnswerInv
  <2>4. QED BY <2>1, <2>2, <2>3 DEF PageInv
<1>13. AccountIsStored /\ NukeIsFinal
  BY <1>2, <1>10 DEF AccountIsStored, NukeIsFinal, Wiped
<1>14. WipeInv
  BY <1>2 DEF WipeInv, Wiped
<1>15. ProbeInv
  <2>1. Asked(loads, requests) = {} /\ Said(answers) = {}
    BY <1>1, <1>7, <1>8 DEF Asked, Said
  <2>2. Cardinality({}) = 0
    BY FS_EmptySet
  <2>3. CountInv
    BY <1>10, <2>1, <2>2 DEF CountInv
  <2>4. HeldInv /\ LiveInv /\ CarryInv
    BY <1>1, <1>10 DEF HeldInv, LiveInv, CarryInv
  <2>5. DeleteInv
    BY <1>3, <1>6, <1>7, <1>9 DEF DeleteInv
  <2>6. QED BY <2>3, <2>4, <2>5 DEF ProbeInv
<1>16. DoomedInv
  BY <1>2, <1>3, <1>6 DEF DoomedInv, Revives
<1>17. QED BY <1>11, <1>12, <1>13, <1>14, <1>15, <1>16 DEF AccountInv

\* A created account is a seed that nobody destroyed, and a restored one
\* exists: both are a seed that settles.
LEMMA OnboardKeeps ==
  ASSUME AccountInv, NEW s \in Seed, create_account(s) \/ import_account(s)
  PROVE  AccountInv'
<1>1. destroyed \subseteq minted
  BY DEF AccountInv, TypeInv, RestOK
<1>2. CASE create_account(s)
  <2>1. destroyed' = destroyed \ {s}
    BY <1>1, <1>2 DEF create_account
  <2>2. QED BY <1>2, <2>1, SettleKeeps DEF create_account
<1>3. CASE import_account(s)
  <2>1. minted' = minted \cup {s}
    BY <1>3 DEF import_account
  <2>2. QED BY <1>3, <2>1, SettleKeeps DEF import_account
<1>4. QED BY <1>2, <1>3

\* Every step keeps the invariant.
LEMMA AccountInvStep ==
  ASSUME AccountInv, DoomedInv, [AccountNext]_accountVars
  PROVE  AccountInv' /\ DoomedInv'
<1>0. DoomedInv'
  BY DoomedStep
<1> SUFFICES AccountInv'
  BY <1>0
<1>1. CASE UNCHANGED accountVars
  BY <1>1, QuietKeeps
<1>2. CASE AccountNext
  <2>1. ASSUME NEW g \in Generation, Handle(g) PROVE AccountInv'
    BY <2>1, HandleKeeps
  <2>2. ASSUME NEW g \in Generation, Dispatch(g) PROVE AccountInv'
    BY <2>2, DispatchKeeps
  <2>3. CASE Watchdog \/ Ceiling \/ NoticeLost
    BY <2>3, QuietKeeps
  <2>4. ASSUME NEW s \in Seed, create_account(s) \/ import_account(s) PROVE AccountInv'
    BY <2>4, OnboardKeeps
  <2>5. CASE nuke_account
    BY <2>5, NukeKeeps
  <2>6. CASE ConnectionLost
    BY <2>6, LostKeeps
  <2>7. CASE Load
    BY <2>7, LoadKeeps
  <2>8. ASSUME NEW g \in Generation, Refuse(g) PROVE AccountInv'
    BY <2>8, RefuseKeeps
  <2>9. QED BY <1>2, <2>1, <2>2, <2>3, <2>4, <2>5, <2>6, <2>7, <2>8 DEF AccountNext
<1>3. QED BY <1>1, <1>2

\* The invariant holds in every state of every run.
LEMMA AccountInvHolds == AccountSpec => []AccountInv
<1>1. AccountInit => AccountInv /\ DoomedInv
  BY AccountInvInit
<1>2. AccountInv /\ DoomedInv /\ [AccountNext]_accountVars => AccountInv' /\ DoomedInv'
  BY AccountInvStep
<1>3. QED BY <1>1, <1>2, PTL DEF AccountSpec

-----------------------------------------------------------------------------
(* The results *)

\* When a probe has ended without a failure no old generation is still to say
\* anything: PROBE_OUTSTANDING counts at least the answers that are owed.
LEMMA NothingOwed ==
  ASSUME AccountInv, page.socket = "open", ~page.FAILED, ~page.PENDING
  PROVE  \A g \in Legacy, k \in Key : ~Tells(g, k)
<1> DEFINE m == Cardinality(Asked(loads, requests))
           n == Cardinality(Said(answers))
<1>1. /\ requests \in [Generation -> Seq(Request)] /\ answers \in [Generation -> Seq(Answer)]
      /\ page \in Page /\ CountInv /\ Legacy \subseteq Generation
  BY Keys DEF AccountInv, TypeInv, ProbeInv, RequestsOK, AnswersOK, RestOK
<1>2. /\ IsFiniteSet(Asked(loads, requests)) /\ m \in Nat
      /\ IsFiniteSet(Said(answers)) /\ n \in Nat
  BY <1>1, OwedFinite
<1>3. page.OUTSTANDING \in Int /\ page.OUTSTANDING >= m + n /\ ~(page.OUTSTANDING > 0)
  <2>1. page.OUTSTANDING \in Int
    BY <1>1 DEF Page
  <2>2. QED BY <1>1, <2>1 DEF CountInv, Open
<1>4. m = 0 /\ n = 0
  <2> HIDE DEF m, n
  <2> QED BY <1>2, <1>3
<1>5. Asked(loads, requests) = {} /\ Said(answers) = {}
  BY <1>2, <1>4, FS_EmptySet
<1> SUFFICES ASSUME NEW g \in Legacy, NEW k \in Key, Tells(g, k) PROVE FALSE
  OBVIOUS
<1>6. CASE Asks(loads, requests[g], k)
  <2>1. PICK i \in Places(requests[g]) : /\ requests[g][i].load = loads
                                         /\ requests[g][i].op \in {"List", "Get"}
    BY <1>6 DEF Asks
  <2>2. i \in Nat
    BY <1>1, <2>1, PlacesOf
  <2>3. <<g, i>> \in Asked(loads, requests)
    BY <2>1, <2>2 DEF Asked
  <2>4. QED BY <1>5, <2>3
<1>7. CASE \E i \in Places(answers[g]) : Says(answers[g][i], k)
  <2>1. PICK i \in Places(answers[g]) : answers[g][i].kind # "Empty"
    BY <1>7 DEF Says
  <2>2. i \in Nat
    BY <1>1, <2>1, PlacesOf
  <2>3. <<g, i>> \in Said(answers)
    BY <2>1, <2>2 DEF Said
  <2>4. QED BY <1>5, <2>3
<1>8. QED BY <1>6, <1>7 DEF Tells

\* Every variable keeps its type: what the delegates store, what is on its way
\* to and from them, and the signals of the page.
THEOREM AccountTypes == AccountSpec => []AccountTypeOK
<1>1. AccountInv => AccountTypeOK
  <2> SUFFICES ASSUME AccountInv PROVE AccountTypeOK
    OBVIOUS
  <2>1. StoreOK /\ RequestsOK /\ AnswersOK /\ RestOK
    BY DEF AccountInv, TypeInv
  <2>2. \A g \in Generation : \A i \in 1..Len(requests[g]) : requests[g][i] \in Request
    BY <2>1 DEF RequestsOK, Sendable, Places
  <2>3. \A g \in Generation : \A i \in 1..Len(answers[g]) : answers[g][i] \in Answer
    BY <2>1 DEF AnswersOK, Answerable, Places
  <2>4. QED BY <2>1, <2>2, <2>3 DEF AccountTypeOK, StoreOK, RestOK
<1>2. QED BY <1>1, AccountInvHolds, PTL

\* The account on the screen is the seed that the delegate of this build holds
\* or is about to hold, whatever late answer an old generation gives: the guard
\* of dispatch_legacy_kv never clobbers an identity.  A Store that fails in a
\* delegate, or a write lost with its connection, takes that away.
THEOREM AccountStays == AccountSpec => []AccountIsStored
<1>1. AccountInv => AccountIsStored
  BY DEF AccountInv
<1>2. QED BY <1>1, AccountInvHolds, PTL

\* A destroyed seed does not come back: no generation holds it once the wipe is
\* handled and no page takes it, unless the wipe is lost with its connection,
\* fails in a delegate, or overtakes an answer that carries the seed.  That a
\* Store fails makes no difference.
THEOREM NukeStays == AccountSpec => []NukeIsFinal
<1>1. AccountInv => NukeIsFinal
  BY DEF AccountInv
<1>2. QED BY <1>1, AccountInvHolds, PTL

\* A probe that ends without a failure has carried every name that an old
\* generation holds to the current one, if no Store failed in a delegate and no
\* write was lost with its connection.
THEOREM ProbeCarries == AccountSpec => []ProbeCarriesAll
<1>1. AccountInv => ProbeCarriesAll
  <2> SUFFICES ASSUME AccountInv, page.PROBE_DONE, ~page.PENDING, ~page.FAILED,
                      page.socket = "open", nukes = 0, ~lost, "Store" \notin refused,
                      NEW g \in Legacy, NEW k \in Key, store[g][k] # None
               PROVE  WillHold(Current, k) # None
    BY DEF ProbeCarriesAll
  <2>1. CarryInv
    BY DEF AccountInv, ProbeInv
  <2>2. WillHold(Current, k) # None \/ Tells(g, k)
    BY <2>1 DEF CarryInv, Open
  <2>3. ~Tells(g, k)
    BY NothingOwed
  <2>4. QED BY <2>2, <2>3
<1>2. QED BY <1>1, AccountInvHolds, PTL

\* Whoever creates a fresh account strands no live seed: the generations hold
\* none, or the screen warns that the probe failed.
THEOREM CreateWarns == AccountSpec => CreateIsWarned
<1> DEFINE Warned == minted' # minted =>
                       \/ page.FAILED
                       \/ \A g \in Generation : store[g]["posting_key"] \in destroyed \cup {None}
<1>1. AccountInv /\ [AccountNext]_accountVars => [Warned]_accountVars
  <2> SUFFICES ASSUME AccountInv, AccountNext, minted' # minted, ~page.FAILED, NEW g \in Generation
               PROVE  store[g]["posting_key"] \in destroyed \cup {None}
    BY DEF accountVars
  <2>1. PICK s \in Seed : create_account(s)
    BY DEF AccountNext, Handle, Refuse, Dispatch, Watchdog, Ceiling, import_account, nuke_account,
           ConnectionLost, NoticeLost, Load
  <2>2. gate = "Onboarding" /\ page.socket = "open"
    BY <2>1 DEF create_account
  <2>3. page.ACCOUNT = None /\ page.POSTING_KEY_LOADED = None /\ ~page.PENDING /\ ~Unheard
    BY <2>2, Screens DEF Open
  <2>4. CASE g = Current
    BY <2>3, <2>4 DEF AccountInv, ProbeInv, HeldInv
  <2>5. CASE g \in Legacy
    <3>1. ~Tells(g, "posting_key")
      BY <2>2, <2>3, <2>5, NothingOwed, Keys
    <3>2. QED BY <2>2, <2>3, <2>5, <3>1 DEF AccountInv, ProbeInv, LiveInv, Open
  <2>6. QED BY <2>4, <2>5, Keys
<1>2. QED BY <1>1, AccountInvHolds, PTL DEF AccountSpec, CreateIsWarned
=============================================================================
