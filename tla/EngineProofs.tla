---------------------------- MODULE EngineProofs ----------------------------
(***************************************************************************)
(* Theorems about Engine.tla, for every window, every set of messages and  *)
(* every framing.  That the prompt is a chat does not follow from itself:  *)
(* prepare_turn frames a turn by turn_count, so the invariant has to tie   *)
(* the counter to the cache (Counted) and to the messages a rebuild starts *)
(* from (Backed).  That the two memories agree is shown by following the   *)
(* map from the turns of the context to the messages of turn_messages      *)
(* through every step (MInv).                                              *)
(***************************************************************************)
EXTENDS Engine, SequenceTheorems, FiniteSetTheorems, TLAPS

\* A counted turn is backed by a remembered message: a rebuild that frames the
\* new turn as a follow-up has something to follow.
Backed == turn_count > 0 => turn_messages # <<>>

\* A prompt waits exactly while it is to be prefilled; a reply follows a turn.
InCall ==
    /\ phase = "prefill" <=> turn_ids # <<>>
    /\ phase = "loop" => cache # <<>>

\* The counter says whether there is a conversation to follow up.
Counted == ~lost => (turn_count = 0 <=> Context = <<>>)

IInv == TypeOK /\ Backed /\ InCall /\ Counted /\ ChatShape

-----------------------------------------------------------------------------
(* Numbers.                                                                *)

LEMMA MaxOfTwo ==
    ASSUME NEW a \in Int, NEW b \in Int
    PROVE  /\ Max({a, b}) \in {a, b}
           /\ Max({a, b}) >= a
           /\ Max({a, b}) >= b
<1>1. \E x \in {a, b} : \A y \in {a, b} : x >= y
  <2>1. CASE a >= b
    BY <2>1
  <2>2. CASE b >= a
    BY <2>2
  <2>3. QED
    BY <2>1, <2>2
<1>2. QED
  BY <1>1 DEF Max

LEMMA MinIsMember ==
    ASSUME NEW S, S \subseteq Nat, S # {}
    PROVE  Min(S) \in S
<1> DEFINE R == {ss \in Nat \X Nat : ss[1] < ss[2]}
<1>1. IsWellFoundedOn(R, Nat)
  BY NatLessThanWellFounded DEF OpToRel
<1>2. PICK x \in S : \A y \in S : ~(<<y, x>> \in R)
  <2> HIDE DEF R
  <2> QED BY <1>1, WFMin
<1>3. ASSUME NEW y \in S
      PROVE  x =< y
  <2>1. <<y, x>> \in Nat \X Nat /\ <<y, x>> \notin R
    BY <1>2
  <2>2. ~(y < x)
    BY <2>1
  <2>3. x \in Nat /\ y \in Nat
    OBVIOUS
  <2>4. QED
    BY <2>2, <2>3
<1> HIDE DEF R
<1>4. QED
  BY <1>3 DEF Min

LEMMA TurnLenType ==
    ASSUME NEW t \in TurnEntry
    PROVE  TurnLen(t) \in Nat
<1>1. t.msg \in Message
  BY DEF TurnEntry
<1>2. QED
  BY <1>1, EngineAssumption DEF TurnLen, EngineAssumption

\* A prompt has finitely many token ids.
LEMMA PromptLenType ==
    ASSUME NEW p \in Seq(TurnEntry)
    PROVE  PromptLen(p) \in Nat
<1> DEFINE ids(i) == {i} \X (1 .. TurnLen(p[i]))
           All == {ids(i) : i \in DOMAIN p}
           f == [i \in DOMAIN p |-> ids(i)]
<1>1. IsFiniteSet(DOMAIN p)
  <2>1. DOMAIN p = 1 .. Len(p) /\ Len(p) \in Nat
    BY LenProperties
  <2>2. QED
    BY <2>1, FS_Interval
<1>2. ASSUME NEW i \in DOMAIN p
      PROVE  IsFiniteSet(ids(i))
  <2>1. TurnLen(p[i]) \in Nat
    BY TurnLenType, ElementOfSeq, LenProperties
  <2>2. IsFiniteSet(1 .. TurnLen(p[i]))
    BY <2>1, FS_Interval
  <2>3. IsFiniteSet({i})
    BY FS_Singleton
  <2>4. QED
    BY <2>2, <2>3, FS_Product
<1>3. IsFiniteSet(All)
  <2>1. f \in Surjection(DOMAIN p, All)
    BY DEF Surjection
  <2>2. QED
    BY <1>1, <2>1, FS_Surjection
<1>4. IsFiniteSet(UNION All)
  <2>1. \A T \in All : IsFiniteSet(T)
    BY <1>2
  <2>2. QED
    BY <1>3, <2>1, FS_UNION
<1>5. QED
  BY <1>4, FS_CardinalityType DEF PromptLen, TokenIds

-----------------------------------------------------------------------------
(* Chats.                                                                  *)

LEMMA TurnType ==
    ASSUME NEW form \in {"first", "followup"}, NEW m \in Message
    PROVE  /\ Turn(form, m) \in TurnEntry
           /\ Turn(form, m).form = form
BY DEF Turn, TurnEntry

\* The messages kept by an eviction are remembered ones; some are kept if
\* there are any.
LEMMA KeptType ==
    ASSUME TypeOK, NEW m \in Message
    PROVE  /\ Kept(m) \in Seq(Message)
           /\ Kept(m) = <<>> <=> turn_messages = <<>>
           /\ Kept(m) \in Suffixes(turn_messages)
<1> DEFINE k == KeepFrom(turn_messages, TurnLen(NextTurn(m)))
           ms == turn_messages
<1>1. ms \in Seq(Message) /\ Len(ms) \in Nat /\ DOMAIN ms = 1 .. Len(ms)
  BY LenProperties DEF TypeOK
<1>2. k \in DOMAIN ms \/ k = 1
  <2> DEFINE fitting == {i \in DOMAIN ms :
                 TurnLen(NextTurn(m)) + EstimateFrom(ms, i) <= Available}
  <2>1. k = IF fitting = {} THEN 1 ELSE Min(fitting)
    BY DEF KeepFrom
  <2>2. fitting \subseteq DOMAIN ms /\ fitting \subseteq Nat
    BY <1>1
  <2>3. CASE fitting # {}
    <3>1. Min(fitting) \in fitting
      <4> HIDE DEF fitting
      <4> QED BY <2>2, <2>3, MinIsMember
    <3>2. QED
      BY <2>1, <2>3, <3>1, <2>2
  <2>4. QED
    BY <2>1, <2>3
<1>3. Kept(m) = SubSeq(ms, k, Len(ms))
  BY DEF Kept
<1> HIDE DEF k
<1>4. k \in Int /\ \A i \in k .. Len(ms) : ms[i] \in Message
  BY <1>1, <1>2, ElementOfSeq
<1>5. /\ Kept(m) \in Seq(Message)
      /\ Len(Kept(m)) = IF k <= Len(ms) THEN Len(ms) - k + 1 ELSE 0
  BY <1>1, <1>3, <1>4, SubSeqProperties
<1>6. CASE ms = <<>>
  <2>1. Len(ms) = 0
    BY <1>6
  <2>2. k = 1
    BY <1>1, <1>2, <2>1
  <2>3. Len(Kept(m)) = 0
    BY <1>5, <2>1, <2>2
  <2>4. Kept(m) = <<>>
    BY <1>5, <2>3, EmptySeq
  <2>5. QED
    BY <1>5, <1>6, <2>4 DEF Suffixes
<1>7. CASE ms # <<>>
  <2>1. Len(ms) >= 1
    BY <1>1, <1>7, EmptySeq
  <2>2. k <= Len(ms)
    BY <1>1, <1>2, <2>1
  <2>3. Len(Kept(m)) # 0
    BY <1>1, <1>4, <1>5, <2>2
  <2>4. k \in 1 .. Len(ms)
    BY <1>1, <1>2, <2>2
  <2>5. Kept(m) \in Suffixes(ms)
    BY <1>3, <2>4 DEF Suffixes
  <2>6. QED
    BY <1>5, <1>7, <2>3, <2>5
<1>8. QED
  BY <1>6, <1>7

\* A rebuilt prompt consists of turns.
LEMMA RebuiltType ==
    ASSUME NEW kept \in Seq(Message), NEW t \in TurnEntry
    PROVE  Rebuilt(kept, t) \in Seq(TurnEntry) /\ Rebuilt(kept, t) # <<>>
<1> DEFINE ns == [i \in DOMAIN kept |->
                    Turn(IF i = 1 THEN "first" ELSE "followup", kept[i])]
<1>1. DOMAIN kept = 1 .. Len(kept) /\ Len(kept) \in Nat
  BY LenProperties
<1>2. ASSUME NEW i \in DOMAIN kept PROVE ns[i] \in TurnEntry
  <2>1. kept[i] \in Message
    BY <1>1, ElementOfSeq
  <2> QED BY <2>1, TurnType
<1>3. ns \in Seq(TurnEntry)
  <2>1. ns \in [1 .. Len(kept) -> TurnEntry]
    BY <1>1, <1>2
  <2> QED BY <1>1, <2>1, IsASeq
<1>4. Rebuilt(kept, t) = Append(ns, t)
  BY DEF Rebuilt
<1> HIDE DEF ns
<1> QED BY <1>3, <1>4, AppendProperties

\* Sequences: what precedes an appended element, and the longest suffix.
LEMMA FrontOfAppend ==
    ASSUME NEW T, NEW s \in Seq(T), NEW e \in T
    PROVE  Front(Append(s, e)) = s
<1> DEFINE a == Append(s, e)
           f == SubSeq(a, 1, Len(a) - 1)
<1>1. /\ a \in Seq(T) /\ Len(a) = Len(s) + 1 /\ Len(s) \in Nat
      /\ \A i \in 1 .. Len(s) : a[i] = s[i]
  BY AppendProperties, LenProperties
<1> HIDE DEF a
<1>2. \A i \in 1 .. Len(s) : a[i] \in T
  BY <1>1, ElementOfSeq
<1>3. Len(a) - 1 = Len(s)
  BY <1>1
<1>4. /\ f \in Seq(T) /\ Len(f) = Len(s)
      /\ \A i \in 1 .. Len(s) : f[i] = a[1 + i - 1]
  BY <1>1, <1>2, <1>3, SubSeqProperties
<1> HIDE DEF f
<1>5. \A i \in 1 .. Len(s) : f[i] = s[i]
  BY <1>1, <1>4
<1>6. f = s
  BY <1>4, <1>5, SeqEqual
<1> QED BY <1>6 DEF Front, a, f

LEMMA WholeIsSuffix ==
    ASSUME NEW T, NEW s \in Seq(T)
    PROVE  s \in Suffixes(s)
<1>1. Len(s) \in Nat /\ (Len(s) = 0 <=> s = <<>>)
  BY LenProperties, EmptySeq
<1>2. SubSeq(s, 1, Len(s)) = s
  OBVIOUS
<1>3. CASE Len(s) = 0
  BY <1>1, <1>3 DEF Suffixes
<1>4. CASE 1 \in 1 .. Len(s)
  BY <1>2, <1>4 DEF Suffixes
<1> QED BY <1>1, <1>3, <1>4

\* A rebuilt prompt is a chat, if the new turn was framed as a first one
\* exactly when nothing is kept before it.
LEMMA RebuiltShape ==
    ASSUME NEW kept \in Seq(Message), NEW m \in Message, NEW t,
           t = Turn(IF kept = <<>> THEN "first" ELSE "followup", m)
    PROVE  /\ Rebuilt(kept, t) \in Seq(TurnEntry)
           /\ Rebuilt(kept, t) # <<>>
           /\ WellFormed(Rebuilt(kept, t))
<1> DEFINE ns == [i \in DOMAIN kept |->
                    Turn(IF i = 1 THEN "first" ELSE "followup", kept[i])]
<1>1. DOMAIN kept = 1 .. Len(kept) /\ Len(kept) \in Nat
  BY LenProperties
<1>2. t \in TurnEntry /\ t.form = IF kept = <<>> THEN "first" ELSE "followup"
  BY TurnType
<1>3. ASSUME NEW i \in DOMAIN kept
      PROVE  /\ ns[i] \in TurnEntry
             /\ ns[i].form = IF i = 1 THEN "first" ELSE "followup"
  <2>1. kept[i] \in Message
    BY <1>1, ElementOfSeq
  <2>2. QED
    BY <2>1, TurnType
<1>4. ns \in Seq(TurnEntry) /\ Len(ns) = Len(kept)
  <2>1. ns \in [1 .. Len(kept) -> TurnEntry]
    BY <1>1, <1>3
  <2>2. QED
    BY <1>1, <2>1, IsASeq, LenProperties
<1>5. Rebuilt(kept, t) = Append(ns, t)
  BY DEF Rebuilt
<1> HIDE DEF ns
<1> DEFINE r == Append(ns, t)
<1>6. /\ r \in Seq(TurnEntry) /\ r # <<>>
      /\ Len(r) = Len(kept) + 1
      /\ \A i \in 1 .. Len(kept) : r[i] = ns[i]
      /\ r[Len(kept) + 1] = t
  BY <1>2, <1>4, AppendProperties
<1>7. kept = <<>> <=> Len(kept) = 0
  BY EmptySeq
<1> HIDE DEF r
<1>8. ASSUME NEW i \in DOMAIN r
      PROVE  r[i].form = IF i = 1 THEN "first" ELSE "followup"
  <2>1. i \in 1 .. Len(kept) + 1
    BY <1>6, LenProperties
  <2>2. CASE i \in 1 .. Len(kept)
    BY <1>1, <1>3, <1>6, <2>2
  <2>3. CASE i = Len(kept) + 1
    BY <1>1, <1>2, <1>6, <1>7, <2>3
  <2>4. QED
    BY <1>1, <2>1, <2>2, <2>3
<1>9. WellFormed(r)
  BY <1>8 DEF WellFormed
<1>10. QED
  BY <1>5, <1>6, <1>9 DEF r

\* A chat followed by a turn framed for it is a chat, and so is one followed
\* by the reply to its last turn.
LEMMA ExtendedShape ==
    ASSUME NEW chat \in Seq(Entry), WellFormed(chat), NEW e \in Entry,
           \/ /\ e \in TurnEntry
              /\ e.form = IF chat = <<>> THEN "first" ELSE "followup"
           \/ e = Reply /\ chat # <<>> /\ Last(chat) # Reply
    PROVE  WellFormed(Append(chat, e))
<1> DEFINE n == Len(chat)
           x == Append(chat, e)
<1>1. n \in Nat /\ DOMAIN chat = 1 .. n /\ (chat = <<>> <=> n = 0)
  BY LenProperties, EmptySeq
<1>2. /\ x \in Seq(Entry) /\ Len(x) = n + 1 /\ x[n + 1] = e
      /\ \A i \in 1 .. n : x[i] = chat[i]
  BY AppendProperties
<1>3. DOMAIN x = 1 .. n + 1
  BY <1>2, LenProperties
<1> HIDE DEF x, n
<1>4. ASSUME NEW i \in 1 .. n
      PROVE  /\ x[i].form = "first" <=> i = 1
             /\ x[i].form = "reply" => i > 1 /\ x[i - 1].form # "reply"
  <2>1. /\ chat[i].form = "first" <=> i = 1
        /\ chat[i].form = "reply" => i > 1 /\ chat[i - 1].form # "reply"
    BY <1>1 DEF WellFormed
  <2>2. i > 1 => i - 1 \in 1 .. n
    BY <1>1
  <2>3. QED
    BY <1>2, <2>1, <2>2
<1>5. /\ e.form = "first" <=> n + 1 = 1
      /\ e.form = "reply" => n + 1 > 1 /\ x[n].form # "reply"
  <2>1. CASE e \in TurnEntry /\ e.form = IF chat = <<>> THEN "first" ELSE "followup"
    BY <1>1, <2>1
  <2>2. CASE e = Reply /\ chat # <<>> /\ Last(chat) # Reply
    <3>1. n \in 1 .. n /\ chat[n] \in Entry /\ chat[n] # Reply
      BY <1>1, <2>2, ElementOfSeq DEF Last, n
    <3>2. chat[n].form # "reply"
      BY <3>1 DEF Entry, TurnEntry
    <3>3. x[n].form # "reply"
      BY <1>2, <3>1, <3>2
    <3>4. QED
      BY <1>1, <2>2, <3>1, <3>3 DEF Reply
  <2>3. QED
    BY <2>1, <2>2
<1>6. QED
  BY <1>1, <1>2, <1>3, <1>4, <1>5 DEF WellFormed, x

-----------------------------------------------------------------------------

LEMMA InitInv == Init => IInv
<1> SUFFICES ASSUME Init PROVE IInv
  OBVIOUS
<1> USE EngineAssumption DEF EngineAssumption
<1>1. <<>> \o <<>> = <<>> /\ <<>> \in Seq(Entry)
  BY ConcatEmptySeq, EmptySeq
<1>2. TypeOK
  <2>1. /\ turn_messages \in Seq(Message)
        /\ cache \in Seq(Entry)
        /\ turn_ids \in Seq(TurnEntry)
    BY EmptySeq DEF Init
  <2>2. head \in 0 .. ContextLen /\ max_new \in Nat \ {0}
    BY DEF Init
  <2>3. QED
    BY <2>1, <2>2 DEF Init, TypeOK
<1>3. Backed /\ InCall
  BY DEF Init, Backed, InCall
<1>4. Context = <<>>
  BY <1>1 DEF Init, Context
<1>5. Counted /\ ChatShape
  BY <1>4 DEF Init, Counted, ChatShape, WellFormed
<1>6. QED
  BY <1>2, <1>3, <1>5 DEF IInv

\* Outside of a prefill the context is the cache.
LEMMA NoPrompt ==
    ASSUME IInv, phase # "prefill"
    PROVE  turn_ids = <<>> /\ Context = cache
<1>1. turn_ids = <<>> /\ cache \in Seq(Entry)
  BY DEF IInv, InCall, TypeOK
<1>2. QED
  BY <1>1, ConcatEmptySeq DEF Context

LEMMA EntrySeqs ==
    ASSUME NEW p \in Seq(TurnEntry)
    PROVE  p \in Seq(Entry) /\ <<>> \o p = p
<1>1. TurnEntry \subseteq Entry
  BY DEF Entry
<1>2. QED
  BY <1>1, SeqMonotonic, ConcatEmptySeq

\* The turn that is built follows the conversation as it stands, unless the
\* two memories have parted.
LEMMA AppendTurnInv ==
    ASSUME IInv, NEW m \in Message, phase = "idle", AppendTurn(m)
    PROVE  /\ turn_messages' \in Seq(Message)
           /\ turn_ids' \in Seq(TurnEntry) /\ turn_ids' # <<>>
           /\ turn_count' \in Nat
           /\ Backed' /\ Counted' /\ ChatShape'
<1> DEFINE t == NextTurn(m)
<1>1. /\ t \in TurnEntry /\ t \in Entry
      /\ t.form = IF turn_count = 0 THEN "first" ELSE "followup"
  BY TurnType DEF NextTurn, Entry
<1>2. /\ turn_ids' = <<t>> /\ cache' = cache /\ lost' = lost
      /\ turn_count' = turn_count + 1 /\ turn_messages' = Append(turn_messages, m)
  BY DEF AppendTurn
<1> HIDE DEF t
<1>3. /\ turn_messages' \in Seq(Message) /\ turn_messages' # <<>>
      /\ turn_count' \in Nat /\ turn_count' > 0
  BY <1>2, AppendProperties DEF IInv, TypeOK
<1>4. turn_ids' \in Seq(TurnEntry) /\ turn_ids' # <<>>
  BY <1>1, <1>2
<1>5. Context = cache /\ cache \in Seq(Entry)
  BY NoPrompt DEF IInv, TypeOK
<1>6. Context' = Append(cache, t)
  BY <1>1, <1>2, <1>5, AppendIsConcat DEF Context
<1>7. Append(cache, t) # <<>>
  BY <1>1, <1>5, AppendProperties
<1>8. ASSUME ~lost
      PROVE  WellFormed(Append(cache, t))
  <2>1. turn_count = 0 <=> cache = <<>>
    BY <1>5, <1>8 DEF IInv, Counted
  <2>2. WellFormed(cache)
    BY <1>5, <1>8 DEF IInv, ChatShape
  <2>3. QED
    BY <1>1, <1>5, <2>1, <2>2, ExtendedShape
<1>9. Backed'
  BY <1>3 DEF Backed
<1>10. Counted'
  BY <1>3, <1>6, <1>7 DEF Counted
<1>11. ChatShape'
  BY <1>2, <1>6, <1>8 DEF ChatShape
<1>12. QED
  BY <1>3, <1>4, <1>9, <1>10, <1>11

\* A rebuild restores the shape, or says that it did not: the counter may be
\* behind the messages only after a reset.
LEMMA RebuildWindowInv ==
    ASSUME IInv, NEW m \in Message, phase = "idle", RebuildWindow(m)
    PROVE  /\ turn_messages' \in Seq(Message)
           /\ turn_ids' \in Seq(TurnEntry) /\ turn_ids' # <<>>
           /\ turn_count' \in Nat
           /\ forgotten' \in Nat
           /\ Backed' /\ Counted' /\ ChatShape'
<1> DEFINE kept == Kept(m)
           t == NextTurn(m)
           p == Rebuilt(kept, t)
<1>1. /\ kept \in Seq(Message) /\ Len(kept) \in Nat
      /\ kept = <<>> <=> turn_messages = <<>>
  BY KeptType, LenProperties DEF IInv
<1>2. /\ turn_ids' = p /\ cache' = <<>>
      /\ lost' = (turn_count = 0 /\ turn_messages # <<>>)
      /\ turn_count' = Len(kept) + 1 /\ turn_messages' = Append(kept, m)
      /\ forgotten' = Max({0, forgotten - (Len(turn_messages) - Len(kept))})
  BY DEF RebuildWindow, ClearKv
<1>3. t = Turn(IF turn_count = 0 THEN "first" ELSE "followup", m)
  BY DEF NextTurn
<1>4. t \in TurnEntry
  BY <1>3, TurnType
<1>5. p \in Seq(TurnEntry) /\ p # <<>>
  BY <1>1, <1>4, RebuiltType
<1> HIDE DEF kept, t, p
<1>6. /\ turn_messages' \in Seq(Message) /\ turn_messages' # <<>>
      /\ turn_count' \in Nat /\ turn_count' > 0
  BY <1>1, <1>2, AppendProperties
<1>7. forgotten' \in Nat
  <2>1. Len(turn_messages) \in Nat /\ forgotten \in Nat
    BY LenProperties DEF IInv, TypeOK
  <2> DEFINE d == forgotten - (Len(turn_messages) - Len(kept))
  <2>2. d \in Int /\ forgotten' = Max({0, d})
    BY <1>1, <1>2, <2>1
  <2> HIDE DEF d
  <2>3. Max({0, d}) \in {0, d} /\ Max({0, d}) >= 0
    BY <2>2, MaxOfTwo
  <2>4. QED
    BY <2>2, <2>3
<1>8. Context' = p
  BY <1>2, <1>5, EntrySeqs DEF Context
<1>9. ASSUME ~lost'
      PROVE  WellFormed(p)
  <2>1. turn_count = 0 <=> kept = <<>>
    <3>1. turn_count = 0 => turn_messages = <<>>
      BY <1>2, <1>9
    <3>2. turn_count # 0 => turn_messages # <<>>
      BY DEF IInv, Backed, TypeOK
    <3>3. QED
      BY <1>1, <3>1, <3>2
  <2>2. t = Turn(IF kept = <<>> THEN "first" ELSE "followup", m)
    BY <1>3, <2>1
  <2>3. QED
    BY <1>1, <2>2, RebuiltShape DEF p
<1>10. Backed'
  BY <1>6 DEF Backed
<1>11. Counted'
  BY <1>5, <1>6, <1>8 DEF Counted
<1>12. ChatShape'
  BY <1>8, <1>9 DEF ChatShape
<1>13. QED
  BY <1>2, <1>5, <1>6, <1>7, <1>10, <1>11, <1>12

LEMMA FullResetInv ==
    ASSUME IInv, NEW m \in Message, phase = "idle", FullReset(m)
    PROVE  /\ turn_messages' \in Seq(Message)
           /\ turn_ids' \in Seq(TurnEntry) /\ turn_ids' # <<>>
           /\ turn_count' \in Nat
           /\ Backed' /\ Counted' /\ ChatShape'
<1> DEFINE t == Turn("first", m)
<1>1. t \in TurnEntry /\ t.form = "first"
  BY TurnType
<1>2. /\ turn_ids' = <<t>> /\ cache' = <<>>
      /\ turn_count' = 1 /\ turn_messages' = <<m>>
  BY DEF FullReset, ClearKv
<1> HIDE DEF t
<1>3. turn_messages' \in Seq(Message) /\ turn_messages' # <<>>
  BY <1>2
<1>4. turn_ids' \in Seq(TurnEntry) /\ turn_ids' # <<>>
  BY <1>1, <1>2
<1>5. Context' = <<t>>
  BY <1>2, <1>4, EntrySeqs DEF Context
<1>6. WellFormed(<<t>>)
  BY <1>1 DEF WellFormed
<1>7. QED
  BY <1>2, <1>3, <1>4, <1>5, <1>6 DEF Backed, Counted, ChatShape

-----------------------------------------------------------------------------
(* The steps.                                                              *)

LEMMA GenerateInv ==
    ASSUME IInv, NEW m \in Message, NEW n \in MaxTokensArg, Generate(m, n)
    PROVE  IInv'
<1> USE EngineAssumption DEF EngineAssumption
<1>1. /\ phase = "idle" /\ phase' = "prefill" /\ max_new' = Max({n, 1})
      /\ generated' = 0 /\ next_token' = "none" /\ result' = "none"
      /\ AppendTurn(m) \/ RebuildWindow(m) \/ FullReset(m)
  BY DEF Generate
<1>2. /\ turn_messages' \in Seq(Message)
      /\ turn_ids' \in Seq(TurnEntry) /\ turn_ids' # <<>>
      /\ turn_count' \in Nat
      /\ Backed' /\ Counted' /\ ChatShape'
  BY <1>1, AppendTurnInv, RebuildWindowInv, FullResetInv
<1>3. head' \in 0 .. ContextLen /\ cache' \in Seq(Entry) /\ lost' \in BOOLEAN
  <2>1. CASE AppendTurn(m)
    BY <2>1 DEF AppendTurn, IInv, TypeOK
  <2>2. CASE RebuildWindow(m) \/ FullReset(m)
    <3>1. head' = 0 /\ cache' = <<>> /\ lost' \in BOOLEAN
      BY <2>2 DEF RebuildWindow, FullReset, ClearKv
    <3>2. QED
      BY <3>1, EmptySeq
  <2>3. QED
    BY <1>1, <2>1, <2>2
<1>4. forgotten' \in Nat
  <2>1. CASE AppendTurn(m)
    BY <2>1 DEF AppendTurn, IInv, TypeOK
  <2>2. CASE RebuildWindow(m)
    BY <1>1, <2>2, RebuildWindowInv
  <2>3. CASE FullReset(m)
    BY <2>3 DEF FullReset
  <2>4. QED
    BY <1>1, <2>1, <2>2, <2>3
<1>5. max_new' \in Nat \ {0}
  <2>1. n \in Int /\ 1 \in Int
    OBVIOUS
  <2>2. /\ Max({n, 1}) \in {n, 1}
        /\ Max({n, 1}) >= 1
    BY ONLY <2>1, MaxOfTwo
  <2>3. QED
    BY <1>1, <2>1, <2>2
<1>6. TypeOK'
  BY <1>1, <1>2, <1>3, <1>4, <1>5 DEF TypeOK
<1>7. InCall'
  BY <1>1, <1>2 DEF InCall
<1>8. QED
  BY <1>2, <1>6, <1>7 DEF IInv

\* A failure before the prompt is in the cache leaves the cache and says that
\* the memories have parted.
LEMMA RefusalInv ==
    ASSUME IInv, ContextFull \/ PrefillFails
    PROVE  IInv'
<1>1. /\ phase' = "idle" /\ turn_ids' = <<>> /\ generated' = 0 /\ max_new' = 1
      /\ result' \in {"ContextFull", "Error"} /\ lost' = TRUE
      /\ UNCHANGED <<turn_count, turn_messages, forgotten, head, cache, next_token>>
  BY DEF ContextFull, PrefillFails, Return, kv
<1>2. TypeOK'
  <2>1. turn_ids' \in Seq(TurnEntry)
    BY <1>1, EmptySeq
  <2>2. QED
    BY <1>1, <2>1 DEF IInv, TypeOK
<1>3. Backed' /\ InCall'
  BY <1>1 DEF IInv, Backed, InCall
<1>4. Counted' /\ ChatShape'
  BY <1>1 DEF Counted, ChatShape
<1>5. QED
  BY <1>2, <1>3, <1>4 DEF IInv

\* Feeding the prompt moves it into the cache: the context stays the same.
LEMMA FeedPromptInv ==
    ASSUME IInv, Prefill \/ PrefillThenSampleFails
    PROVE  IInv'
<1> USE EngineAssumption DEF EngineAssumption
<1>1. /\ phase = "prefill" /\ turn_ids' = <<>> /\ phase' \in {"loop", "idle"}
      /\ head + PromptLen(turn_ids) <= ContextLen
      /\ head' = head + PromptLen(turn_ids)
      /\ cache' = cache \o turn_ids
      /\ UNCHANGED <<turn_count, turn_messages, lost, forgotten>>
  BY DEF Prefill, PrefillThenSampleFails, FeedPrompt, Return, conversation
<1>2. /\ max_new' \in Nat \ {0} /\ generated' \in Nat
      /\ next_token' \in {"none", "eos", "text"}
      /\ result' \in {"none", "EndOfTurn", "MaxTokens", "ContextFull", "Error"}
  BY DEF Prefill, PrefillThenSampleFails, Return, IInv, TypeOK
<1>3. /\ turn_ids \in Seq(TurnEntry) /\ turn_ids \in Seq(Entry)
      /\ turn_ids # <<>> /\ cache \in Seq(Entry)
  BY <1>1, EntrySeqs DEF IInv, TypeOK, InCall
<1>4. cache' \in Seq(Entry) /\ cache' # <<>>
  <2>1. /\ cache \o turn_ids \in Seq(Entry)
        /\ Len(cache \o turn_ids) = Len(cache) + Len(turn_ids)
    BY <1>3, ConcatProperties
  <2>2. Len(cache) \in Nat /\ Len(turn_ids) \in Nat /\ Len(turn_ids) # 0
    BY <1>3, LenProperties, EmptySeq
  <2>3. Len(cache \o turn_ids) # 0
    BY <2>1, <2>2
  <2>4. QED
    BY <1>1, <2>1, <2>3, EmptySeq
<1>5. Context' = Context
  <2>1. cache' \o <<>> = cache'
    BY <1>4, ConcatEmptySeq
  <2>2. QED
    BY <1>1, <2>1 DEF Context
<1>6. TypeOK'
  <2>1. head' \in 0 .. ContextLen
    <3>1. PromptLen(turn_ids) \in Nat /\ head \in Nat
      BY <1>3, PromptLenType DEF IInv, TypeOK
    <3>2. QED
      BY <1>1, <3>1
  <2>2. turn_ids' \in Seq(TurnEntry)
    BY <1>1, EmptySeq
  <2>3. QED
    BY <1>1, <1>2, <1>4, <2>1, <2>2 DEF IInv, TypeOK
<1>7. Backed' /\ InCall'
  BY <1>1, <1>4 DEF IInv, Backed, InCall
<1>8. Counted' /\ ChatShape'
  BY <1>1, <1>5 DEF IInv, Counted, ChatShape
<1>9. QED
  BY <1>6, <1>7, <1>8 DEF IInv

\* A decoded token begins the reply or lengthens it.
LEMMA FeedTokenInv ==
    ASSUME IInv, Decode \/ DecodeThenSampleFails
    PROVE  IInv'
<1> USE EngineAssumption DEF EngineAssumption
<1>1. /\ phase = "loop" /\ phase' \in {"loop", "idle"} /\ ~(head >= ContextLen)
      /\ head' = head + 1
      /\ cache' = IF Last(cache) = Reply THEN cache ELSE Append(cache, Reply)
      /\ turn_ids' \in {turn_ids, <<>>}
      /\ UNCHANGED <<turn_count, turn_messages, lost, forgotten>>
  BY DEF Decode, DecodeThenSampleFails, FeedToken, LoopEnds, Return, conversation
<1>2. /\ max_new' \in Nat \ {0} /\ generated' \in Nat
      /\ next_token' \in {"none", "eos", "text"}
      /\ result' \in {"none", "EndOfTurn", "MaxTokens", "ContextFull", "Error"}
  BY DEF Decode, DecodeThenSampleFails, Return, IInv, TypeOK
<1>3. turn_ids = <<>> /\ turn_ids' = <<>> /\ Context = cache
  BY <1>1, NoPrompt
<1>4. cache \in Seq(Entry) /\ cache # <<>> /\ Reply \in Entry
  BY <1>1 DEF IInv, TypeOK, InCall, Entry
<1>5. cache' \in Seq(Entry) /\ cache' # <<>>
  <2>1. Append(cache, Reply) \in Seq(Entry) /\ Append(cache, Reply) # <<>>
    BY <1>4, AppendProperties
  <2>2. QED
    BY <1>1, <1>4, <2>1
<1>6. Context' = cache'
  BY <1>3, <1>5, ConcatEmptySeq DEF Context
<1>7. TypeOK'
  <2>1. head' \in 0 .. ContextLen
    <3>1. head \in 0 .. ContextLen
      BY DEF IInv, TypeOK
    <3>2. QED
      BY <1>1, <3>1
  <2>2. turn_ids' \in Seq(TurnEntry)
    BY <1>3, EmptySeq
  <2>3. QED
    BY <1>1, <1>2, <1>5, <2>1, <2>2 DEF IInv, TypeOK
<1>8. Backed' /\ InCall'
  BY <1>1, <1>3, <1>5 DEF IInv, Backed, InCall
<1>9. Counted'
  BY <1>1, <1>3, <1>4, <1>5, <1>6 DEF IInv, Counted
<1>10. ChatShape'
  <2>1. ASSUME ~lost
        PROVE  WellFormed(cache')
    <3>1. WellFormed(cache)
      BY <1>3, <2>1 DEF IInv, ChatShape
    <3>2. CASE Last(cache) = Reply
      BY <1>1, <3>1, <3>2
    <3>3. CASE Last(cache) # Reply
      BY <1>1, <1>4, <3>1, <3>3, ExtendedShape
    <3>4. QED
      BY <3>2, <3>3
  <2>2. QED
    BY <1>1, <1>6, <2>1 DEF ChatShape
<1>11. QED
  BY <1>7, <1>8, <1>9, <1>10 DEF IInv

\* Ending a reply touches neither memory.
LEMMA EndInv ==
    ASSUME IInv, Finish \/ DecodeFails
    PROVE  IInv'
<1>1. /\ phase = "loop" /\ phase' = "idle" /\ turn_ids' = <<>>
      /\ generated' = 0 /\ max_new' = 1
      /\ result' \in {"EndOfTurn", "MaxTokens", "Error"}
      /\ UNCHANGED <<turn_count, turn_messages, lost, forgotten, head, cache,
                     next_token>>
  BY DEF Finish, DecodeFails, Return, StopReason, conversation, kv
<1>2. turn_ids' = turn_ids
  BY <1>1, NoPrompt
<1>3. Context' = Context
  BY <1>1, <1>2 DEF Context
<1>4. TypeOK'
  <2>1. turn_ids' \in Seq(TurnEntry)
    BY <1>2 DEF IInv, TypeOK
  <2>2. QED
    BY <1>1, <2>1 DEF IInv, TypeOK
<1>5. Backed' /\ InCall'
  BY <1>1 DEF IInv, Backed, InCall
<1>6. Counted' /\ ChatShape'
  BY <1>1, <1>3 DEF IInv, Counted, ChatShape
<1>7. QED
  BY <1>4, <1>5, <1>6 DEF IInv

\* A reset empties the context and the counter together.
LEMMA ResetInv ==
    ASSUME IInv, Reset
    PROVE  IInv'
<1> USE EngineAssumption DEF EngineAssumption
<1>1. /\ phase = "idle" /\ head' = 0 /\ cache' = <<>> /\ turn_count' = 0
      /\ forgotten' = Len(turn_messages) /\ lost' \in BOOLEAN
      /\ UNCHANGED <<turn_messages, phase, turn_ids, max_new, generated,
                     next_token, result>>
  BY DEF Reset, ClearKv, call
<1>2. turn_ids' = <<>> /\ Context' = <<>>
  <2>1. turn_ids' = <<>>
    BY <1>1, NoPrompt
  <2>2. <<>> \o <<>> = <<>>
    BY EmptySeq, ConcatEmptySeq
  <2>3. QED
    BY <1>1, <2>1, <2>2 DEF Context
<1>3. TypeOK'
  <2>1. cache' \in Seq(Entry) /\ forgotten' \in Nat
    BY <1>1, EmptySeq, LenProperties DEF IInv, TypeOK
  <2>2. head' \in 0 .. ContextLen /\ turn_count' \in Nat
    BY <1>1
  <2>3. QED
    BY <1>1, <2>1, <2>2 DEF IInv, TypeOK
<1>4. Backed' /\ InCall'
  BY <1>1, <1>2 DEF IInv, Backed, InCall
<1>5. Counted' /\ ChatShape'
  BY <1>1, <1>2 DEF Counted, ChatShape, WellFormed
<1>6. QED
  BY <1>3, <1>4, <1>5 DEF IInv

LEMMA NextInv == IInv /\ [Next]_vars => IInv'
<1> SUFFICES ASSUME IInv, [Next]_vars PROVE IInv'
  OBVIOUS
<1>1. CASE \E m \in Message, n \in MaxTokensArg : Generate(m, n)
  BY <1>1, GenerateInv
<1>2. CASE ContextFull \/ PrefillFails
  BY <1>2, RefusalInv
<1>3. CASE Prefill \/ PrefillThenSampleFails
  BY <1>3, FeedPromptInv
<1>4. CASE Decode \/ DecodeThenSampleFails
  BY <1>4, FeedTokenInv
<1>5. CASE Finish \/ DecodeFails
  BY <1>5, EndInv
<1>6. CASE Reset
  BY <1>6, ResetInv
<1>7. CASE UNCHANGED vars
  BY <1>7 DEF vars, IInv, TypeOK, Backed, InCall, Counted, ChatShape, Context
<1>8. QED
  BY <1>1, <1>2, <1>3, <1>4, <1>5, <1>6, <1>7 DEF Next, Continue

\* Type correctness: in particular the head of the KV cache never passes the
\* end of the window, whatever is sent, evicted, refused or decoded
\* (run_generation_inner's check before the prefill and the loop's break).
THEOREM TypeCorrect == Spec => []TypeOK
<1>1. IInv => TypeOK
  BY DEF IInv
<1>2. QED
  BY InitInv, NextInv, <1>1, PTL DEF Spec

\* As long as no turn failed before it reached the cache and no reset left
\* messages behind, the model is given one system prompt, first, and
\* well-nested turns: prepare_turn frames a turn by turn_count, and the
\* rebuilt prompt, the cache and the counter agree.
THEOREM PromptIsChat == Spec => []ChatShape
<1>1. IInv => ChatShape
  BY DEF IInv
<1>2. QED
  BY InitInv, NextInv, <1>1, PTL DEF Spec

-----------------------------------------------------------------------------
(* What the engine remembers.                                              *)

\* at leads the turns of the chat to messages of ms, to all of them if full.
Leads(chat, ms, full, at) ==
    /\ at \in [TurnsOf(chat) -> DOMAIN ms]
    /\ Remembered(chat, ms, at)
    /\ full => \A j \in DOMAIN ms : \E i \in TurnsOf(chat) : at[i] = j

Memory(chat, ms, full) ==
    \E at \in [TurnsOf(chat) -> DOMAIN ms] : Leads(chat, ms, full, at)

MInv == Memory(Context, turn_messages, ~lost)

\* A message and its turn come together.
LEMMA TurnRemembered ==
    ASSUME NEW chat \in Seq(Entry), NEW ms \in Seq(Message), NEW full,
           Memory(chat, ms, full), NEW e \in TurnEntry
    PROVE  Memory(Append(chat, e), Append(ms, e.msg), full)
<1> DEFINE n == Len(chat)
           k == Len(ms)
           c2 == Append(chat, e)
           m2 == Append(ms, e.msg)
<1>1. /\ n \in Nat /\ DOMAIN chat = 1 .. n
      /\ k \in Nat /\ DOMAIN ms = 1 .. k
      /\ e.msg \in Message /\ e # Reply /\ e \in Entry
  BY LenProperties DEF TurnEntry, Reply, Entry
<1>2. /\ c2 \in Seq(Entry) /\ Len(c2) = n + 1 /\ c2[n + 1] = e
      /\ \A i \in 1 .. n : c2[i] = chat[i]
  BY <1>1, AppendProperties
<1>3. /\ m2 \in Seq(Message) /\ Len(m2) = k + 1 /\ m2[k + 1] = e.msg
      /\ \A i \in 1 .. k : m2[i] = ms[i]
  BY <1>1, AppendProperties
<1>4. DOMAIN c2 = 1 .. n + 1 /\ DOMAIN m2 = 1 .. k + 1
  BY <1>2, <1>3, LenProperties
<1> HIDE DEF n, k, c2, m2
<1>5. TurnsOf(c2) = TurnsOf(chat) \cup {n + 1} /\ TurnsOf(chat) \subseteq 1 .. n
  <2>1. TurnsOf(chat) = {i \in 1 .. n : chat[i] # Reply}
    BY <1>1 DEF TurnsOf
  <2>2. TurnsOf(c2) = {i \in 1 .. n + 1 : c2[i] # Reply}
    BY <1>4 DEF TurnsOf
  <2>3. 1 .. n + 1 = (1 .. n) \cup {n + 1}
    BY <1>1
  <2> QED BY <1>1, <1>2, <2>1, <2>2, <2>3
<1>6. PICK at \in [TurnsOf(chat) -> 1 .. k] : Leads(chat, ms, full, at)
  BY <1>1 DEF Memory
<1> DEFINE at2 == [i \in TurnsOf(c2) |-> IF i = n + 1 THEN k + 1 ELSE at[i]]
<1>7. /\ at2 \in [TurnsOf(c2) -> DOMAIN m2]
      /\ at2[n + 1] = k + 1
      /\ \A i \in TurnsOf(chat) : /\ i \in 1 .. n /\ i # n + 1
                                  /\ at[i] \in 1 .. k /\ at2[i] = at[i]
  BY <1>1, <1>4, <1>5, <1>6
<1> HIDE DEF at2
<1>8. ASSUME NEW i \in TurnsOf(c2), NEW j \in TurnsOf(c2), i < j
      PROVE  at2[i] < at2[j]
  <2>1. i \in TurnsOf(chat)
    BY <1>1, <1>5, <1>7, <1>8
  <2>2. CASE j \in TurnsOf(chat)
    BY <1>6, <1>7, <1>8, <2>1, <2>2 DEF Leads, Remembered
  <2>3. CASE j = n + 1
    BY <1>1, <1>7, <2>1, <2>3
  <2> QED BY <1>5, <2>2, <2>3
<1>9. ASSUME NEW i \in TurnsOf(c2) PROVE c2[i].msg = m2[at2[i]]
  <2>1. CASE i \in TurnsOf(chat)
    <3>1. chat[i].msg = ms[at[i]]
      BY <1>6, <2>1 DEF Leads, Remembered
    <3> QED BY <1>2, <1>3, <1>7, <2>1, <3>1
  <2>2. CASE i = n + 1
    BY <1>2, <1>3, <1>7, <2>2
  <2> QED BY <1>5, <2>1, <2>2
<1>10. ASSUME full, NEW j \in DOMAIN m2 PROVE \E i \in TurnsOf(c2) : at2[i] = j
  <2>1. CASE j \in 1 .. k
    <3>1. PICK i \in TurnsOf(chat) : at[i] = j
      BY <1>1, <1>6, <1>10, <2>1 DEF Leads
    <3> QED BY <1>5, <1>7, <3>1
  <2>2. CASE j = k + 1
    BY <1>5, <1>7, <2>2
  <2> QED BY <1>1, <1>4, <2>1, <2>2
<1>11. Leads(c2, m2, full, at2)
  BY <1>7, <1>8, <1>9, <1>10 DEF Leads, Remembered
<1> QED BY <1>7, <1>11 DEF Memory, c2, m2

\* A reply is not remembered, and does not matter.
LEMMA ReplyIgnored ==
    ASSUME NEW chat \in Seq(Entry), NEW ms, NEW full, Memory(chat, ms, full)
    PROVE  Memory(Append(chat, Reply), ms, full)
<1> DEFINE n == Len(chat)
           c2 == Append(chat, Reply)
<1>1. n \in Nat /\ DOMAIN chat = 1 .. n /\ Reply \in Entry
  BY LenProperties DEF Entry
<1>2. /\ c2 \in Seq(Entry) /\ Len(c2) = n + 1 /\ c2[n + 1] = Reply
      /\ \A i \in 1 .. n : c2[i] = chat[i]
  BY <1>1, AppendProperties
<1>3. DOMAIN c2 = 1 .. n + 1
  BY <1>2, LenProperties
<1> HIDE DEF n, c2
<1>4. TurnsOf(c2) = TurnsOf(chat)
  BY <1>1, <1>2, <1>3 DEF TurnsOf
<1>5. \A i \in TurnsOf(chat) : c2[i] = chat[i]
  BY <1>1, <1>2 DEF TurnsOf
<1>6. PICK at \in [TurnsOf(chat) -> DOMAIN ms] : Leads(chat, ms, full, at)
  BY DEF Memory
<1>7. Leads(c2, ms, full, at)
  BY <1>4, <1>5, <1>6 DEF Leads, Remembered
<1> QED BY <1>4, <1>6, <1>7 DEF Memory, c2

\* A prompt that is given up is forgotten, its message is not.
LEMMA PromptForgotten ==
    ASSUME NEW chat \in Seq(Entry), NEW p \in Seq(Entry), NEW ms, NEW full,
           Memory(chat \o p, ms, full)
    PROVE  Memory(chat, ms, FALSE)
<1> DEFINE c2 == chat \o p
<1>1. PICK at \in [TurnsOf(c2) -> DOMAIN ms] : Leads(c2, ms, full, at)
  BY DEF Memory
<1>2. TurnsOf(chat) \subseteq TurnsOf(c2)
      /\ \A i \in TurnsOf(chat) : c2[i] = chat[i]
  <2>1. /\ Len(chat) \in Nat /\ Len(p) \in Nat /\ c2 \in Seq(Entry)
        /\ DOMAIN chat = 1 .. Len(chat) /\ Len(c2) = Len(chat) + Len(p)
        /\ \A i \in 1 .. Len(chat) : c2[i] = chat[i]
    BY LenProperties, ConcatProperties
  <2>2. DOMAIN c2 = 1 .. Len(chat) + Len(p)
    BY <2>1, LenProperties
  <2> HIDE DEF c2
  <2> QED BY <2>1, <2>2 DEF TurnsOf
<1> HIDE DEF c2
<1> DEFINE at2 == [i \in TurnsOf(chat) |-> at[i]]
<1>3. /\ at2 \in [TurnsOf(chat) -> DOMAIN ms]
      /\ \A i \in TurnsOf(chat) : at2[i] = at[i]
  BY <1>2
<1> HIDE DEF at2
<1>4. Leads(chat, ms, FALSE, at2)
  BY <1>1, <1>2, <1>3 DEF Leads, Remembered
<1> QED BY <1>3, <1>4 DEF Memory

\* No chat is remembered in full by no messages.
LEMMA NothingRemembered ==
    ASSUME NEW ms \in Seq(Message)
    PROVE  Memory(<<>>, ms, ms = <<>>)
<1> DEFINE at == [i \in {} |-> 1]
<1>1. TurnsOf(<<>>) = {}
  BY DEF TurnsOf
<1>2. at \in [TurnsOf(<<>>) -> DOMAIN ms]
  BY <1>1
<1>3. ms = <<>> => DOMAIN ms = {}
  OBVIOUS
<1>4. Leads(<<>>, ms, ms = <<>>, at)
  BY <1>1, <1>2, <1>3 DEF Leads, Remembered
<1> QED BY <1>2, <1>4 DEF Memory

\* A rebuilt prompt has a turn for each message that is kept.
LEMMA RebuiltRemembered ==
    ASSUME NEW kept \in Seq(Message), NEW t \in TurnEntry
    PROVE  Memory(Rebuilt(kept, t), Append(kept, t.msg), TRUE)
<1> DEFINE ns == [i \in DOMAIN kept |->
                    Turn(IF i = 1 THEN "first" ELSE "followup", kept[i])]
           r == Append(ns, t)
           ms == Append(kept, t.msg)
           n == Len(kept)
           at == [i \in 1 .. n + 1 |-> i]
<1>1. /\ DOMAIN kept = 1 .. n /\ n \in Nat /\ t.msg \in Message
  BY LenProperties DEF TurnEntry
<1>2. ASSUME NEW i \in 1 .. n
      PROVE  ns[i] \in TurnEntry /\ ns[i].msg = kept[i]
  <2>1. kept[i] \in Message
    BY <1>1, ElementOfSeq
  <2>2. ns[i] = Turn(IF i = 1 THEN "first" ELSE "followup", kept[i])
    BY <1>1
  <2> QED BY <2>1, <2>2 DEF Turn, TurnEntry
<1>3. ns \in Seq(TurnEntry) /\ Len(ns) = n
  <2>1. ns \in [1 .. n -> TurnEntry]
    BY <1>1, <1>2
  <2> QED BY <1>1, <2>1, IsASeq, LenProperties
<1> HIDE DEF ns, n
<1>4. /\ r \in Seq(TurnEntry) /\ Len(r) = n + 1 /\ r[n + 1] = t
      /\ \A i \in 1 .. n : r[i] = ns[i]
  BY <1>3, AppendProperties
<1>5. /\ ms \in Seq(Message) /\ Len(ms) = n + 1 /\ ms[n + 1] = t.msg
      /\ \A i \in 1 .. n : ms[i] = kept[i]
  BY <1>1, AppendProperties DEF n
<1>6. DOMAIN r = 1 .. n + 1 /\ DOMAIN ms = 1 .. n + 1
  BY <1>4, <1>5, LenProperties
<1>7. r = Rebuilt(kept, t)
  BY DEF Rebuilt, ns
<1> HIDE DEF r, ms
<1>8. ASSUME NEW i \in 1 .. n + 1
      PROVE  r[i].msg = ms[i] /\ r[i] # Reply
  <2>1. r[i] \in TurnEntry
    BY <1>4, <1>6, ElementOfSeq
  <2>2. r[i] # Reply
    BY <2>1 DEF TurnEntry, Reply
  <2>3. i \in 1 .. n \/ i = n + 1
    BY <1>1
  <2> QED BY <1>2, <1>4, <1>5, <2>2, <2>3
<1>9. TurnsOf(r) = 1 .. n + 1
  BY <1>6, <1>8 DEF TurnsOf
<1>10. at \in [TurnsOf(r) -> DOMAIN ms] /\ \A i \in 1 .. n + 1 : at[i] = i
  BY <1>6, <1>9
<1> HIDE DEF at
<1>11. Leads(r, ms, TRUE, at)
  BY <1>6, <1>8, <1>9, <1>10 DEF Leads, Remembered
<1> QED BY <1>7, <1>10, <1>11 DEF Memory, ms

LEMMA MemoryInit == Init => MInv
<1> SUFFICES ASSUME Init PROVE MInv
  OBVIOUS
<1>1. Context = <<>> /\ turn_messages = <<>> /\ lost = FALSE
  BY ConcatEmptySeq, EmptySeq DEF Init, Context
<1>2. turn_messages \in Seq(Message)
  BY <1>1, EmptySeq
<1>3. Memory(<<>>, turn_messages, turn_messages = <<>>)
  BY <1>2, NothingRemembered
<1> QED BY <1>1, <1>3 DEF MInv, Memory, Leads

LEMMA MemoryNext == IInv /\ MInv /\ [Next]_vars => MInv'
<1> SUFFICES ASSUME IInv, MInv, [Next]_vars PROVE MInv'
  OBVIOUS
<1>0. /\ turn_messages \in Seq(Message) /\ cache \in Seq(Entry)
      /\ turn_ids \in Seq(TurnEntry) /\ turn_ids \in Seq(Entry)
  BY EntrySeqs DEF IInv, TypeOK
<1>1. ASSUME Context' = Context, UNCHANGED <<turn_messages, lost>> PROVE MInv'
  BY <1>1 DEF MInv
<1>2. ASSUME NEW m \in Message, phase = "idle", AppendTurn(m) PROVE MInv'
  <2> DEFINE t == NextTurn(m)
  <2>1. t \in TurnEntry /\ t \in Entry /\ t.msg = m
    BY TurnType DEF NextTurn, Turn, Entry
  <2>2. /\ turn_ids' = <<t>> /\ cache' = cache /\ lost' = lost
        /\ turn_messages' = Append(turn_messages, m)
    BY <1>2 DEF AppendTurn
  <2> HIDE DEF t
  <2>3. Context = cache
    BY <1>2, NoPrompt
  <2>4. Context' = Append(cache, t)
    BY <1>0, <2>1, <2>2, AppendIsConcat DEF Context
  <2> QED BY <1>0, <2>1, <2>2, <2>3, <2>4, TurnRemembered DEF MInv
<1>3. ASSUME NEW m \in Message, RebuildWindow(m) PROVE MInv'
  <2> DEFINE t == NextTurn(m)
             kept == Kept(m)
  <2>1. t \in TurnEntry /\ t.msg = m
    BY TurnType DEF NextTurn, Turn
  <2>2. kept \in Seq(Message)
    BY KeptType DEF IInv
  <2>3. /\ turn_ids' = Rebuilt(kept, t) /\ cache' = <<>>
        /\ turn_messages' = Append(kept, m)
    BY <1>3 DEF RebuildWindow, ClearKv
  <2>4. turn_ids' \in Seq(Entry)
    <3>1. /\ Rebuilt(kept, t) \in Seq(TurnEntry)
      BY <2>1, <2>2, RebuiltType
    <3> QED BY <2>3, <3>1, EntrySeqs
  <2> HIDE DEF t, kept
  <2>5. Context' = turn_ids'
    BY <2>3, <2>4, ConcatEmptySeq DEF Context
  <2>6. Memory(Context', turn_messages', TRUE)
    BY <2>1, <2>2, <2>3, <2>5, RebuiltRemembered
  <2> QED BY <2>6 DEF MInv, Memory, Leads
<1>4. ASSUME NEW m \in Message, FullReset(m) PROVE MInv'
  <2> DEFINE t == Turn("first", m)
  <2>1. t \in TurnEntry /\ t.msg = m /\ t \in Entry
    BY TurnType DEF Turn, Entry
  <2>2. turn_ids' = <<t>> /\ cache' = <<>> /\ turn_messages' = <<m>>
    BY <1>4 DEF FullReset, ClearKv
  <2> HIDE DEF t
  <2>3. Append(<<>>, t) = <<t>> /\ Append(<<>>, m) = <<m>> /\ <<>> \o <<t>> = <<t>>
    OBVIOUS
  <2>4. Context' = Append(<<>>, t)
    BY <2>2, <2>3 DEF Context
  <2>5. <<>> \in Seq(Message) /\ <<>> \in Seq(Entry)
    OBVIOUS
  <2>6. Memory(<<>>, <<>>, TRUE)
    BY <2>5, NothingRemembered
  <2>7. Memory(Context', turn_messages', TRUE)
    BY <2>1, <2>2, <2>3, <2>4, <2>5, <2>6, TurnRemembered
  <2> QED BY <2>7 DEF MInv, Memory, Leads
<1>5. ASSUME NEW m \in Message, NEW n \in MaxTokensArg, Generate(m, n) PROVE MInv'
  BY <1>2, <1>3, <1>4, <1>5 DEF Generate
<1>6. ASSUME ContextFull \/ PrefillFails PROVE MInv'
  <2>1. /\ turn_ids' = <<>> /\ lost' = TRUE
        /\ UNCHANGED <<cache, turn_messages>>
    BY <1>6 DEF ContextFull, PrefillFails, Return, kv
  <2>2. Context' = cache
    BY <1>0, <2>1, ConcatEmptySeq DEF Context
  <2>3. Memory(cache, turn_messages, FALSE)
    BY <1>0, PromptForgotten DEF MInv, Context
  <2> QED BY <2>1, <2>2, <2>3 DEF MInv
<1>7. ASSUME Prefill \/ PrefillThenSampleFails PROVE MInv'
  <2>1. /\ turn_ids' = <<>> /\ cache' = cache \o turn_ids
        /\ UNCHANGED <<turn_messages, lost>>
    BY <1>7 DEF Prefill, PrefillThenSampleFails, FeedPrompt, Return, conversation
  <2>2. cache' \in Seq(Entry)
    BY <1>0, <2>1, ConcatProperties
  <2>3. Context' = Context
    BY <2>1, <2>2, ConcatEmptySeq DEF Context
  <2> QED BY <1>1, <2>1, <2>3
<1>8. ASSUME Decode \/ DecodeThenSampleFails PROVE MInv'
  <2>1. /\ phase = "loop" /\ cache' \in {cache, Append(cache, Reply)}
        /\ turn_ids' \in {turn_ids, <<>>}
        /\ UNCHANGED <<turn_messages, lost>>
    BY <1>8 DEF Decode, DecodeThenSampleFails, FeedToken, Return, conversation
  <2>2. Context = cache /\ turn_ids' = <<>>
    BY <2>1, NoPrompt
  <2>3. Append(cache, Reply) \in Seq(Entry)
    BY <1>0, AppendProperties DEF Entry
  <2>4. Context' = cache'
    BY <1>0, <2>1, <2>2, <2>3, ConcatEmptySeq DEF Context
  <2>5. Memory(Append(cache, Reply), turn_messages, ~lost)
    BY <1>0, <2>2, ReplyIgnored DEF MInv
  <2> QED BY <2>1, <2>2, <2>4, <2>5 DEF MInv
<1>9. ASSUME Finish \/ DecodeFails PROVE MInv'
  <2>1. /\ phase = "loop" /\ turn_ids' = <<>>
        /\ UNCHANGED <<cache, turn_messages, lost>>
    BY <1>9 DEF Finish, DecodeFails, Return, conversation, kv
  <2>2. turn_ids' = turn_ids
    BY <2>1, NoPrompt
  <2>3. Context' = Context
    BY <2>1, <2>2 DEF Context
  <2> QED BY <1>1, <2>1, <2>3
<1>10. ASSUME Reset PROVE MInv'
  <2>1. /\ phase = "idle" /\ cache' = <<>> /\ turn_ids' = turn_ids
        /\ turn_messages' = turn_messages /\ lost' = (turn_messages # <<>>)
    BY <1>10 DEF Reset, ClearKv, call
  <2>2. turn_ids' = <<>>
    BY <2>1, NoPrompt
  <2>3. Context' = <<>>
    BY <2>1, <2>2, ConcatEmptySeq, EmptySeq DEF Context
  <2>4. Memory(<<>>, turn_messages, turn_messages = <<>>)
    BY <1>0, NothingRemembered
  <2>5. ~lost' <=> turn_messages = <<>>
    BY <2>1
  <2> QED BY <2>1, <2>3, <2>4, <2>5 DEF MInv, Memory, Leads
<1>11. ASSUME UNCHANGED vars PROVE MInv'
  <2>1. UNCHANGED <<cache, turn_ids, turn_messages, lost>>
    BY <1>11 DEF vars
  <2> QED BY <1>1, <2>1 DEF Context
<1> QED BY <1>5, <1>6, <1>7, <1>8, <1>9, <1>10, <1>11 DEF Next, Continue

LEMMA MemoryInvariant == Spec => [](IInv /\ MInv)
BY InitInv, NextInv, MemoryInit, MemoryNext, PTL DEF Spec

\* As long as no turn failed before it reached the cache and no reset left
\* messages behind, turn_messages, from which prepare_turn rebuilds an evicted
\* conversation, are exactly the user messages the model reads, in their order.
THEOREM MessagesAreRemembered == Spec => []Remembers
<1>1. MInv => Remembers
  BY DEF MInv, Memory, Leads, Remembers
<1> QED BY <1>1, MemoryInvariant, PTL

\* After failed turns and resets as well, the cache holds no message the
\* engine has dropped from turn_messages: an eviction always takes the rows of
\* what it drops with it.
THEOREM CacheStaysWithinMemory == Spec => []CacheWithinMemory
<1>1. MInv => CacheWithinMemory
  BY DEF MInv, Memory, Leads, CacheWithinMemory
<1> QED BY <1>1, MemoryInvariant, PTL

\* turn_messages slides: a step appends one message, drops only the oldest,
\* and drops none without clearing the cache.
THEOREM MemorySlides == Spec => SlidingWindow
<1> DEFINE Slides ==
        turn_messages' # turn_messages =>
            /\ Front(turn_messages') \in Suffixes(turn_messages)
            /\ Len(turn_messages') <= Len(turn_messages) => head' = 0
<1>1. ASSUME IInv, [Next]_vars PROVE Slides
  <2>0. turn_messages \in Seq(Message) /\ Len(turn_messages) \in Nat
    BY <1>1, LenProperties DEF IInv, TypeOK
  <2>1. ASSUME NEW m \in Message, AppendTurn(m) PROVE Slides
    <3>1. /\ turn_messages' = Append(turn_messages, m)
          /\ Len(turn_messages') = Len(turn_messages) + 1
          /\ Front(turn_messages') = turn_messages
      BY <2>0, <2>1, FrontOfAppend, AppendProperties DEF AppendTurn
    <3>2. turn_messages \in Suffixes(turn_messages)
      BY <2>0, WholeIsSuffix
    <3> QED BY <2>0, <3>1, <3>2
  <2>2. ASSUME NEW m \in Message, RebuildWindow(m) PROVE Slides
    <3>1. turn_messages' = Append(Kept(m), m) /\ head' = 0
      BY <2>2 DEF RebuildWindow, ClearKv
    <3>2. Kept(m) \in Seq(Message) /\ Kept(m) \in Suffixes(turn_messages)
      BY <1>1, KeptType DEF IInv
    <3>3. Front(Append(Kept(m), m)) = Kept(m)
      BY <3>2, FrontOfAppend
    <3> QED BY <3>1, <3>2, <3>3
  <2>3. ASSUME NEW m \in Message, FullReset(m) PROVE Slides
    <3>1. turn_messages' = Append(<<>>, m) /\ head' = 0 /\ <<>> \in Seq(Message)
      BY <2>3 DEF FullReset, ClearKv
    <3>2. Front(Append(<<>>, m)) = <<>>
      BY <3>1, FrontOfAppend
    <3> QED BY <3>1, <3>2 DEF Suffixes
  <2>4. ASSUME turn_messages' = turn_messages PROVE Slides
    BY <2>4
  <2>5. CASE \E m \in Message, n \in MaxTokensArg : Generate(m, n)
    BY <2>1, <2>2, <2>3, <2>5 DEF Generate
  <2>6. CASE Continue \/ Reset
    BY <2>4, <2>6 DEF Continue, Reset, ContextFull, PrefillFails, Prefill,
                      PrefillThenSampleFails, Finish, Decode,
                      DecodeThenSampleFails, DecodeFails, conversation
  <2>7. CASE UNCHANGED vars
    BY <2>4, <2>7 DEF vars
  <2> QED BY <1>1, <2>5, <2>6, <2>7 DEF Next
<1>2. IInv /\ [Next]_vars => [Slides]_vars
  BY <1>1
<1>3. Spec => [][Slides]_vars
  BY InitInv, NextInv, <1>2, PTL DEF Spec
<1> QED BY <1>3 DEF SlidingWindow
=============================================================================
