---------------------------- MODULE WindowProofs ----------------------------
(***************************************************************************)
(* Theorems about ChatCommands.tla and Window.tla, for any number of       *)
(* handlers, models, turns and tokens: a prompt finds room for its reply,  *)
(* what was trimmed is forgotten, the name shown is that of the model that *)
(* answers, and the input is never locked for nothing.                     *)
(*                                                                         *)
(* The session and the cache count the same tokens (Fed): none is twice in *)
(* what the model was fed, so that the length of the cache is the number   *)
(* of its tokens, and all but the replies of failed turns are of the       *)
(* session, which the trimming has cut to size.                            *)
(***************************************************************************)
EXTENDS Window, FiniteSetTheorems, TLAPS

Token == Nat \X {"system", "user", "model", "end"} \X Nat

\* Arguments, the lock and the turns still to come.
Commands ==
    /\ call \in [Call -> Stages]
    /\ arg \in [Call -> Model \cup {NoModel} \cup PromptLens]
    /\ lock \in Call \cup {NoCall}
    /\ loaded \in Model \cup {NoModel}
    /\ \A c \in Call : lock = c <=> call[c] \in {"trimming", "running"}
    /\ \A c \in Call : call[c] \in {"building", "built"} => arg[c] \in Model
    /\ \A c \in Call : call[c] \in {"waiting", "trimming", "running"} =>
            arg[c] \in PromptLens

Coming == {c \in Call : call[c] \in {"waiting", "trimming"}}

Turns ==
    /\ turn_count \in Nat
    /\ turn_count + Cardinality(Coming) <= MaxTurns + Cardinality(Call)

Busy == \E c \in Call : call[c] = "running"

\* Every token is of an earlier turn, or of the reply that ended last.
Old(t) ==
    \/ t[1] < turn_count
    \/ t[1] = turn_count /\ t[2] # "user" /\ ~Busy

\* No token is twice in the session, nor in what the model is fed.
Fed ==
    /\ history \in Seq(Token) /\ cache \in Seq(Token) /\ prompt \in Seq(Token)
    /\ \A t \in ToSet(history) \cup ToSet(cache) \cup ToSet(prompt) : Old(t)
    /\ \A t \in ToSet(history) : t[2] # "system"
    /\ IsInjective(history)
    /\ IsInjective(cache \o prompt)

\* A run's prompt is of the session, which has room for the reply.
Room ==
    /\ reprefill \in BOOLEAN
    /\ Len(cache) <= ContextLen
    /\ ~Busy => prompt = <<>>
    /\ ToSet(prompt) \subseteq ToSet(System) \cup ToSet(history)
    /\ Busy => SystemLen + Len(history) + MaxNew <= ContextLen

\* What was trimmed is in the cache only until the trimming has ended.
Forgotten ==
    \/ reprefill /\ \E c \in Call : call[c] = "trimming"
    \/ \A t \in Unrecorded : t[2] = "model"

ChatInv == Commands /\ Turns /\ Fed /\ Room /\ Forgotten

\* The handler that waits for a command waits for one of its kind.
Handlers ==
    /\ ui \in [Call -> Waits]
    /\ \A c \in Call :
          /\ call[c] = "idle" <=> ui[c] \notin {"load", "chat"}
          /\ ui[c] = "load" => call[c] \in {"building", "built", "ok", "failed"}
          /\ ui[c] = "chat" => call[c] \notin {"building", "built"}
          /\ ui[c] \in {"load", "loaded"} => arg[c] \in Model

\* A load that is in place but not yet shown.
InPlace(c) ==
    \/ ui[c] = "loaded"
    \/ ui[c] = "load" /\ call[c] = "ok"

Shown ==
    /\ modelName \in Model \cup {NoModel}
    /\ screen \in {"empty", "chat", "other"}
    /\ overlapped \in BOOLEAN
    /\ appOnline \/ (\E c \in Call : InPlace(c)) => loaded # NoModel
    /\ ~overlapped =>
          /\ \A c, d \in Loads : c = d
          /\ \A c \in Call : InPlace(c) => loaded = arg[c]
          /\ appOnline /\ (\A c \in Call : ~InPlace(c)) => modelName = loaded

WInv == ChatInv /\ Handlers /\ Shown

-----------------------------------------------------------------------------
(* Sequences of tokens.                                                    *)

LEMMA ConcatFacts ==
    ASSUME NEW T, NEW a \in Seq(T), NEW b \in Seq(T)
    PROVE  /\ a \o b \in Seq(T)
           /\ Len(a \o b) = Len(a) + Len(b)
           /\ ToSet(a \o b) = ToSet(a) \cup ToSet(b)
<1> DEFINE s == a \o b
<1>1. s \in Seq(T) /\ Len(s) = Len(a) + Len(b)
  OBVIOUS
<1>2. \A i \in 1 .. Len(a) : i \in 1 .. Len(s) /\ s[i] = a[i]
  OBVIOUS
<1>3. \A i \in 1 .. Len(b) :
          Len(a) + i \in 1 .. Len(s) /\ s[Len(a) + i] = b[i]
  OBVIOUS
<1>4. \A i \in 1 .. Len(s) :
          \/ i \in 1 .. Len(a)
          \/ i - Len(a) \in 1 .. Len(b) /\ i = Len(a) + (i - Len(a))
  BY <1>1
<1> HIDE DEF s
<1>5. DOMAIN s = 1 .. Len(s) /\ DOMAIN a = 1 .. Len(a) /\ DOMAIN b = 1 .. Len(b)
  BY <1>1
<1>6. ToSet(s) \subseteq ToSet(a) \cup ToSet(b)
  <2> SUFFICES ASSUME NEW i \in 1 .. Len(s) PROVE s[i] \in ToSet(a) \cup ToSet(b)
    BY <1>5 DEF ToSet
  <2> QED BY <1>2, <1>3, <1>4, <1>5 DEF ToSet
<1>7. ToSet(a) \subseteq ToSet(s) /\ ToSet(b) \subseteq ToSet(s)
  BY <1>2, <1>3, <1>5 DEF ToSet
<1> QED BY <1>1, <1>6, <1>7 DEF s

LEMMA ConcatInjective ==
    ASSUME NEW T, NEW a \in Seq(T), NEW b \in Seq(T)
    PROVE  IsInjective(a \o b) <=>
               IsInjective(a) /\ IsInjective(b) /\ ToSet(a) \cap ToSet(b) = {}
<1> DEFINE s == a \o b
<1>1. Len(s) = Len(a) + Len(b) /\ DOMAIN s = 1 .. Len(s)
      /\ DOMAIN a = 1 .. Len(a) /\ DOMAIN b = 1 .. Len(b)
      /\ Len(a) \in Nat /\ Len(b) \in Nat
  OBVIOUS
<1>2. \A i \in 1 .. Len(a) : i \in 1 .. Len(s) /\ s[i] = a[i]
  OBVIOUS
<1>3. \A i \in 1 .. Len(b) :
          Len(a) + i \in 1 .. Len(s) /\ s[Len(a) + i] = b[i]
  OBVIOUS
<1>4. \A i \in 1 .. Len(s) :
          \/ i \in 1 .. Len(a)
          \/ i - Len(a) \in 1 .. Len(b) /\ s[i] = b[i - Len(a)]
  BY <1>1
<1> HIDE DEF s
<1>5. ASSUME IsInjective(a), IsInjective(b), ToSet(a) \cap ToSet(b) = {}
      PROVE  IsInjective(s)
  <2> SUFFICES ASSUME NEW i \in 1 .. Len(s), NEW j \in 1 .. Len(s), s[i] = s[j]
               PROVE  i = j
    BY <1>1 DEF IsInjective
  <2>1. CASE i \in 1 .. Len(a) /\ j \in 1 .. Len(a)
    BY <1>1, <1>2, <1>5, <2>1 DEF IsInjective
  <2>2. CASE i \notin 1 .. Len(a) /\ j \notin 1 .. Len(a)
    <3>1. i - Len(a) = j - Len(a)
      BY <1>1, <1>4, <1>5, <2>2 DEF IsInjective
    <3> QED BY <3>1, <1>1
  <2>3. CASE i \in 1 .. Len(a) /\ j \notin 1 .. Len(a)
    <3>1. s[i] \in ToSet(a) /\ s[j] \in ToSet(b)
      BY <1>1, <1>2, <1>4, <2>3 DEF ToSet
    <3> QED BY <3>1, <1>5
  <2>4. CASE i \notin 1 .. Len(a) /\ j \in 1 .. Len(a)
    <3>1. s[j] \in ToSet(a) /\ s[i] \in ToSet(b)
      BY <1>1, <1>2, <1>4, <2>4 DEF ToSet
    <3> QED BY <3>1, <1>5
  <2> QED BY <2>1, <2>2, <2>3, <2>4
<1>6. ASSUME IsInjective(s)
      PROVE  IsInjective(a) /\ IsInjective(b) /\ ToSet(a) \cap ToSet(b) = {}
  <2>1. IsInjective(a)
    BY <1>1, <1>2, <1>6 DEF IsInjective
  <2>2. ASSUME NEW i \in 1 .. Len(b), NEW j \in 1 .. Len(b), b[i] = b[j]
        PROVE  i = j
    <3>1. Len(a) + i = Len(a) + j
      BY <1>1, <1>3, <1>6, <2>2 DEF IsInjective
    <3> QED BY <3>1, <1>1
  <2>3. ASSUME NEW i \in 1 .. Len(a), NEW j \in 1 .. Len(b), a[i] = b[j]
        PROVE  FALSE
    <3>1. i = Len(a) + j
      BY <1>1, <1>2, <1>3, <1>6, <2>3 DEF IsInjective
    <3> QED BY <3>1, <1>1
  <2>4. IsInjective(b)
    BY <1>1, <2>2 DEF IsInjective
  <2>5. ToSet(a) \cap ToSet(b) = {}
    BY <1>1, <2>3 DEF ToSet
  <2> QED BY <2>1, <2>4, <2>5
<1> QED BY <1>5, <1>6 DEF s

\* The tokens of a run.
LEMMA RunFacts ==
    ASSUME NEW k \in Nat, NEW o \in {"system", "user", "model", "end"},
           NEW n \in Nat
    PROVE  /\ Run(k, o, n) \in Seq(Token)
           /\ Len(Run(k, o, n)) = n
           /\ \A t \in ToSet(Run(k, o, n)) : t[1] = k /\ t[2] = o
           /\ IsInjective(Run(k, o, n))
<1> DEFINE r == Run(k, o, n)
<1>1. r = [i \in 1 .. n |-> <<k, o, i>>]
  BY DEF Run
<1>2. r \in Seq(Token) /\ Len(r) = n /\ DOMAIN r = 1 .. n
  BY <1>1 DEF Token
<1>3. \A i \in 1 .. n : r[i][1] = k /\ r[i][2] = o /\ r[i][3] = i
  BY <1>1
<1> HIDE DEF r
<1>4. \A t \in ToSet(r) : t[1] = k /\ t[2] = o
  BY <1>2, <1>3 DEF ToSet
<1>5. IsInjective(r)
  BY <1>2, <1>3 DEF IsInjective
<1> QED BY <1>2, <1>4, <1>5 DEF r

LEMMA ReplyFacts ==
    ASSUME NEW k \in Nat, NEW n \in Nat
    PROVE  /\ Run(k, "model", n) \in Seq(Token) /\ Len(Run(k, "model", n)) = n
           /\ \A t \in ToSet(Run(k, "model", n)) : t[1] = k /\ t[2] = "model"
           /\ IsInjective(Run(k, "model", n))
<1>1. "model" \in {"system", "user", "model", "end"}
  OBVIOUS
<1> QED BY <1>1, RunFacts

\* A trim keeps a tail.
LEMMA TailFacts ==
    ASSUME NEW T, NEW s \in Seq(T), NEW d \in Nat
    PROVE  LET r == SubSeq(s, d + 1, Len(s))
           IN  /\ r \in Seq(T)
               /\ Len(r) <= Len(s)
               /\ ToSet(r) \subseteq ToSet(s)
               /\ IsInjective(s) => IsInjective(r)
<1> DEFINE r == SubSeq(s, d + 1, Len(s))
<1>1. r \in Seq(T) /\ Len(r) <= Len(s)
  OBVIOUS
<1>2. \A i \in 1 .. Len(r) : d + i \in 1 .. Len(s) /\ r[i] = s[d + i]
  BY SMTT(30)
<1>3. DOMAIN r = 1 .. Len(r) /\ DOMAIN s = 1 .. Len(s) /\ Len(s) \in Nat
      /\ Len(r) \in Nat
  OBVIOUS
<1> HIDE DEF r
<1>4. ToSet(r) \subseteq ToSet(s)
  BY <1>2, <1>3 DEF ToSet
<1>5. ASSUME IsInjective(s), NEW i \in 1 .. Len(r), NEW j \in 1 .. Len(r),
             r[i] = r[j]
      PROVE  i = j
  <2>1. d + i = d + j
    BY <1>2, <1>3, <1>5 DEF IsInjective
  <2> QED BY <2>1
<1>6. IsInjective(s) => IsInjective(r)
  BY <1>3, <1>5 DEF IsInjective
<1> QED BY <1>1, <1>3, <1>4, <1>6 DEF r

\* A sequence has at most as many elements as it is long, and exactly as many
\* when it repeats none.
LEMMA ElementsOf ==
    ASSUME NEW T, NEW s \in Seq(T)
    PROVE  /\ IsFiniteSet(ToSet(s))
           /\ Cardinality(ToSet(s)) \in Nat
           /\ Cardinality(ToSet(s)) <= Len(s)
           /\ IsInjective(s) => Cardinality(ToSet(s)) = Len(s)
<1> DEFINE D == 1 .. Len(s)
<1>1. Len(s) \in Nat /\ DOMAIN s = D /\ s \in [D -> ToSet(s)]
  BY DEF ToSet
<1>2. IsFiniteSet(D) /\ Cardinality(D) = Len(s)
  BY <1>1, FS_Interval
<1>3. s \in Surjection(D, ToSet(s))
  BY <1>1 DEF Surjection, ToSet
<1>4. IsInjective(s) => s \in Injection(D, ToSet(s))
  BY <1>1 DEF Injection
<1> HIDE DEF D
<1>5. IsFiniteSet(ToSet(s)) /\ Cardinality(ToSet(s)) <= Cardinality(D)
      /\ (Cardinality(ToSet(s)) = Cardinality(D) <=> s \in Injection(D, ToSet(s)))
  BY <1>2, <1>3, FS_Surjection
<1> QED BY <1>2, <1>4, <1>5, FS_CardinalityType

-----------------------------------------------------------------------------
(* The commands.                                                           *)

\* A command, or none, takes a step of lib.rs.
LEMMA CInitInv == CInit => ChatInv
<1> SUFFICES ASSUME CInit PROVE ChatInv
  OBVIOUS
<1> USE ChatAssumption DEF CInit
<1>1. Commands
  BY DEF Commands, Stages
<1>2. Turns
  <2>1. Coming = {}
    BY DEF Coming
  <2>2. Cardinality(Coming) = 0 /\ Cardinality(Call) \in Nat
    BY <2>1, FS_EmptySet, FS_CardinalityType
  <2> QED BY <2>2 DEF Turns
<1>3. ToSet(<<>>) = {} /\ IsInjective(<<>>) /\ <<>> \o <<>> = <<>>
  BY DEF ToSet, IsInjective
<1>4. ~Busy
  BY DEF Busy
<1>5. Fed
  <2>1. history = <<>> /\ cache = <<>> /\ prompt = <<>> /\ <<>> \in Seq(Token)
    OBVIOUS
  <2>2. ToSet(history) \cup ToSet(cache) \cup ToSet(prompt) = {}
    BY <1>3, <2>1
  <2>3. IsInjective(history) /\ IsInjective(cache \o prompt)
    BY <1>3, <2>1
  <2> QED BY ONLY <2>1, <2>2, <2>3 DEF Fed
<1>6. Room
  <2>1. reprefill \in BOOLEAN /\ prompt = <<>> /\ ToSet(prompt) = {}
    BY <1>3
  <2>2. Len(cache) = 0 /\ ContextLen \in Nat
    OBVIOUS
  <2>3. Len(cache) <= ContextLen
    BY ONLY <2>2
  <2> QED BY ONLY <1>4, <2>1, <2>3 DEF Room
<1>7. Forgotten
  BY <1>3 DEF Forgotten, Unrecorded
<1> QED BY <1>1, <1>2, <1>5, <1>6, <1>7 DEF ChatInv

LEMMA CommandsNext == Commands /\ [CNext]_cvars => Commands'
<1> SUFFICES ASSUME Commands, [CNext]_cvars PROVE Commands'
  OBVIOUS
<1> USE ChatAssumption DEF Commands, Stages, Stage, session, work
<1>1. ASSUME NEW c \in Call, NEW m \in Model, AskLoad(c, m) PROVE Commands'
  BY <1>1 DEF AskLoad
<1>2. ASSUME NEW c \in Call, NEW n \in PromptLens, AskChat(c, n) PROVE Commands'
  BY <1>2 DEF AskChat
<1>3. ASSUME NEW c \in Call, BuildFails(c) PROVE Commands'
  BY <1>3 DEF BuildFails
<1>4. ASSUME NEW c \in Call, Build(c) PROVE Commands'
  BY <1>4 DEF Build
<1>5. ASSUME NEW c \in Call, Install(c) PROVE Commands'
  BY <1>5 DEF Install
<1>6. ASSUME NEW c \in Call, Refuse(c) PROVE Commands'
  BY <1>6 DEF Refuse
<1>7. ASSUME NEW c \in Call, Admit(c) PROVE Commands'
  BY <1>7 DEF Admit
<1>8. ASSUME NEW c \in Call, TrimHistory(c) PROVE Commands'
  BY <1>8 DEF TrimHistory
<1>9. ASSUME NEW c \in Call, StartRun(c) PROVE Commands'
  BY <1>9 DEF StartRun
<1>10. ASSUME NEW c \in Call, RunEnds(c) PROVE Commands'
  BY <1>10 DEF RunEnds
<1>11. ASSUME NEW c \in Call, RunFails(c) PROVE Commands'
  BY <1>11 DEF RunFails
<1>12. ASSUME NEW c \in Call, Collect(c) PROVE Commands'
  BY <1>12 DEF Collect
<1>13. CASE UNCHANGED cvars
  BY <1>13 DEF cvars
<1> QED BY <1>1, <1>2, <1>3, <1>4, <1>5, <1>6, <1>7, <1>8, <1>9, <1>10,
           <1>11, <1>12, <1>13 DEF CNext, Serve

\* One more command is coming, or one fewer.
LEMMA ComingFacts ==
    /\ IsFiniteSet(Coming) /\ Cardinality(Coming) \in Nat
    /\ Cardinality(Call) \in Nat /\ Cardinality(Coming) <= Cardinality(Call)
    /\ \A c \in Coming : Cardinality(Coming \ {c}) = Cardinality(Coming) - 1
    /\ \A c \in Call \ Coming :
          /\ Cardinality(Coming \cup {c}) = Cardinality(Coming) + 1
          /\ Cardinality(Coming) < Cardinality(Call)
<1>1. IsFiniteSet(Call) /\ Coming \in SUBSET Call
  BY ChatAssumption DEF Coming
<1>2. IsFiniteSet(Coming) /\ Cardinality(Coming) <= Cardinality(Call)
      /\ (Cardinality(Call) = Cardinality(Coming) => Call = Coming)
  BY <1>1, FS_Subset
<1>3. Cardinality(Coming) \in Nat /\ Cardinality(Call) \in Nat
  BY <1>1, <1>2, FS_CardinalityType
<1>4. \A c \in Coming : Cardinality(Coming \ {c}) = Cardinality(Coming) - 1
  BY <1>2, FS_RemoveElement
<1>5. ASSUME NEW c \in Call \ Coming
      PROVE  /\ Cardinality(Coming \cup {c}) = Cardinality(Coming) + 1
             /\ Cardinality(Coming) < Cardinality(Call)
  <2>1. Cardinality(Coming \cup {c}) = Cardinality(Coming) + 1
    BY <1>2, <1>5, FS_AddElement
  <2>2. Cardinality(Coming) # Cardinality(Call)
    BY <1>2, <1>5
  <2> QED BY <2>1, <2>2, <1>2, <1>3
<1> QED BY <1>2, <1>3, <1>4, <1>5

LEMMA TurnsNext == Commands /\ Turns /\ [CNext]_cvars => Turns'
<1> SUFFICES ASSUME Commands, Turns, [CNext]_cvars PROVE Turns'
  OBVIOUS
<1> USE ChatAssumption DEF Turns, session, work
<1>0. call \in [Call -> Stages]
  BY DEF Commands
<1>1. ASSUME Coming' = Coming, turn_count' = turn_count PROVE Turns'
  BY <1>1
<1>2. ASSUME NEW c \in Call, NEW n \in PromptLens, AskChat(c, n) PROVE Turns'
  <2>1. c \notin Coming /\ Coming' = Coming \cup {c}
    BY <1>0, <1>2 DEF AskChat, Coming
  <2>2. turn_count' = turn_count /\ turn_count < MaxTurns
    BY <1>2 DEF AskChat
  <2> QED BY <2>1, <2>2, ComingFacts
<1>3. ASSUME NEW c \in Call, Refuse(c) PROVE Turns'
  <2>1. c \in Coming /\ Coming' = Coming \ {c} /\ turn_count' = turn_count
    BY <1>0, <1>3 DEF Refuse, Coming, Stage
  <2> QED BY <2>1, ComingFacts
<1>4. ASSUME NEW c \in Call, StartRun(c) PROVE Turns'
  <2>1. c \in Coming /\ Coming' = Coming \ {c} /\ turn_count' = turn_count + 1
    BY <1>0, <1>4 DEF StartRun, Coming, Stage
  <2> QED BY <2>1, ComingFacts
<1>5. ASSUME NEW c \in Call, Install(c) PROVE Turns'
  <2>1. Coming' = Coming /\ turn_count' = 0
    BY <1>0, <1>5 DEF Install, Coming, Stage
  <2> QED BY <2>1, ComingFacts
<1>6. ASSUME NEW c \in Call, NEW m \in Model, AskLoad(c, m) PROVE Turns'
  BY <1>0, <1>1, <1>6 DEF AskLoad, Coming
<1>7. ASSUME NEW c \in Call,
             BuildFails(c) \/ Build(c) \/ RunEnds(c) \/ RunFails(c) \/ Collect(c)
      PROVE  Turns'
  <2>1. turn_count' = turn_count
    BY <1>7 DEF BuildFails, Build, RunEnds, RunFails, Collect
  <2>2. Coming' = Coming
    BY <1>0, <1>7 DEF BuildFails, Build, RunEnds, RunFails, Collect, Stage, Coming
  <2> QED BY <1>1, <2>1, <2>2
<1>8. ASSUME NEW c \in Call, Admit(c) PROVE Turns'
  BY <1>0, <1>1, <1>8 DEF Admit, Stage, Coming
<1>9. ASSUME NEW c \in Call, TrimHistory(c) PROVE Turns'
  BY <1>1, <1>9 DEF TrimHistory, Coming
<1>10. CASE UNCHANGED cvars
  BY <1>1, <1>10 DEF cvars, Coming
<1> QED BY <1>2, <1>3, <1>4, <1>5, <1>6, <1>7, <1>8, <1>9, <1>10 DEF CNext, Serve

-----------------------------------------------------------------------------
(* The tokens of the session and of the cache.                             *)

Trimming == \E c \in Call : call[c] = "trimming"

LEMMA SizesType ==
    /\ SystemLen \in Nat /\ ContextLen \in Nat /\ MaxNew \in Nat /\ Frame \in Nat
    /\ DropSize \in Nat /\ PromptLens \subseteq Nat
    /\ System \in Seq(Token) /\ Len(System) = SystemLen /\ IsInjective(System)
    /\ \A t \in ToSet(System) : t[1] = 0 /\ t[2] = "system"
<1>1. /\ SystemLen \in Nat /\ ContextLen \in Nat /\ MaxNew \in Nat
      /\ Frame \in Nat /\ DropSize \in Nat /\ PromptLens \subseteq Nat
  BY ChatAssumption
<1>2. 0 \in Nat /\ "system" \in {"system", "user", "model", "end"}
  OBVIOUS
<1>3. /\ Run(0, "system", SystemLen) \in Seq(Token)
      /\ Len(Run(0, "system", SystemLen)) = SystemLen
      /\ \A t \in ToSet(Run(0, "system", SystemLen)) : t[1] = 0 /\ t[2] = "system"
      /\ IsInjective(Run(0, "system", SystemLen))
  BY ONLY <1>1, <1>2, RunFacts, Zenon
<1> QED BY ONLY <1>1, <1>3, Zenon DEF System

\* The command at the session is the only one there.
LEMMA AtWork ==
    ASSUME Commands, NEW c \in Call
    PROVE  /\ lock = NoCall => ~Busy /\ ~Trimming
           /\ call[c] = "trimming" => ~Busy
           /\ call[c] = "running" => ~Trimming
           /\ call[c] = "running" => \A d \in Call : call[d] = "running" => d = c
BY ChatAssumption DEF Commands, Busy, Trimming

\* The session and the cache stay when no command starts or leaves work.
LEMMA QuietKeeps ==
    ASSUME Fed, Room, Forgotten, UNCHANGED <<session, work>>,
           Busy' <=> Busy, Trimming' <=> Trimming
    PROVE  Fed' /\ Room' /\ Forgotten'
<1> USE DEF session, work
<1>1. Fed'
  BY DEF Fed, Old
<1>2. Room'
  BY DEF Room
<1>3. Forgotten'
  BY DEF Forgotten, Unrecorded, Trimming
<1> QED BY <1>1, <1>2, <1>3

\* The cache and the session of a new model are empty.
LEMMA InstallKeeps ==
    ASSUME Commands, Fed, Room, NEW c \in Call, Install(c)
    PROVE  Fed' /\ Room' /\ Forgotten'
<1>1. ~Busy /\ prompt = <<>> /\ ~Busy'
  BY AtWork DEF Install, Room, Stage, Busy, Commands
<1>2. /\ history' = <<>> /\ cache' = <<>> /\ prompt' = <<>>
      /\ reprefill' \in BOOLEAN /\ <<>> \in Seq(Token) /\ <<>> \o <<>> = <<>>
  BY <1>1 DEF Install, work, Room
<1>3. ToSet(<<>>) = {} /\ IsInjective(<<>>) /\ Len(<<>>) = 0
  BY DEF ToSet, IsInjective
<1>4. Fed'
  <2>1. ToSet(history') \cup ToSet(cache') \cup ToSet(prompt') = {}
    BY <1>2, <1>3
  <2>2. IsInjective(history') /\ IsInjective(cache' \o prompt')
    BY <1>2, <1>3
  <2>3. history' \in Seq(Token) /\ cache' \in Seq(Token) /\ prompt' \in Seq(Token)
    BY <1>2
  <2> QED BY ONLY <2>1, <2>2, <2>3 DEF Fed
<1>5. Room'
  <2>1. Len(cache') <= ContextLen /\ ToSet(prompt') = {}
    BY <1>2, <1>3, SizesType
  <2> QED BY ONLY <1>1, <1>2, <2>1 DEF Room
<1>6. Forgotten'
  <2>1. Unrecorded' = {}
    BY <1>2, <1>3 DEF Unrecorded
  <2> QED BY <2>1 DEF Forgotten
<1> QED BY <1>4, <1>5, <1>6

LEMMA AdmitKeeps ==
    ASSUME Commands, Fed, Room, Forgotten, NEW c \in Call, Admit(c)
    PROVE  Fed' /\ Room' /\ Forgotten'
<1>1. ~Busy /\ ~Trimming /\ ~Busy'
  BY AtWork DEF Admit, Stage, Busy, Commands
<1>2. UNCHANGED <<session, prompt>> /\ reprefill' \in BOOLEAN
  BY DEF Admit
<1>3. Fed'
  BY <1>1, <1>2 DEF Fed, Old, session
<1>4. Room'
  BY <1>1, <1>2 DEF Room, session
<1>5. Forgotten'
  BY <1>1, <1>2 DEF Forgotten, Unrecorded, Trimming, session
<1> QED BY <1>3, <1>4, <1>5

LEMMA TrimKeeps ==
    ASSUME Commands, Fed, Room, Forgotten, NEW c \in Call, TrimHistory(c)
    PROVE  Fed' /\ Room' /\ Forgotten'
<1>1. ~Busy /\ ~Busy' /\ Trimming' /\ call' = call /\ call[c] = "trimming"
  BY AtWork DEF TrimHistory, Busy, Trimming
<1>2. /\ history' \in Seq(Token)
      /\ ToSet(history') \subseteq ToSet(history)
      /\ IsInjective(history) => IsInjective(history')
  <2>1. history \in Seq(Token) /\ DropSize \in Nat
    BY SizesType DEF Fed
  <2>2. LET r == SubSeq(history, DropSize + 1, Len(history))
        IN  /\ r \in Seq(Token)
            /\ Len(r) <= Len(history)
            /\ ToSet(r) \subseteq ToSet(history)
            /\ IsInjective(history) => IsInjective(r)
    BY ONLY <2>1, TailFacts
  <2>3. history' = SubSeq(history, DropSize + 1, Len(history))
    BY DEF TrimHistory
  <2> QED BY ONLY <2>2, <2>3
<1>3. UNCHANGED <<turn_count, cache, prompt>> /\ reprefill' = TRUE
  BY DEF TrimHistory
<1>4. prompt = <<>> /\ ToSet(prompt) = {}
  BY <1>1 DEF Room, ToSet
<1>5. Fed'
  BY <1>1, <1>2, <1>3 DEF Fed, Old
<1>6. Room'
  BY <1>1, <1>3, <1>4 DEF Room
<1>7. Forgotten'
  BY <1>1, <1>3 DEF Forgotten, Trimming
<1> QED BY <1>5, <1>6, <1>7

\* Tokens of earlier turns are not those of the turn that starts.
LEMMA StartKeeps ==
    ASSUME Commands, Turns, Fed, Room, Forgotten, NEW c \in Call, StartRun(c)
    PROVE  Fed' /\ Room' /\ Forgotten'
<1> DEFINE k == turn_count
           new == NewTurn(c)
<1>1. /\ ~Busy /\ Busy' /\ ~Trimming' /\ call[c] = "trimming"
  BY AtWork, ChatAssumption DEF StartRun, Busy, Trimming, Stage, Commands
<1>2. k \in Nat /\ turn_count' = k + 1 /\ reprefill' = reprefill
  BY DEF Turns, StartRun
<1>3. arg[c] \in Nat /\ arg[c] + Frame \in Nat
  <2>1. arg[c] \in PromptLens
    BY <1>1 DEF Commands
  <2>2. arg[c] \in Nat /\ Frame \in Nat
    BY ONLY <2>1, SizesType
  <2> QED BY ONLY <2>2
<1>4. /\ new \in Seq(Token) /\ Len(new) = arg[c] + Frame /\ IsInjective(new)
      /\ \A t \in ToSet(new) : t[1] = k /\ t[2] = "user"
  <2>1. new = Run(k, "user", arg[c] + Frame)
    BY DEF NewTurn
  <2>2. "user" \in {"system", "user", "model", "end"}
    OBVIOUS
  <2>3. LET r == Run(k, "user", arg[c] + Frame)
        IN  /\ r \in Seq(Token)
            /\ Len(r) = arg[c] + Frame
            /\ \A t \in ToSet(r) : t[1] = k /\ t[2] = "user"
            /\ IsInjective(r)
    BY ONLY <2>2, <1>2, <1>3, RunFacts, Zenon
  <2> QED BY ONLY <2>1, <2>3, Zenon
<1>5. prompt = <<>> /\ cache \o prompt = cache /\ IsInjective(cache)
      /\ cache \in Seq(Token) /\ history \in Seq(Token) /\ IsInjective(history)
  BY <1>1 DEF Fed, Room
<1>6. \A t \in ToSet(history) \cup ToSet(cache) :
          /\ t[1] < k \/ (t[1] = k /\ t[2] # "user")
          /\ t \notin ToSet(new)
          /\ t[1] < turn_count'
  <2> SUFFICES ASSUME NEW t \in ToSet(history) \cup ToSet(cache)
               PROVE  /\ t[1] < k \/ (t[1] = k /\ t[2] # "user")
                      /\ t \notin ToSet(new)
                      /\ t[1] < turn_count'
    OBVIOUS
  <2>1. t \in Token
    BY <1>5 DEF ToSet
  <2>2. t[1] \in Nat
    BY <2>1 DEF Token
  <2>3. t[1] < k \/ (t[1] = k /\ t[2] # "user")
    <3>1. Old(t)
      BY DEF Fed
    <3> QED BY ONLY <3>1 DEF Old
  <2> QED BY <2>2, <2>3, <1>2, <1>4
<1>7. history' = history \o new
  BY DEF StartRun
<1> HIDE DEF new, k
<1>8. /\ history' \in Seq(Token) /\ Len(history') = Len(history) + Len(new)
      /\ ToSet(history') = ToSet(history) \cup ToSet(new)
      /\ IsInjective(history')
  <2>1. ToSet(history) \cap ToSet(new) = {}
    BY <1>6
  <2> QED BY <2>1, <1>4, <1>5, <1>7, ConcatFacts, ConcatInjective
<1>9. \A t \in ToSet(history') : t[2] # "system" /\ t[1] < turn_count'
  <2>1. \A t \in ToSet(new) : t[2] # "system" /\ t[1] < turn_count'
    BY <1>2, <1>4
  <2> QED BY <2>1, <1>6, <1>8 DEF Fed
<1>10. SystemLen + Len(history') + MaxNew <= ContextLen
  <2>1. ~(SystemLen + Len(history) + (arg[c] + Frame + MaxNew) > ContextLen)
    BY DEF StartRun, Crowded, Needed
  <2>2. Len(history) \in Nat /\ Len(history') = Len(history) + (arg[c] + Frame)
    BY <1>4, <1>5, <1>8
  <2>3. SystemLen \in Nat /\ ContextLen \in Nat /\ MaxNew \in Nat /\ Frame \in Nat
    BY SizesType
  <2>4. \A s, h, a, f, m, z, g \in Nat :
            ~(s + h + (a + f + m) > z) /\ g = h + (a + f) => s + g + m <= z
    OBVIOUS
  <2>5. Len(history') \in Nat
    BY ONLY <2>2, <2>3, <1>3
  <2> QED BY ONLY <2>1, <2>2, <2>3, <2>4, <2>5, <1>3
<1>11. \/ cache' = <<>> /\ prompt' = System \o history'
       \/ ~reprefill /\ cache' = cache /\ prompt' = new
  BY DEF StartRun, FromScratch, new
<1>12. ASSUME cache' = <<>>, prompt' = System \o history'
       PROVE  Fed' /\ Room' /\ Forgotten'
  <2>1. /\ prompt' \in Seq(Token)
        /\ ToSet(prompt') = ToSet(System) \cup ToSet(history')
        /\ IsInjective(prompt')
    <3>1. ToSet(System) \cap ToSet(history') = {}
      BY <1>9, SizesType
    <3> QED BY <3>1, <1>8, <1>12, ConcatFacts, ConcatInjective, SizesType
  <2>2. /\ cache' \o prompt' = prompt' /\ ToSet(cache') = {}
        /\ cache' \in Seq(Token) /\ Len(cache') = 0
    BY <2>1, <1>12 DEF ToSet
  <2>3. \A t \in ToSet(System) : t[1] < turn_count'
    BY <1>2, SizesType
  <2>4. Fed'
    BY <1>8, <1>9, <2>1, <2>2, <2>3 DEF Fed, Old
  <2>5. Room'
    BY <1>1, <1>2, <1>8, <1>10, <2>1, <2>2, SizesType DEF Room, System
  <2>6. Unrecorded' = {}
    BY <2>2 DEF Unrecorded
  <2> QED BY <2>4, <2>5, <2>6 DEF Forgotten
<1>13. ASSUME ~reprefill, cache' = cache, prompt' = new
       PROVE  Fed' /\ Room' /\ Forgotten'
  <2>1. IsInjective(cache' \o prompt')
    <3>1. ToSet(cache) \cap ToSet(new) = {}
      BY <1>6
    <3> QED BY <3>1, <1>4, <1>5, <1>13, ConcatInjective
  <2>2. \A t \in ToSet(cache') \cup ToSet(prompt') : t[1] < turn_count'
    BY <1>6, <1>8, <1>9, <1>13
  <2>3. Fed'
    BY <1>4, <1>5, <1>8, <1>9, <1>13, <2>1, <2>2 DEF Fed, Old
  <2>4. Room'
    BY <1>1, <1>2, <1>8, <1>10, <1>13 DEF Room
  <2>5. Unrecorded' \subseteq Unrecorded
    BY <1>8, <1>13 DEF Unrecorded, System
  <2>6. Forgotten'
    BY <2>5, <1>13 DEF Forgotten
  <2> QED BY <2>3, <2>4, <2>6
<1> QED BY <1>11, <1>12, <1>13

\* What a run feeds: its prompt and a reply, none of whose tokens is known yet.
LEMMA FeedFacts ==
    ASSUME Commands, Turns, Fed, Room, Forgotten, NEW c \in Call,
           call[c] = "running", NEW n \in Nat
    PROVE  LET reply == Run(turn_count, "model", n)
               fed == cache \o prompt \o reply
           IN  /\ reply \in Seq(Token) /\ IsInjective(reply)
               /\ \A t \in ToSet(reply) : t[1] = turn_count /\ t[2] = "model"
               /\ fed \in Seq(Token) /\ IsInjective(fed)
               /\ ToSet(fed) = ToSet(cache) \cup ToSet(prompt) \cup ToSet(reply)
               /\ \A t \in ToSet(history) \cup ToSet(cache) \cup ToSet(prompt) :
                     t \in Token /\ t[1] < turn_count
               /\ \A t \in ToSet(cache) \cup ToSet(prompt) :
                     t \in ToSet(System) \cup ToSet(history) \/ t[2] = "model"
<1> DEFINE reply == Run(turn_count, "model", n)
           both == cache \o prompt
           fed == both \o reply
<1>1. Busy /\ ~Trimming
  BY AtWork DEF Busy
<1>2. /\ reply \in Seq(Token) /\ IsInjective(reply)
      /\ \A t \in ToSet(reply) : t[1] = turn_count /\ t[2] = "model"
  <2>1. turn_count \in Nat /\ "model" \in {"system", "user", "model", "end"}
    BY DEF Turns
  <2> QED BY ONLY <2>1, RunFacts, Zenon DEF reply
<1>3. /\ both \in Seq(Token) /\ IsInjective(both)
      /\ ToSet(both) = ToSet(cache) \cup ToSet(prompt)
  BY ConcatFacts DEF Fed
<1>4. ASSUME NEW t \in ToSet(history) \cup ToSet(cache) \cup ToSet(prompt)
      PROVE  t \in Token /\ t[1] < turn_count
  <2>1. Old(t)
    BY DEF Fed
  <2>2. t \in Token
    BY DEF Fed, ToSet
  <2> QED BY ONLY <2>1, <2>2, <1>1 DEF Old
<1> HIDE DEF reply, both
<1>5. ToSet(both) \cap ToSet(reply) = {}
  <2> SUFFICES ASSUME NEW t \in ToSet(both), t \in ToSet(reply) PROVE FALSE
    OBVIOUS
  <2>1. t[1] < turn_count /\ t[1] = turn_count /\ turn_count \in Nat
    BY <1>2, <1>3, <1>4 DEF Turns
  <2> QED BY ONLY <2>1
<1>6. /\ fed \in Seq(Token) /\ IsInjective(fed)
      /\ ToSet(fed) = ToSet(both) \cup ToSet(reply)
  BY <1>2, <1>3, <1>5, ConcatFacts, ConcatInjective
<1>7. ASSUME NEW t \in ToSet(cache) \cup ToSet(prompt)
      PROVE  t \in ToSet(System) \cup ToSet(history) \/ t[2] = "model"
  BY <1>1 DEF Room, Forgotten, Unrecorded, Trimming
<1> HIDE DEF fed
<1> QED BY <1>2, <1>3, <1>4, <1>6, <1>7 DEF reply, both, fed

\* A run leaves the session and the cache as far apart as they were.
LEMMA RunKeeps ==
    ASSUME Commands, Turns, Fed, Room, Forgotten, NEW c \in Call,
           RunEnds(c) \/ RunFails(c)
    PROVE  Fed' /\ Room' /\ Forgotten'
<1>1. /\ call[c] = "running" /\ Busy /\ ~Busy' /\ ~Trimming'
      /\ turn_count \in Nat /\ turn_count' = turn_count /\ prompt' = <<>>
      /\ reprefill' = reprefill
  <2>1. call[c] = "running" /\ Busy /\ ~Trimming
    BY AtWork DEF RunEnds, RunFails, Busy
  <2>2. call' \in [Call -> {"ok", call[c]} \cup Stages] /\ call'[c] \in {"ok", "failed"}
        /\ \A d \in Call \ {c} : call'[d] = call[d]
    BY DEF RunEnds, RunFails, Stage, Commands, Stages
  <2>3. ~Busy' /\ ~Trimming'
    BY <2>1, <2>2, AtWork DEF Busy, Trimming
  <2> QED BY <2>1, <2>3 DEF RunEnds, RunFails, Turns
<1>2. PICK n \in Nat :
          /\ \/ cache' = cache
             \/ /\ Len(cache) + Len(prompt) + n <= ContextLen
                /\ cache' = cache \o prompt \o Run(turn_count, "model", n)
          /\ \/ history' = history
             \/ history' = history \o Run(turn_count, "model", n)
                                   \o Run(turn_count, "end", 1)
  <2> DEFINE Fresh(n) ==
                 /\ Len(cache) + Len(prompt) + n <= ContextLen
                 /\ cache' = cache \o prompt \o Run(turn_count, "model", n)
             Ended(n) == history' = history \o Run(turn_count, "model", n)
                                             \o Run(turn_count, "end", 1)
  <2>1. MaxNew \in Nat /\ 0 .. MaxNew \subseteq Nat /\ 0 \in Nat
    BY SizesType
  <2>2. CASE RunEnds(c)
    <3>1. PICK n \in 0 .. MaxNew : Feed(n) /\ Ended(n)
      BY <2>2 DEF RunEnds
    <3> QED BY <2>1, <3>1 DEF Feed
  <2>3. CASE RunFails(c)
    <3>1. history' = history /\ (cache' = cache \/ \E n \in 0 .. MaxNew : Feed(n))
      BY <2>3 DEF RunFails
    <3> QED BY <2>1, <3>1 DEF Feed
  <2> QED BY <2>2, <2>3
<1> DEFINE reply == Run(turn_count, "model", n)
           fed == cache \o prompt \o reply
           end == Run(turn_count, "end", 1)
<1>3. /\ reply \in Seq(Token) /\ IsInjective(reply) /\ Len(reply) = n
      /\ end \in Seq(Token) /\ IsInjective(end)
      /\ \A t \in ToSet(reply) : t[1] = turn_count /\ t[2] = "model"
      /\ \A t \in ToSet(end) : t[1] = turn_count /\ t[2] = "end"
  <2>1. /\ turn_count \in Nat /\ 1 \in Nat /\ n \in Nat
        /\ "model" \in {"system", "user", "model", "end"}
        /\ "end" \in {"system", "user", "model", "end"}
    BY <1>1
  <2>2. /\ reply \in Seq(Token) /\ Len(reply) = n
        /\ \A t \in ToSet(reply) : t[1] = turn_count /\ t[2] = "model"
        /\ IsInjective(reply)
    BY ONLY <2>1, ReplyFacts, Zenon DEF reply
  <2>3. LET r == Run(turn_count, "end", 1)
        IN  /\ r \in Seq(Token)
            /\ Len(r) = 1
            /\ \A t \in ToSet(r) : t[1] = turn_count /\ t[2] = "end"
            /\ IsInjective(r)
    BY ONLY <2>1, RunFacts, Zenon
  <2> QED BY <2>2, <2>3
<1>4. /\ fed \in Seq(Token) /\ IsInjective(fed)
      /\ ToSet(fed) = ToSet(cache) \cup ToSet(prompt) \cup ToSet(reply)
      /\ \A t \in ToSet(history) \cup ToSet(cache) \cup ToSet(prompt) :
            t \in Token /\ t[1] < turn_count
      /\ \A t \in ToSet(cache) \cup ToSet(prompt) :
            t \in ToSet(System) \cup ToSet(history) \/ t[2] = "model"
  BY ONLY Commands, Turns, Fed, Room, Forgotten, c \in Call, <1>1, <1>2, FeedFacts
     DEF reply, fed
<1>5. Len(fed) = Len(cache) + Len(prompt) + n
  <2>1. Len(cache \o prompt) = Len(cache) + Len(prompt)
        /\ cache \o prompt \in Seq(Token)
    BY ConcatFacts DEF Fed
  <2> QED BY <2>1, <1>3, ConcatFacts, SMTT(30)
<1> HIDE DEF reply, fed, end
<1>6. /\ history' \in Seq(Token) /\ IsInjective(history')
      /\ ToSet(history) \subseteq ToSet(history')
      /\ ToSet(history') \subseteq ToSet(history) \cup ToSet(reply) \cup ToSet(end)
  <2>1. history \in Seq(Token) /\ IsInjective(history)
    BY DEF Fed
  <2>2. ToSet(history) \cap ToSet(reply) = {} /\ ToSet(history) \cap ToSet(end) = {}
    <3> SUFFICES ASSUME NEW t \in ToSet(history),
                        t \in ToSet(reply) \cup ToSet(end)
                 PROVE  FALSE
      OBVIOUS
    <3>1. t[1] < turn_count /\ t[1] = turn_count
      BY <1>3, <1>4
    <3> QED BY ONLY <3>1, <1>1
  <2>3. ToSet(reply) \cap ToSet(end) = {}
    BY <1>3
  <2> DEFINE h == history \o reply
  <2>4. /\ h \in Seq(Token) /\ IsInjective(h)
        /\ ToSet(h) = ToSet(history) \cup ToSet(reply)
    BY <1>3, <2>1, <2>2, ConcatFacts, ConcatInjective
  <2>5. history' = history \/ history' = h \o end
    BY <1>2 DEF reply, end
  <2> HIDE DEF h
  <2>6. ToSet(h) \cap ToSet(end) = {}
    BY <2>2, <2>3, <2>4
  <2>7. /\ h \o end \in Seq(Token) /\ IsInjective(h \o end)
        /\ ToSet(h \o end) = ToSet(h) \cup ToSet(end)
    BY <1>3, <2>4, <2>6, ConcatFacts, ConcatInjective
  <2> QED BY <2>1, <2>4, <2>5, <2>7
<1>7. cache' = cache \/ (cache' = fed /\ Len(fed) <= ContextLen)
  BY <1>2, <1>5 DEF reply, fed
<1>8. /\ cache' \in Seq(Token) /\ IsInjective(cache') /\ Len(cache') <= ContextLen
      /\ ToSet(cache') \subseteq ToSet(cache) \cup ToSet(prompt) \cup ToSet(reply)
  <2>1. cache \in Seq(Token) /\ Len(cache) <= ContextLen /\ IsInjective(cache)
    BY ConcatInjective DEF Fed, Room
  <2> QED BY <2>1, <1>4, <1>7
<1>9. ToSet(prompt') = {} /\ cache' \o prompt' = cache' /\ prompt' \in Seq(Token)
  BY <1>1, <1>8 DEF ToSet
<1>10. Fed'
  <2>1. ASSUME NEW t \in ToSet(history') \cup ToSet(cache') \cup ToSet(prompt')
        PROVE  t[1] < turn_count \/ (t[1] = turn_count /\ t[2] # "user")
    BY <1>3, <1>4, <1>6, <1>8, <1>9
  <2>2. ASSUME NEW t \in ToSet(history') \cup ToSet(cache') \cup ToSet(prompt')
        PROVE  Old(t)'
    BY <1>1, <2>1, <2>2 DEF Old
  <2>3. ASSUME NEW t \in ToSet(history') PROVE t[2] # "system"
    BY <1>3, <1>6, <2>3 DEF Fed
  <2> QED BY <1>6, <1>8, <1>9, <2>2, <2>3 DEF Fed
<1>11. Room'
  <2>1. reprefill' \in BOOLEAN
    BY <1>1 DEF Room
  <2> QED BY <1>1, <1>8, <1>9, <2>1 DEF Room
<1>12. Forgotten'
  <2>1. ASSUME NEW t \in Unrecorded' PROVE t[2] = "model"
    BY <1>3, <1>4, <1>6, <1>8, <2>1 DEF Unrecorded, System
  <2> QED BY <2>1 DEF Forgotten
<1> QED BY <1>10, <1>11, <1>12

LEMMA ChatNext == ChatInv /\ [CNext]_cvars => ChatInv'
<1> SUFFICES ASSUME ChatInv, [CNext]_cvars PROVE ChatInv'
  OBVIOUS
<1>0. Commands /\ Turns /\ Fed /\ Room /\ Forgotten
  BY DEF ChatInv
<1>1. Commands' /\ Turns'
  BY <1>0, CommandsNext, TurnsNext
<1> DEFINE Goal == Fed' /\ Room' /\ Forgotten'
<1>2. ASSUME UNCHANGED <<session, work>>, Busy' <=> Busy, Trimming' <=> Trimming
      PROVE  Goal
  BY ONLY <1>0, <1>2, QuietKeeps
<1> USE <1>0 DEF Commands
<1> HIDE DEF Goal
<1>3. ASSUME NEW c \in Call, NEW m \in Model, AskLoad(c, m) PROVE Goal
  BY <1>2, <1>3 DEF AskLoad, Busy, Trimming
<1>4. ASSUME NEW c \in Call, NEW n \in PromptLens, AskChat(c, n) PROVE Goal
  BY <1>2, <1>4 DEF AskChat, Busy, Trimming
<1>5. ASSUME NEW c \in Call,
             BuildFails(c) \/ Build(c) \/ Refuse(c) \/ Collect(c)
      PROVE  Goal
  <2>1. UNCHANGED <<session, work>>
    BY <1>5 DEF BuildFails, Build, Refuse, Collect
  <2>2. Busy' <=> Busy
    BY <1>5 DEF BuildFails, Build, Refuse, Collect, Stage, Busy
  <2>3. Trimming' <=> Trimming
    BY <1>5 DEF BuildFails, Build, Refuse, Collect, Stage, Trimming
  <2> QED BY <1>2, <2>1, <2>2, <2>3
<1>6. ASSUME NEW c \in Call, Install(c) PROVE Goal
  BY ONLY <1>0, <1>6, InstallKeeps DEF Goal
<1>7. ASSUME NEW c \in Call, Admit(c) PROVE Goal
  BY ONLY <1>0, <1>7, AdmitKeeps DEF Goal
<1>8. ASSUME NEW c \in Call, TrimHistory(c) PROVE Goal
  BY ONLY <1>0, <1>8, TrimKeeps DEF Goal
<1>9. ASSUME NEW c \in Call, StartRun(c) PROVE Goal
  BY ONLY <1>0, <1>9, StartKeeps DEF Goal
<1>10. ASSUME NEW c \in Call, RunEnds(c) \/ RunFails(c) PROVE Goal
  BY ONLY <1>0, <1>10, RunKeeps DEF Goal
<1>11. ASSUME UNCHANGED cvars PROVE Goal
  <2>1. UNCHANGED <<session, work>>
    BY ONLY <1>11 DEF cvars
  <2>2. Busy' <=> Busy
    BY ONLY <1>11 DEF Busy, cvars
  <2>3. Trimming' <=> Trimming
    BY ONLY <1>11 DEF Trimming, cvars
  <2> QED BY <1>2, <2>1, <2>2, <2>3
<1>12. Goal
  <2>1. ASSUME NEW c \in Call, Serve(c) PROVE Goal
    BY ONLY <2>1, <1>5, <1>6, <1>7, <1>8, <1>9, <1>10 DEF Serve
  <2>2. ASSUME CNext PROVE Goal
    <3>1. PICK c \in Call :
              \/ \E m \in Model : AskLoad(c, m)
              \/ \E n \in PromptLens : AskChat(c, n)
              \/ Serve(c)
              \/ Collect(c)
      BY ONLY <2>2 DEF CNext
    <3> QED BY ONLY <3>1, <2>1, <1>3, <1>4, <1>5
  <2> QED BY <2>2, <1>11
<1> QED BY <1>1, <1>12 DEF ChatInv, Goal

\* The trimming, which counts the session, counts the cache as well.
LEMMA RoomSuffices == Fed /\ Room => PromptFits
<1> SUFFICES ASSUME Fed, Room, Busy
             PROVE  Len(cache) + Len(prompt) + MaxNew
                        <= ContextLen + Cardinality(Unrecorded)
  BY DEF PromptFits, Busy
<1> DEFINE s == cache \o prompt
           S == ToSet(System)
           H == ToSet(history)
<1>1. /\ cache \in Seq(Token) /\ prompt \in Seq(Token) /\ history \in Seq(Token)
      /\ IsInjective(s)
  BY DEF Fed
<1>2. /\ s \in Seq(Token) /\ Len(s) = Len(cache) + Len(prompt)
      /\ ToSet(s) = ToSet(cache) \cup ToSet(prompt)
  BY <1>1, ConcatFacts
<1>3. SystemLen + Len(history) + MaxNew <= ContextLen
  BY DEF Room
<1>4. IsFiniteSet(S) /\ Cardinality(S) = SystemLen
  BY SizesType, ElementsOf
<1>5. IsFiniteSet(H) /\ Cardinality(H) \in Nat /\ Cardinality(H) <= Len(history)
  BY <1>1, ElementsOf
<1>6. IsFiniteSet(Unrecorded) /\ Cardinality(Unrecorded) \in Nat
  <2>1. IsFiniteSet(ToSet(cache)) /\ Unrecorded \in SUBSET ToSet(cache)
    BY <1>1, ElementsOf DEF Unrecorded
  <2> QED BY <2>1, FS_Subset, FS_CardinalityType
<1>7. ToSet(s) \subseteq (S \cup H) \cup Unrecorded
  BY <1>2 DEF Room, Unrecorded
<1>8. Len(s) = Cardinality(ToSet(s))
  BY <1>1, <1>2, ElementsOf
<1> HIDE DEF s, S, H
<1>9. /\ IsFiniteSet(S \cup H) /\ Cardinality(S \cup H) \in Nat
      /\ Cardinality(S \cup H) <= Cardinality(S) + Cardinality(H)
  <2>1. IsFiniteSet(S \cap H) /\ IsFiniteSet(S \cup H)
    BY <1>4, <1>5, FS_Union, FS_Intersection
  <2>2. Cardinality(S \cap H) \in Nat /\ Cardinality(S \cup H) \in Nat
        /\ Cardinality(S) \in Nat
    BY <2>1, <1>4, FS_CardinalityType
  <2>3. Cardinality(S \cup H)
            = Cardinality(S) + Cardinality(H) - Cardinality(S \cap H)
    BY <1>4, <1>5, FS_Union
  <2> QED BY <2>1, <2>2, <2>3, <1>5
<1> DEFINE A == S \cup H
           U == Unrecorded
<1>10. /\ IsFiniteSet(A \cup U) /\ Cardinality(A \cup U) \in Nat
       /\ Cardinality(A \cup U) <= Cardinality(A) + Cardinality(U)
  <2> HIDE DEF A, U
  <2>0. IsFiniteSet(A) /\ IsFiniteSet(U)
        /\ Cardinality(A) \in Nat /\ Cardinality(U) \in Nat
    BY <1>6, <1>9 DEF A, U
  <2>1. IsFiniteSet(A \cap U) /\ IsFiniteSet(A \cup U)
    BY <2>0, FS_Union, FS_Intersection
  <2>2. Cardinality(A \cap U) \in Nat /\ Cardinality(A \cup U) \in Nat
    BY <2>1, FS_CardinalityType
  <2>3. Cardinality(A \cup U)
            = Cardinality(A) + Cardinality(U) - Cardinality(A \cap U)
    BY <2>0, FS_Union
  <2> QED BY ONLY <2>0, <2>1, <2>2, <2>3
<1>11. Cardinality(ToSet(s)) <= Cardinality(A \cup U)
       /\ Cardinality(ToSet(s)) \in Nat
  <2>1. ToSet(s) \in SUBSET (A \cup U)
    BY <1>7
  <2> QED BY <2>1, <1>10, FS_Subset, FS_CardinalityType
<1>12. Len(cache) + Len(prompt) <= SystemLen + Len(history) + Cardinality(U)
  <2>1. /\ Len(history) \in Nat /\ SystemLen \in Nat
        /\ Len(cache) \in Nat /\ Len(prompt) \in Nat
    BY <1>1, SizesType
  <2>2. \A l, s1, h, u, a, au, st, ch \in Nat :
            l = st /\ st <= au /\ au <= a + u /\ a <= s1 + ch /\ ch <= h
                => l <= s1 + h + u
    OBVIOUS
  <2>3. Len(s) \in Nat /\ Cardinality(A) \in Nat /\ Cardinality(U) \in Nat
        /\ Cardinality(A) <= SystemLen + Cardinality(H)
    BY <1>2, <1>4, <1>6, <1>9
  <2>4. Len(s) <= SystemLen + Len(history) + Cardinality(U)
    BY ONLY <1>5, <1>8, <1>10, <1>11, <2>1, <2>2, <2>3
  <2> QED BY ONLY <2>4, <1>2
<1> QED
  <2>1. /\ Len(history) \in Nat /\ SystemLen \in Nat /\ MaxNew \in Nat
        /\ ContextLen \in Nat /\ Len(cache) \in Nat /\ Len(prompt) \in Nat
    BY <1>1, SizesType
  <2>2. \A s1, h, m, z, u, k, p \in Nat :
            s1 + h + m <= z /\ k + p <= s1 + h + u => k + p + m <= z + u
    OBVIOUS
  <2> QED BY <1>3, <1>6, <1>12, <2>1, <2>2

LEMMA ChatInvariant == CSpec => []ChatInv
BY CInitInv, ChatNext, PTL DEF CSpec

\* The commands of lib.rs keep their types, and the mutex of the session is
\* held exactly by the command at work on it.
THEOREM CommandsTypeCorrect == CSpec => []CTypeOK
<1>1. ChatInv => CTypeOK
  <2> SUFFICES ASSUME ChatInv PROVE CTypeOK
    OBVIOUS
  <2>1. turn_count \in 0 .. MaxTurns + Cardinality(Call)
    <3>1. MaxTurns \in Nat /\ turn_count \in Nat
          /\ turn_count + Cardinality(Coming) <= MaxTurns + Cardinality(Call)
      BY ChatAssumption DEF ChatInv, Turns
    <3> QED BY <3>1, ComingFacts
  <2> QED BY <2>1 DEF ChatInv, Commands, Room, CTypeOK
<1> QED BY <1>1, ChatInvariant, PTL

\* A turn that runs has room for its whole reply, whatever was trimmed or
\* failed before it (lib.rs trims by the length of the session, the cache is
\* what fills up).
THEOREM PromptsFitTheContext == CSpec => []PromptFits
<1>1. ChatInv => PromptFits
  BY RoomSuffices DEF ChatInv
<1> QED BY <1>1, ChatInvariant, PTL

\* What lib.rs drops from the session the model no longer reads.
THEOREM TrimmedIsForgotten == CSpec => []ForgetsTrimmed
<1>1. ChatInv => ForgetsTrimmed
  BY DEF ChatInv, Forgotten, ForgetsTrimmed
<1> QED BY <1>1, ChatInvariant, PTL

-----------------------------------------------------------------------------
(* The window and its commands.                                            *)

\* The window uses the commands as any caller may.
LEMMA StepIsCommand == [WNext]_wvars => [CNext]_cvars
<1> SUFFICES ASSUME [WNext]_wvars PROVE [CNext]_cvars
  OBVIOUS
<1>1. ASSUME NEW c \in Call, Command(c) PROVE CNext
  BY <1>1 DEF Command, CNext
<1>2. ASSUME NEW c \in Call, Answer(c) PROVE CNext \/ UNCHANGED cvars
  BY <1>2 DEF Answer, LoadSucceeded, LoadShown, LoadFailed, BackToEmptyScreen,
              Replied, ReplyFailed, CNext
<1>3. ASSUME NEW c \in Call, NEW m \in Model, FilePicked(c, m) PROVE CNext
  BY <1>3 DEF FilePicked, CNext
<1>4. ASSUME NEW c \in Call, NEW n \in PromptLens, Send(c, n) PROVE CNext
  BY <1>4 DEF Send, CNext
<1>5. ASSUME NEW c \in Call, ClickLoad(c) \/ DialogCancelled(c)
      PROVE  UNCHANGED cvars
  BY <1>5 DEF ClickLoad, DialogCancelled
<1>6. ASSUME ShowOtherScreen PROVE UNCHANGED cvars
  BY <1>6 DEF ShowOtherScreen
<1>7. ASSUME UNCHANGED wvars PROVE UNCHANGED cvars
  BY <1>7 DEF wvars
<1> QED BY <1>1, <1>2, <1>3, <1>4, <1>5, <1>6, <1>7 DEF WNext, User

\* Every behaviour of the window is one of the commands of lib.rs: what is
\* proved of these holds in the application.
THEOREM WindowImplementsCommands == WSpec => CSpec
<1>1. WInit => CInit
  BY DEF WInit
<1> QED BY <1>1, StepIsCommand, PTL DEF WSpec, CSpec

LEMMA HandlersNext ==
    Commands /\ Handlers /\ [WNext]_wvars => Handlers'
<1> SUFFICES ASSUME Commands, Handlers, [WNext]_wvars PROVE Handlers'
  OBVIOUS
<1> USE DEF Commands, Handlers, Waits, Wait, Stage, Stages
<1>1. ASSUME NEW c \in Call, ClickLoad(c) PROVE Handlers'
  BY <1>1 DEF ClickLoad, cvars
<1>2. ASSUME NEW c \in Call, DialogCancelled(c) PROVE Handlers'
  BY <1>2 DEF DialogCancelled, cvars
<1>3. ASSUME NEW c \in Call, NEW m \in Model, FilePicked(c, m) PROVE Handlers'
  BY <1>3 DEF FilePicked, AskLoad
<1>4. ASSUME NEW c \in Call, LoadSucceeded(c) PROVE Handlers'
  BY <1>4 DEF LoadSucceeded, Collect
<1>5. ASSUME NEW c \in Call, LoadShown(c) PROVE Handlers'
  BY <1>5 DEF LoadShown, cvars
<1>6. ASSUME NEW c \in Call, LoadFailed(c) PROVE Handlers'
  BY <1>6 DEF LoadFailed, Collect
<1>7. ASSUME NEW c \in Call, BackToEmptyScreen(c) PROVE Handlers'
  BY <1>7 DEF BackToEmptyScreen, cvars
<1>8. ASSUME ShowOtherScreen PROVE Handlers'
  BY <1>8 DEF ShowOtherScreen, cvars
<1>9. ASSUME NEW c \in Call, NEW n \in PromptLens, Send(c, n) PROVE Handlers'
  BY <1>9 DEF Send, AskChat
<1>10. ASSUME NEW c \in Call, Replied(c) PROVE Handlers'
  BY <1>10 DEF Replied, Collect
<1>11. ASSUME NEW c \in Call, ReplyFailed(c) PROVE Handlers'
  BY <1>11 DEF ReplyFailed, Collect
<1>12. ASSUME NEW c \in Call, Command(c) PROVE Handlers'
  <2>1. ui' = ui
    BY <1>12 DEF Command
  <2>2. CASE BuildFails(c) \/ Build(c) \/ Install(c)
    <3>1. /\ arg' = arg /\ call[c] \in {"building", "built"}
          /\ \E stage \in {"built", "ok", "failed"} :
                call' = [call EXCEPT ![c] = stage]
      BY <2>2 DEF BuildFails, Build, Install
    <3> QED BY <2>1, <3>1
  <2>3. CASE \/ Refuse(c) \/ Admit(c) \/ TrimHistory(c) \/ StartRun(c)
             \/ RunEnds(c) \/ RunFails(c)
    <3>1. /\ arg' = arg /\ call[c] \in {"waiting", "trimming", "running"}
          /\ \E stage \in {"trimming", "running", "ok", "failed"} :
                call' = [call EXCEPT ![c] = stage]
      BY <2>3 DEF Refuse, Admit, TrimHistory, StartRun, RunEnds, RunFails
    <3> QED BY <2>1, <3>1
  <2> QED BY <1>12, <2>2, <2>3 DEF Command, Serve
<1>13. ASSUME UNCHANGED wvars PROVE Handlers'
  BY <1>13 DEF wvars, cvars
<1> QED BY <1>1, <1>2, <1>3, <1>4, <1>5, <1>6, <1>7, <1>8, <1>9, <1>10,
           <1>11, <1>12, <1>13 DEF WNext, User, Answer

LEMMA ShownNext ==
    Commands /\ Handlers /\ Shown /\ [WNext]_wvars => Shown'
<1> SUFFICES ASSUME Commands, Handlers, Shown, [WNext]_wvars PROVE Shown'
  OBVIOUS
<1> USE DEF Commands, Handlers, Waits, Wait, Stage, Stages, Loads, InPlace,
            session, work
<1>1. ASSUME NEW c \in Call, ClickLoad(c) PROVE Shown'
  BY <1>1, ZenonT(40) DEF ClickLoad, cvars, store, Shown
<1>2. ASSUME NEW c \in Call, DialogCancelled(c) PROVE Shown'
  BY <1>2 DEF DialogCancelled, cvars, store, Shown
<1>3. ASSUME NEW c \in Call, NEW m \in Model, FilePicked(c, m) PROVE Shown'
  BY <1>3 DEF FilePicked, AskLoad, Shown
<1>4. ASSUME NEW c \in Call, LoadSucceeded(c) PROVE Shown'
  BY <1>4, ZenonT(40) DEF LoadSucceeded, Collect, store, Shown
<1>5. ASSUME NEW c \in Call, LoadShown(c) PROVE Shown'
  BY <1>5 DEF LoadShown, ShownName, cvars, Shown
<1>6. ASSUME NEW c \in Call, LoadFailed(c) PROVE Shown'
  BY <1>6, ZenonT(40) DEF LoadFailed, Collect, Shown
<1>7. ASSUME NEW c \in Call, BackToEmptyScreen(c) PROVE Shown'
  BY <1>7 DEF BackToEmptyScreen, cvars, store, Shown
<1>8. ASSUME ShowOtherScreen PROVE Shown'
  BY <1>8 DEF ShowOtherScreen, cvars, store, Shown
<1>9. ASSUME NEW c \in Call, NEW n \in PromptLens, Send(c, n) PROVE Shown'
  <2>1. /\ ui[c] = "nothing" /\ ui' = [ui EXCEPT ![c] = "chat"]
        /\ call[c] = "idle" /\ call' = [call EXCEPT ![c] = "waiting"]
        /\ arg' = [arg EXCEPT ![c] = n]
    BY <1>9 DEF Send, AskChat
  <2>2. \A d \in Call : (InPlace(d)' <=> InPlace(d)) /\ (InPlace(d) => d # c)
    BY <2>1
  <2>3. \A d \in Call : d # c => arg'[d] = arg[d]
    BY <2>1
  <2>4. Loads' = Loads
    BY <2>1
  <2>5. UNCHANGED <<appOnline, modelName, screen, overlapped, loaded>>
    BY <1>9 DEF Send, AskChat
  <2>6. Shown
    OBVIOUS
  <2> QED BY ONLY <2>2, <2>3, <2>4, <2>5, <2>6 DEF Shown
<1>10. ASSUME NEW c \in Call, Replied(c) PROVE Shown'
  BY <1>10, ZenonT(40) DEF Replied, Collect, Shown
<1>11. ASSUME NEW c \in Call, ReplyFailed(c) PROVE Shown'
  BY <1>11, ZenonT(40) DEF ReplyFailed, Collect, Shown
<1>12. ASSUME NEW c \in Call, Command(c) PROVE Shown'
  <2>1. UNCHANGED <<ui, store, screen, overlapped>>
    BY <1>12 DEF Command
  <2>2. CASE Install(c)
    <3>1. /\ call[c] = "built" /\ ui[c] = "load" /\ arg[c] \in Model
          /\ call' = [call EXCEPT ![c] = "ok"]
          /\ loaded' = arg[c] /\ arg' = arg
      BY <2>2 DEF Install
    <3>2. InPlace(c)' /\ Loads' = Loads /\ c \in Loads
      BY <2>1, <3>1
    <3>3. \A d \in Call : InPlace(d)' => d \in Loads
      BY <2>1, <3>1
    <3>4. UNCHANGED <<appOnline, modelName, screen, overlapped>>
      BY <2>1 DEF store
    <3>5. loaded' \in Model /\ loaded' # NoModel
      BY <3>1, ChatAssumption
    <3>6. Shown
      OBVIOUS
    <3> QED BY ONLY <3>1, <3>2, <3>3, <3>4, <3>5, <3>6 DEF Shown
  <2>3. CASE BuildFails(c) \/ Build(c)
    <3>1. /\ arg' = arg /\ loaded' = loaded
          /\ \E stage \in {"built", "failed"} :
                call[c] = "building" /\ call' = [call EXCEPT ![c] = stage]
      BY <2>3 DEF BuildFails, Build
    <3>2. \A d \in Call : InPlace(d)' <=> InPlace(d)
      BY <2>1, <3>1
    <3>3. Loads' = Loads
      BY <2>1
    <3>4. UNCHANGED <<appOnline, modelName, screen, overlapped>>
      BY <2>1 DEF store
    <3>5. Shown
      OBVIOUS
    <3> QED BY ONLY <3>1, <3>2, <3>3, <3>4, <3>5 DEF Shown
  <2>4. CASE \/ Refuse(c) \/ Admit(c) \/ TrimHistory(c) \/ StartRun(c)
             \/ RunEnds(c) \/ RunFails(c)
    <3>1. /\ arg' = arg /\ loaded' = loaded
          /\ call[c] \in {"waiting", "trimming", "running"}
          /\ \E stage \in {"trimming", "running", "ok", "failed"} :
                call' = [call EXCEPT ![c] = stage]
      BY <2>4 DEF Refuse, Admit, TrimHistory, StartRun, RunEnds, RunFails
    <3>2. \A d \in Call : InPlace(d)' <=> InPlace(d)
      BY <2>1, <3>1
    <3>3. Loads' = Loads
      BY <2>1
    <3>4. UNCHANGED <<appOnline, modelName, screen, overlapped>>
      BY <2>1 DEF store
    <3>5. Shown
      OBVIOUS
    <3> QED BY ONLY <3>1, <3>2, <3>3, <3>4, <3>5 DEF Shown
  <2> QED BY <1>12, <2>2, <2>3, <2>4 DEF Command, Serve
<1>13. ASSUME UNCHANGED wvars PROVE Shown'
  BY <1>13 DEF wvars, cvars, store, Shown
<1> QED BY <1>1, <1>2, <1>3, <1>4, <1>5, <1>6, <1>7, <1>8, <1>9, <1>10,
           <1>11, <1>12, <1>13 DEF WNext, User, Answer

LEMMA WindowInvariant == WSpec => []WInv
<1>1. WInit => WInv
  <2> SUFFICES ASSUME WInit PROVE WInv
    OBVIOUS
  <2>1. ChatInv
    BY CInitInv DEF WInit
  <2>2. Handlers /\ Shown
    BY DEF WInit, CInit, Handlers, Shown, Waits, InPlace, Loads
  <2> QED BY <2>1, <2>2 DEF WInv
<1>2. WInv /\ [WNext]_wvars => WInv'
  <2> SUFFICES ASSUME WInv, [WNext]_wvars PROVE WInv'
    OBVIOUS
  <2>1. ChatInv /\ Commands /\ Handlers /\ Shown
    BY DEF WInv, ChatInv
  <2> QED BY <2>1, StepIsCommand, ChatNext, HandlersNext, ShownNext DEF WInv
<1> QED BY <1>1, <1>2, PTL DEF WSpec

\* A handler of main.ts waits for the command it invoked, and for no other.
THEOREM WindowTypeCorrect == WSpec => []WTypeOK
<1>1. WInv /\ CTypeOK => WTypeOK
  BY DEF WInv, Handlers, Shown, WTypeOK
<1> QED BY <1>1, WindowInvariant, WindowImplementsCommands, CommandsTypeCorrect, PTL

\* The window says online only when a model is loaded, and shows its name
\* (state.ts), in whatever order loads, messages and answers come; only loads
\* that overlapped may be shown in another order than they took place.
THEOREM NameIsOfTheModel == WSpec => []ShowsTheModel
<1>1. WInv => ShowsTheModel
  BY DEF WInv, Shown, ShowsTheModel, InPlace, Loads
<1> QED BY <1>1, WindowInvariant, PTL

-----------------------------------------------------------------------------
(* The lock of the window.                                                 *)

\* Where the handlers are; the lock's owner is the command at work.
LInv ==
    /\ ui \in [Call -> Waits]
    /\ LockedForAReason

LEMMA LInit == WInit => LInv
  BY DEF WInit, LInv, LockedForAReason, Waits

\* A step unlocks the input, or leaves in place a handler that will.
LEMMA LNext == LInv /\ [WNext]_wvars => LInv'
<1> SUFFICES ASSUME LInv, [WNext]_wvars PROVE LInv'
  OBVIOUS
<1> USE DEF LInv, LockedForAReason, Waits, Wait, store
<1>1. ASSUME NEW c \in Call, ClickLoad(c) PROVE LInv'
  BY <1>1 DEF ClickLoad
<1>2. ASSUME NEW c \in Call, DialogCancelled(c) PROVE LInv'
  BY <1>2 DEF DialogCancelled
<1>3. ASSUME NEW c \in Call, NEW m \in Model, FilePicked(c, m) PROVE LInv'
  BY <1>3 DEF FilePicked
<1>4. ASSUME NEW c \in Call, LoadSucceeded(c) PROVE LInv'
  BY <1>4 DEF LoadSucceeded
<1>5. ASSUME NEW c \in Call, LoadShown(c) PROVE LInv'
  BY <1>5 DEF LoadShown
<1>6. ASSUME NEW c \in Call, LoadFailed(c) PROVE LInv'
  BY <1>6 DEF LoadFailed
<1>7. ASSUME NEW c \in Call, BackToEmptyScreen(c) PROVE LInv'
  BY <1>7 DEF BackToEmptyScreen
<1>8. CASE ShowOtherScreen
  BY <1>8 DEF ShowOtherScreen
<1>9. ASSUME NEW c \in Call, NEW n \in PromptLens, Send(c, n) PROVE LInv'
  BY <1>9 DEF Send
<1>10. ASSUME NEW c \in Call, Replied(c) PROVE LInv'
  BY <1>10 DEF Replied
<1>11. ASSUME NEW c \in Call, ReplyFailed(c) PROVE LInv'
  BY <1>11 DEF ReplyFailed
<1>12. ASSUME NEW c \in Call, Command(c) PROVE LInv'
  BY <1>12 DEF Command
<1>13. CASE UNCHANGED wvars
  BY <1>13 DEF wvars
<1>14. QED
  BY <1>1, <1>2, <1>3, <1>4, <1>5, <1>6, <1>7, <1>8, <1>9, <1>10,
     <1>11, <1>12, <1>13 DEF WNext, User, Answer

\* The window is never dead: whenever its input is locked (state.ts,
\* isLoading), some handler of main.ts is still waiting that will unlock it,
\* in whatever order loads, messages, answers and timers come.
THEOREM NeverLockedForNothing == WSpec => []LockedForAReason
<1>1. LInv => LockedForAReason
  BY DEF LInv
<1>2. QED
  BY <1>1, LInit, LNext, PTL DEF WSpec
=============================================================================
