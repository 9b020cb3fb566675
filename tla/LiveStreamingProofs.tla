-------------------------- MODULE LiveStreamingProofs --------------------------
(***************************************************************************)
(* Proofs about LiveStreaming for every finite set of web clients and any  *)
(* length of the output.                                                   *)
(***************************************************************************)
EXTENDS LiveStreaming, FiniteSetTheorems, WellFoundedInduction, TLAPS

Sequence == Seq(Buffers)

LogType == [open : BOOLEAN, error : BOOLEAN, sending : Sequence, refs : Sequence,
            writes : Seq(Sequence), continuing : Nat, queue : Sequence, raced : BOOLEAN]

ClientType ==
    [at : {"absent", "header", "reading", "writing", "streamed", "gone"},
     left : Nat, position : Nat, fromFile : Nat, fileBuffer : Buffers \cup {NoBuffer},
     sending : Sequence, refs : Sequence, writes : Seq(Sequence), continuing : Nat,
     queue : Sequence, error : BOOLEAN, got : Seq(Nat), ends : Nat, raced : BOOLEAN]

-------------------------------------------------------------------------------
(* The pool: there is always a buffer nobody holds.                        *)

\* Of some buffers one is the smallest.
LEMMA SmallestExists ==
    ASSUME NEW S \in SUBSET Buffers, S # {}
    PROVE  Smallest(S) \in S
  <1> DEFINE Below(m) == {k \in S : k < m}
             T == {Below(m) : m \in S}
             R == StrictSubsetOrdering(S)
  <1>1. Cardinality(Clients) \in Nat /\ MaxChunks \in Nat
    BY FS_CardinalityType, LiveStreamingAssumption
  <1>2. S \subseteq Nat BY <1>1 DEF Buffers
  <1>3. IsFiniteSet(S)
    <2>1. IsFiniteSet(1 .. MaxChunks + 1 + Cardinality(Clients)) BY <1>1, FS_Interval
    <2> QED BY <2>1, FS_Subset DEF Buffers
  <1>4. T \subseteq FiniteSubsetsOf(S) /\ T # {}
    <2>1. FiniteSubsetsOf(S) = SUBSET S BY <1>3, FS_FiniteSubsetsOfFinite
    <2>2. \A u \in T : u \subseteq S OBVIOUS
    <2>3. T # {} OBVIOUS
    <2> HIDE DEF T
    <2> QED BY <2>1, <2>2, <2>3
  <1>5. PICK t \in T : \A u \in T : <<u, t>> \notin R
    <2> HIDE DEF R, T
    <2>1. IsWellFoundedOn(R, FiniteSubsetsOf(S))
      BY <1>3, FS_StrictSubsetOrderingWellFounded DEF R
    <2> QED BY <1>4, <2>1, WFMin
  <1>6. PICK m \in S : t = Below(m) OBVIOUS
  <1>7. ASSUME NEW k \in S, k < m PROVE FALSE
    <2>1. Below(k) \in T /\ Below(m) \in T OBVIOUS
    <2>2. Below(k) \subseteq Below(m)
      <3>1. ASSUME NEW x \in Below(k) PROVE x \in Below(m)
        <4>1. x \in S /\ x < k OBVIOUS
        <4>2. x \in Nat /\ k \in Nat /\ m \in Nat BY <1>2, <4>1
        <4> QED BY <1>7, <4>1, <4>2
      <3> QED BY <3>1
    <2>3. k \in Below(m) /\ k \notin Below(k) BY <1>2, <1>7
    <2>4. <<Below(k), Below(m)>> \in R BY <2>2, <2>3 DEF StrictSubsetOrdering
    <2> QED BY <1>5, <1>6, <2>1, <2>4
  <1>8. \A k \in S : m <= k
    <2> TAKE k \in S
    <2>1. k \in Nat /\ m \in Nat BY <1>2
    <2> QED BY <1>7, <2>1
  <1> HIDE DEF T, R, Below
  <1> QED BY <1>8 DEF Smallest

\* Some chunks, each in one buffer, and some more buffers leave one to be used.
LEMMA Enough ==
    ASSUME NEW L, NEW m \in 0 .. MaxChunks, NEW v \in [L -> 1 .. m],
           \A b, d \in L : v[b] = v[d] => b = d,
           NEW X, IsFiniteSet(X), Cardinality(X) <= Cardinality(Clients)
    PROVE  \E b \in Buffers : b \notin L /\ b \notin X
  <1>1. Cardinality(Clients) \in Nat /\ MaxChunks \in Nat /\ m \in Nat /\ m <= MaxChunks
    BY FS_CardinalityType, LiveStreamingAssumption
  <1>2. v \in Injection(L, 1 .. m) BY DEF Injection, IsInjective
  <1>3. IsFiniteSet(1 .. m) /\ Cardinality(1 .. m) = m
    BY <1>1, FS_Interval
  <1>4. IsFiniteSet(L) /\ Cardinality(L) <= m BY <1>2, <1>3, FS_Injection
  <1>5. Cardinality(L) \in Nat /\ Cardinality(X) \in Nat /\ Cardinality(L \cap X) \in Nat
    <2>1. IsFiniteSet(L \cap X) BY <1>4, FS_Subset
    <2> QED BY <1>4, <2>1, FS_CardinalityType
  <1>6. IsFiniteSet(L \cup X) /\ Cardinality(L \cup X) <= MaxChunks + Cardinality(Clients)
    <2>1. IsFiniteSet(L \cup X) BY <1>4, FS_Union
    <2>2. Cardinality(L \cup X) = Cardinality(L) + Cardinality(X) - Cardinality(L \cap X)
      BY <1>4, FS_Union
    <2> QED BY <1>1, <1>4, <1>5, <2>1, <2>2
  <1>7. Cardinality(Buffers) = MaxChunks + 1 + Cardinality(Clients)
    BY <1>1, FS_Interval DEF Buffers
  <1>8. ASSUME Buffers \subseteq L \cup X PROVE FALSE
    <2>1. Cardinality(Buffers) <= Cardinality(L \cup X) BY <1>6, <1>8, FS_Subset
    <2>2. Cardinality(L \cup X) \in Nat BY <1>6, FS_CardinalityType
    <2> QED BY <1>1, <1>6, <1>7, <2>1, <2>2
  <1> QED BY <1>8

\* Values of a function on a finite set.
LEMMA ImageBound ==
    ASSUME NEW S, IsFiniteSet(S), NEW T, NEW f \in [S -> T]
    PROVE  /\ IsFiniteSet({f[x] : x \in S})
           /\ Cardinality({f[x] : x \in S}) <= Cardinality(S)
  <1>1. f \in Surjection(S, {f[x] : x \in S}) BY DEF Surjection
  <1> QED BY <1>1, FS_Surjection

-------------------------------------------------------------------------------
(* The invariant                                                           *)

Types ==
    /\ total \in 0 .. MaxChunks /\ read \in 0 .. total
    /\ child \in {"made", "running", "dead", "exited"}
    /\ pipe \in {"none", "reading", "closed"}
    /\ contents \in [Buffers -> Nat] /\ current \in Buffers \cup {NoBuffer}
    /\ log \in LogType /\ file \in Seq(Nat)
    /\ client \in [Clients -> ClientType]

\* Buffers with output that is still to be written.
LiveOf(l, clients) ==
    ToSet(l.sending) \cup ToSet(l.queue) \cup
    UNION {ToSet(clients[c].sending) \cup ToSet(clients[c].queue) : c \in Clients}

Live == LiveOf(log, client)
FileBuffers == {client[c].fileBuffer : c \in Clients}

\* Buffers with output hold different chunks, and nobody reads into one of them or
\* into a buffer of somebody else.
BuffersRight ==
    /\ child = "made" => current = NoBuffer /\ pipe = "none" /\ read = 0
    /\ pipe = "reading" => current \in Buffers /\ current \notin Live
    /\ \A b \in Live : contents[b] \in 1 .. read
    /\ \A b, d \in Live : contents[b] = contents[d] => b = d
    /\ \A c \in Clients : client[c].fileBuffer # NoBuffer =>
          /\ client[c].fileBuffer \notin Live /\ client[c].fileBuffer # current
          /\ \A d \in Clients \ {c} : client[d].fileBuffer # client[c].fileBuffer

LogState ==
    /\ log.queue # <<>> => log.sending # <<>>
    /\ log.error => log.sending = <<>>

LogFile == Len(file) <= read /\ \A k \in DOMAIN file : file[k] = k

\* One write at most, of what is being sent.
LogWrites ==
    \/ log.writes = <<>> /\ log.continuing = 0 /\ log.sending = <<>>
    \/ log.writes = <<>> /\ log.continuing = 1 /\ log.refs = log.sending
    \/ /\ log.writes = <<log.sending>> /\ log.sending # <<>>
       /\ log.continuing = 0 \/ (log.continuing = 1 /\ log.refs = <<>>)

\* What is being written and what is queued continues the file.
LogFlow ==
    ~log.error =>
        /\ Len(file) + Len(log.sending) + Len(log.queue) = read
        /\ \A k \in DOMAIN log.sending : contents[log.sending[k]] = Len(file) + k
        /\ \A k \in DOMAIN log.queue : contents[log.queue[k]] = Len(file) + Len(log.sending) + k

LogRight == LogState /\ (~log.raced => LogFile /\ LogWrites /\ LogFlow)

HandledRight ==
    handled => child = "exited" /\ pipe # "reading" /\ log.writes = <<>> /\ log.continuing = 0

\* A client at the beginning has nothing; one that is sent a file has a buffer for it.
Place(x) ==
    /\ x.left + x.position <= x.fromFile /\ x.fromFile <= Len(file)
    /\ x.at \in {"absent", "header", "gone"} =>
          /\ x.fileBuffer = NoBuffer /\ x.fromFile = 0 /\ x.got = <<>> /\ x.continuing = 0
          /\ x.sending = <<>> /\ x.writes = <<>> /\ x.queue = <<>>
    /\ x.at \in {"reading", "writing"} => x.fileBuffer \in Buffers

Unharmed(x) == ~x.raced /\ ~x.error /\ ~log.raced

Ordered(buffers) ==
    \A j, k \in DOMAIN buffers : j < k => contents[buffers[j]] < contents[buffers[k]]

\* What an unharmed client has got so far, and what is to be written to it after that.
FlowFile(x) ==
    /\ x.left + x.position = x.fromFile /\ x.fromFile <= Len(file) /\ x.position <= Len(x.got)
    /\ \A k \in 1 .. x.position : x.got[k] = k
    /\ x.left > 0 => /\ Len(x.got) = x.position
                     /\ x.sending = <<>> /\ x.writes = <<>> /\ x.continuing = 0
                     /\ x.at = "writing" => contents[x.fileBuffer] = x.position + 1

FlowGot(x) ==
    /\ \A k \in DOMAIN x.got : x.got[k] \in 1 .. read
    /\ \A j, k \in DOMAIN x.got : j < k => x.got[j] < x.got[k]

FlowWrite(x) ==
    \/ x.writes = <<>> /\ x.continuing = 0 /\ x.sending = <<>>
    \/ x.writes = <<x.sending>> /\ x.continuing = 0 /\ x.sending # <<>>
    \/ x.writes = <<>> /\ x.continuing = 1 /\ x.refs = x.sending

FlowLive(x) ==
    /\ Ordered(x.sending) /\ Ordered(x.queue)
    /\ \A j \in DOMAIN x.sending, k \in DOMAIN x.queue :
          contents[x.sending[j]] < contents[x.queue[k]]
    /\ \A b \in ToSet(x.sending) \cup ToSet(x.queue) :
          /\ x.fromFile < contents[b]
          /\ \A k \in DOMAIN x.got : x.got[k] < contents[b]

Flow(x) == FlowFile(x) /\ FlowGot(x) /\ FlowWrite(x) /\ FlowLive(x)

ClientRight(c) == Place(client[c]) /\ (Unharmed(client[c]) => Flow(client[c]))

\* Nothing of this is inductive without the others: what is written is right because
\* buffers are not shared, which they are not because the pool knows who holds one.
IInv ==
    /\ Types
    /\ BuffersRight
    /\ LogRight
    /\ HandledRight
    /\ \A c \in Clients : ClientRight(c)

-------------------------------------------------------------------------------

LEMMA Implied == IInv => LogFaithful /\ FileThenLive
  <1> SUFFICES ASSUME IInv PROVE LogFaithful /\ FileThenLive OBVIOUS
  <1>1. TypeOK
    BY DEF IInv, Types, LogRight, LogState, ClientRight, Place, TypeOK
  <1>2. ~log.raced => Len(file) <= read /\ \A k \in DOMAIN file : file[k] = k
    BY DEF IInv, LogRight, LogFile
  <1>3. ~log.raced /\ handled => Len(file) = read \/ log.error
    <2> SUFFICES ASSUME handled, ~log.raced, ~log.error PROVE Len(file) = read OBVIOUS
    <2>1. log.sending = <<>> /\ log.queue = <<>>
      BY DEF IInv, HandledRight, LogRight, LogState, LogWrites
    <2>2. Len(file) + Len(log.sending) + Len(log.queue) = read
      BY DEF IInv, LogRight, LogFlow
    <2>3. Len(file) \in Nat BY DEF IInv, Types
    <2> QED BY <2>1, <2>2, <2>3
  <1>4. FileThenLive
    <2> SUFFICES ASSUME NEW c \in Clients, Unharmed(client[c]), NEW k \in DOMAIN client[c].got
                 PROVE  /\ k <= client[c].fromFile => client[c].got[k] = k
                        /\ k > 1 => client[c].got[k - 1] < client[c].got[k]
      BY DEF FileThenLive, Unharmed
    <2> DEFINE x == client[c]
    <2>1. x \in ClientType /\ FlowFile(x) /\ FlowGot(x) BY DEF IInv, Types, ClientRight, Flow
    <2> HIDE DEF x
    <2>2. x.got \in Seq(Nat) /\ x.left \in Nat /\ x.position \in Nat /\ x.fromFile \in Nat
      BY <2>1 DEF ClientType
    <2>3. k \in 1 .. Len(x.got) BY <2>2 DEF x
    <2>4. k <= x.fromFile => x.got[k] = k
      <3> SUFFICES ASSUME k <= x.fromFile PROVE k \in 1 .. x.position
        BY <2>1 DEF FlowFile
      <3>1. CASE x.left = 0 BY <2>1, <2>2, <2>3, <3>1 DEF FlowFile
      <3>2. CASE x.left # 0 BY <2>1, <2>2, <2>3, <3>2 DEF FlowFile
      <3> QED BY <3>1, <3>2
    <2>5. ASSUME k > 1 PROVE x.got[k - 1] < x.got[k]
      <3>1. k - 1 \in DOMAIN x.got /\ k \in DOMAIN x.got /\ k - 1 < k BY <2>2, <2>3, <2>5
      <3> QED BY <2>1, <3>1 DEF FlowGot
    <2> QED BY <2>4, <2>5 DEF x
  <1> QED BY <1>1, <1>2, <1>3, <1>4 DEF LogFaithful

LEMMA NoneLive == ToSet(<<>>) = {}
  BY DEF ToSet

LEMMA InitIInv == Init => IInv
  <1> SUFFICES ASSUME Init PROVE IInv OBVIOUS
  <1>0. MaxChunks \in Nat BY LiveStreamingAssumption
  <1>1. Types
    BY <1>0 DEF Init, Types, LogType, ClientType, NewLog, NewClient, Sequence
  <1>2. Live = {} BY NoneLive DEF Init, Live, LiveOf, NewLog, NewClient
  <1>3. BuffersRight BY <1>2 DEF Init, BuffersRight, NewClient
  <1>4. LogRight /\ HandledRight
    BY DEF Init, LogRight, LogState, LogFile, LogWrites, LogFlow, HandledRight, NewLog
  <1>5. \A c \in Clients : ClientRight(c)
    <2> SUFFICES ASSUME NEW c \in Clients PROVE ClientRight(c) OBVIOUS
    <2>1. client[c] = NewClient BY DEF Init
    <2>2. Place(NewClient) BY DEF Place, NewClient
    <2>3. FlowFile(NewClient) /\ FlowGot(NewClient) BY DEF FlowFile, FlowGot, NewClient, Init
    <2>4. FlowWrite(NewClient) BY DEF FlowWrite, NewClient
    <2>5. FlowLive(NewClient) BY NoneLive DEF FlowLive, Ordered, NewClient
    <2> QED BY <2>1, <2>2, <2>3, <2>4, <2>5 DEF ClientRight, Flow
  <1> QED BY <1>1, <1>3, <1>4, <1>5 DEF IInv

-------------------------------------------------------------------------------
(* Sequences of buffers                                                    *)

LEMMA SequenceFacts ==
    ASSUME NEW s \in Sequence
    PROVE  /\ ToSet(s) \subseteq Buffers
           /\ \A k \in DOMAIN s : s[k] \in Buffers /\ s[k] \in ToSet(s)
           /\ \A b \in ToSet(s) : \E k \in DOMAIN s : b = s[k]
  BY DEF ToSet, Sequence

LEMMA AppendFacts ==
    ASSUME NEW s \in Sequence, NEW b \in Buffers
    PROVE  /\ Append(s, b) \in Sequence
           /\ Append(s, b) # <<>>
           /\ ToSet(Append(s, b)) = ToSet(s) \cup {b}
           /\ Append(s, b)[Len(s) + 1] = b
           /\ \A k \in DOMAIN Append(s, b) : k = Len(s) + 1 \/ (k \in DOMAIN s /\ Append(s, b)[k] = s[k])
  <1>1. /\ Append(s, b) \in Sequence /\ Append(s, b) # <<>>
        /\ DOMAIN Append(s, b) = 1 .. Len(s) + 1 /\ DOMAIN s = 1 .. Len(s) /\ Len(s) \in Nat
        /\ Append(s, b)[Len(s) + 1] = b
        /\ \A k \in 1 .. Len(s) : Append(s, b)[k] = s[k]
    BY DEF Sequence
  <1>2. \A k \in 1 .. Len(s) + 1 : k = Len(s) + 1 \/ k \in 1 .. Len(s) BY <1>1
  <1>3. ToSet(Append(s, b)) = ToSet(s) \cup {b}
    <2>1. ToSet(Append(s, b)) = {Append(s, b)[k] : k \in 1 .. Len(s) + 1} BY <1>1 DEF ToSet
    <2>2. ToSet(s) = {s[k] : k \in 1 .. Len(s)} BY <1>1 DEF ToSet
    <2>3. Len(s) + 1 \in 1 .. Len(s) + 1 /\ 1 .. Len(s) \subseteq 1 .. Len(s) + 1 BY <1>1
    <2> HIDE DEF Sequence
    <2> QED BY <1>1, <1>2, <2>1, <2>2, <2>3
  <1> QED BY <1>1, <1>2, <1>3

LEMMA ContentsFacts ==
    ASSUME Types, NEW s \in Sequence
    PROVE  /\ Contents(s) \in Seq(Nat) /\ Len(Contents(s)) = Len(s)
           /\ \A k \in DOMAIN s : Contents(s)[k] = contents[s[k]] /\ contents[s[k]] \in Nat
  <1>1. DOMAIN s = 1 .. Len(s) /\ Len(s) \in Nat /\ \A k \in 1 .. Len(s) : s[k] \in Buffers
    BY DEF Sequence
  <1>2. Contents(s) \in [1 .. Len(s) -> Nat] BY <1>1 DEF Contents, Types
  <1>3. \A k \in DOMAIN s : Contents(s)[k] = contents[s[k]] /\ contents[s[k]] \in Nat
    BY <1>1 DEF Contents, Types
  <1> QED BY <1>1, <1>2, <1>3

LEMMA RemoveAtFacts ==
    ASSUME NEW S, NEW s \in Seq(S), NEW k \in DOMAIN s
    PROVE  /\ RemoveAt(s, k) \in Seq(S)
           /\ Len(s) = 1 => RemoveAt(s, k) = <<>>
  <1>1. Len(s) \in Nat /\ k \in 1 .. Len(s) OBVIOUS
  <1>2. SubSeq(s, 1, k - 1) \in Seq(S) /\ SubSeq(s, k + 1, Len(s)) \in Seq(S) BY <1>1
  <1>3. Len(s) = 1 => Len(SubSeq(s, 1, k - 1)) = 0 /\ Len(SubSeq(s, k + 1, Len(s))) = 0 BY <1>1
  <1> QED BY <1>2, <1>3 DEF RemoveAt

-------------------------------------------------------------------------------
(* What steps leave alone                                                  *)

LEMMA LiveTypes == ASSUME Types PROVE Live \subseteq Buffers
  <1>1. log.sending \in Sequence /\ log.queue \in Sequence BY DEF Types, LogType
  <1>2. \A c \in Clients : client[c].sending \in Sequence /\ client[c].queue \in Sequence
    BY DEF Types, ClientType
  <1> QED BY <1>1, <1>2, SequenceFacts DEF Live, LiveOf

\* Nobody gets a buffer, and none with output or for a file is written to.
LEMMA BuffersKept ==
    ASSUME Types, BuffersRight, UNCHANGED <<current, read>>, Live' \subseteq Live,
           \A b \in Live : contents'[b] = contents[b],
           \A c \in Clients : client'[c].fileBuffer = client[c].fileBuffer,
           child' = "made" => child = "made" /\ pipe' = pipe,
           pipe' = "reading" => pipe = "reading"
    PROVE  BuffersRight'
  BY DEF BuffersRight

\* A client is left alone.
LEMMA ClientKept ==
    ASSUME Types, NEW c \in Clients, ClientRight(c), client'[c] = client[c],
           read <= read', read' \in Nat, Len(file) <= Len(file'), log.raced => log'.raced, Len(file') \in Nat,
           \A b \in Live : contents'[b] = contents[b],
           client[c].fileBuffer \in Buffers =>
               contents'[client[c].fileBuffer] = contents[client[c].fileBuffer]
    PROVE  ClientRight(c)'
  <1> DEFINE x == client[c]
  <1>1. x \in ClientType /\ read \in Nat /\ Len(file) \in Nat /\ x' = x BY DEF Types
  <1>2. /\ x.sending \in Sequence /\ x.queue \in Sequence /\ x.got \in Seq(Nat)
        /\ x.fromFile \in Nat
    BY <1>1 DEF ClientType
  <1>3. Place(x)' BY <1>1, <1>2 DEF ClientRight, Place
  <1>4. ASSUME Unharmed(x)' PROVE Flow(x)'
    <2>1. Flow(x) BY <1>1, <1>4 DEF ClientRight, Unharmed
    <2>2. FlowFile(x)' BY <1>1, <1>2, <2>1 DEF Flow, FlowFile, ClientRight, Place
    <2>3. FlowGot(x)' BY <1>1, <1>2, <2>1 DEF Flow, FlowGot
    <2>4. FlowWrite(x)' BY <1>1, <2>1 DEF Flow, FlowWrite
    <2>5. FlowLive(x)'
      <3>1. \A b \in ToSet(x.sending) \cup ToSet(x.queue) : contents'[b] = contents[b]
        BY DEF Live, LiveOf
      <3>2. /\ \A k \in DOMAIN x.sending : contents'[x.sending[k]] = contents[x.sending[k]]
            /\ \A k \in DOMAIN x.queue : contents'[x.queue[k]] = contents[x.queue[k]]
        BY <1>2, <3>1, SequenceFacts
      <3> HIDE DEF x
      <3> QED BY <1>1, <2>1, <3>1, <3>2 DEF Flow, FlowLive, Ordered
    <2> QED BY <2>2, <2>3, <2>4, <2>5 DEF Flow
  <1> QED BY <1>3, <1>4 DEF ClientRight

\* The log is left alone, but for being opened or closed.
LEMMA LogKept ==
    ASSUME Types, LogRight, UNCHANGED <<file, read>>, \A b \in Live : contents'[b] = contents[b],
           log'.sending = log.sending, log'.queue = log.queue, log'.writes = log.writes,
           log'.continuing = log.continuing, log'.refs = log.refs, log'.error = log.error,
           log'.raced = log.raced
    PROVE  LogRight'
  <1>1. log.sending \in Sequence /\ log.queue \in Sequence BY DEF Types, LogType
  <1>2. /\ \A k \in DOMAIN log.sending : contents'[log.sending[k]] = contents[log.sending[k]]
        /\ \A k \in DOMAIN log.queue : contents'[log.queue[k]] = contents[log.queue[k]]
    BY <1>1, SequenceFacts DEF Live, LiveOf
  <1>3. LogState' BY DEF LogRight, LogState
  <1>4. ~log.raced => LogFile' BY DEF LogRight, LogFile
  <1>5. ~log.raced => LogWrites' BY DEF LogRight, LogWrites
  <1>6. ~log.raced => LogFlow'
    <2>1. UNCHANGED <<file, read>> /\ log'.sending = log.sending /\ log'.queue = log.queue
          /\ log'.error = log.error
      OBVIOUS
    <2>2. ASSUME ~log.raced, ~log.error
          PROVE  /\ Len(file) + Len(log.sending) + Len(log.queue) = read
                 /\ \A k \in DOMAIN log.sending : contents[log.sending[k]] = Len(file) + k
                 /\ \A k \in DOMAIN log.queue :
                       contents[log.queue[k]] = Len(file) + Len(log.sending) + k
      BY <2>2 DEF LogRight, LogFlow
    <2>3. ASSUME ~log.raced, ~log.error
          PROVE  /\ Len(file') + Len(log'.sending) + Len(log'.queue) = read'
                 /\ \A k \in DOMAIN log'.sending : contents'[log'.sending[k]] = Len(file') + k
                 /\ \A k \in DOMAIN log'.queue :
                       contents'[log'.queue[k]] = Len(file') + Len(log'.sending) + k
      <3> DEFINE s == log.sending
                 q == log.queue
                 n == Len(file)
                 m == Len(log.sending)
      <3>1. /\ n + m + Len(q) = read
            /\ \A k \in DOMAIN s : contents[s[k]] = n + k
            /\ \A k \in DOMAIN q : contents[q[k]] = n + m + k
        BY <2>2, <2>3
      <3>2. /\ \A k \in DOMAIN s : contents'[s[k]] = contents[s[k]]
            /\ \A k \in DOMAIN q : contents'[q[k]] = contents[q[k]]
        BY <1>2
      <3>3. /\ log'.sending = s /\ log'.queue = q
            /\ Len(file') = n /\ Len(log'.sending) = m /\ read' = read
        BY <2>1
      <3> HIDE DEF s, q, n, m
      <3> QED BY <3>1, <3>2, <3>3
    <2> QED BY <2>1, <2>3 DEF LogFlow
  <1> QED BY <1>3, <1>4, <1>5, <1>6 DEF LogRight

\* A step of one client that neither reads nor gets a buffer.
LEMMA ClientStep ==
    ASSUME IInv, NEW c \in Clients, NEW y \in ClientType, Update(c, y), UNCHANGED contents,
           y.fileBuffer = client[c].fileBuffer,
           ToSet(y.sending) \cup ToSet(y.queue) \subseteq ToSet(client[c].sending) \cup ToSet(client[c].queue),
           Place(y), Unharmed(y) => Flow(y)
    PROVE  IInv'
  <1>1. /\ client' = [client EXCEPT ![c] = y]
        /\ UNCHANGED <<total, child, ongoing, pipe, read, current, log, file, handled>>
    BY DEF Update, process
  <1>2. client'[c] = y /\ \A d \in Clients \ {c} : client'[d] = client[d]
    BY <1>1 DEF IInv, Types
  <1>3. Types' BY <1>1 DEF IInv, Types
  <1>4. Live' \subseteq Live BY <1>1, <1>2 DEF Live, LiveOf
  <1>5. BuffersRight' BY <1>1, <1>2, <1>4, BuffersKept DEF IInv
  <1>6. LogRight' /\ HandledRight' BY <1>1, LogKept DEF IInv, HandledRight
  <1>7. read \in Nat /\ Len(file) \in Nat BY DEF IInv, Types
  <1>8. ASSUME NEW d \in Clients PROVE ClientRight(d)'
    <2>1. CASE d # c
      BY <1>1, <1>2, <1>7, <2>1, ClientKept DEF IInv
    <2>2. CASE d = c
      <3>1. Place(client[d])' BY <1>1, <1>2, <2>2 DEF Place
      <3>2. Unharmed(client[d])' => Flow(client[d])'
        BY <1>1, <1>2, <2>2
        DEF Unharmed, Flow, FlowFile, FlowGot, FlowWrite, FlowLive, Ordered
      <3> QED BY <3>1, <3>2 DEF ClientRight
    <2> QED BY <2>1, <2>2
  <1> QED BY <1>3, <1>5, <1>6, <1>8 DEF IInv

-------------------------------------------------------------------------------
(* The web clients                                                         *)

LEMMA ClientTyped ==
    ASSUME IInv, NEW c \in Clients
    PROVE  /\ client[c] \in ClientType /\ Place(client[c])
           /\ Unharmed(client[c]) => Flow(client[c])
  BY DEF IInv, Types, ClientRight

\* Only the place of the client changes, or it is told that it is over.
LEMMA PlaceStep ==
    ASSUME IInv, NEW c \in Clients,
           NEW place \in {"header", "streamed", "gone"}, place = "streamed" => client[c].at # "absent",
           client[c].at = "absent" => place = "header",
           place \in {"header", "gone"} => client[c].at \in {"absent", "header"},
           Update(c, [client[c] EXCEPT !.at = place]), UNCHANGED contents
    PROVE  IInv'
  <1> DEFINE x == client[c]
             y == [client[c] EXCEPT !.at = place]
  <1>1. x \in ClientType /\ Place(x) /\ (Unharmed(x) => Flow(x)) BY ClientTyped
  <1>2. /\ y \in ClientType /\ y.at = place
        /\ y.left = x.left /\ y.position = x.position /\ y.fromFile = x.fromFile
        /\ y.fileBuffer = x.fileBuffer /\ y.sending = x.sending /\ y.refs = x.refs
        /\ y.writes = x.writes /\ y.continuing = x.continuing /\ y.queue = x.queue
        /\ y.error = x.error /\ y.got = x.got /\ y.raced = x.raced
    BY <1>1 DEF ClientType
  <1> HIDE DEF y
  <1>3. Place(y) BY <1>1, <1>2 DEF Place
  <1>4. Unharmed(y) => Flow(y)
    BY <1>1, <1>2 DEF Unharmed, Flow, FlowFile, FlowGot, FlowWrite, FlowLive
  <1>5. Update(c, y) BY DEF y
  <1> QED BY <1>2, <1>3, <1>4, <1>5, ClientStep

LEMMA RequestIInv == ASSUME IInv, NEW c \in Clients, Request(c) PROVE IInv'
  BY PlaceStep DEF Request

LEMMA HeaderFailsIInv == ASSUME IInv, NEW c \in Clients, HeaderFails(c) PROVE IInv'
  BY PlaceStep DEF HeaderFails

LEMMA FileReadFailsIInv == ASSUME IInv, NEW c \in Clients, FileReadFails(c) PROVE IInv'
  BY PlaceStep DEF FileReadFails

LEMMA FileWrittenIInv == ASSUME IInv, NEW c \in Clients, FileWritten(c) PROVE IInv'
  <1> DEFINE x == client[c]
             z == IF x.left = 0 THEN x
                  ELSE [x EXCEPT !.left = @ - 1, !.position = @ + 1,
                                 !.got = Append(@, contents[x.fileBuffer])]
             y == IF x.left > 1 THEN [z EXCEPT !.at = "reading"]
                  ELSE [z EXCEPT !.at = "streamed", !.ends = IF Exited THEN @ + 1 ELSE @]
  <1>1. x \in ClientType /\ Place(x) /\ (Unharmed(x) => Flow(x)) BY ClientTyped
  <1>2. x.at = "writing" /\ Update(c, y) /\ UNCHANGED contents BY DEF FileWritten
  <1>3. x.fileBuffer \in Buffers /\ contents[x.fileBuffer] \in Nat
    BY <1>1, <1>2 DEF Place, IInv, Types
  <1>4. x.left \in Nat /\ x.position \in Nat /\ x.got \in Seq(Nat) /\ x.fromFile \in Nat
    BY <1>1 DEF ClientType
  <1> DEFINE v == contents[x.fileBuffer]
  <1> HIDE DEF x, v
  <1>5. z \in ClientType
    <2>1. CASE x.left = 0 BY <1>1, <2>1
    <2>2. CASE x.left # 0
      <3>1. x.left - 1 \in Nat /\ x.position + 1 \in Nat /\ Append(x.got, v) \in Seq(Nat)
        BY <1>3, <1>4, <2>2 DEF v
      <3>2. [x EXCEPT !.left = x.left - 1, !.position = x.position + 1, !.got = Append(x.got, v)]
            \in ClientType
        BY <1>1, <3>1 DEF ClientType
      <3> QED BY <2>2, <3>2 DEF v
    <2> QED BY <2>1, <2>2
  <1>6. /\ z.fromFile = x.fromFile
        /\ z.fileBuffer = x.fileBuffer /\ z.sending = x.sending /\ z.refs = x.refs
        /\ z.writes = x.writes /\ z.continuing = x.continuing /\ z.queue = x.queue
        /\ z.error = x.error /\ z.raced = x.raced
        /\ IF x.left = 0 THEN z.left = 0 /\ z.position = x.position /\ z.got = x.got
           ELSE /\ z.left = x.left - 1 /\ z.position = x.position + 1
                /\ z.got = Append(x.got, contents[x.fileBuffer])
    BY <1>1 DEF ClientType
  <1> HIDE DEF z
  <1>7. /\ y \in ClientType /\ y.at \in {"reading", "streamed"}
        /\ y.left = z.left /\ y.position = z.position /\ y.fromFile = z.fromFile
        /\ y.fileBuffer = z.fileBuffer /\ y.sending = z.sending /\ y.refs = z.refs
        /\ y.writes = z.writes /\ y.continuing = z.continuing /\ y.queue = z.queue
        /\ y.error = z.error /\ y.got = z.got /\ y.raced = z.raced
    <2>1. CASE x.left > 1 BY <1>5, <2>1 DEF ClientType
    <2>2. CASE ~(x.left > 1)
      <3> DEFINE e == IF Exited THEN z.ends + 1 ELSE z.ends
      <3>1. e \in Nat BY <1>5 DEF ClientType
      <3>2. y = [z EXCEPT !.at = "streamed", !.ends = e] BY <2>2
      <3> HIDE DEF e, y
      <3> QED BY <1>5, <3>1, <3>2 DEF ClientType
    <2> QED BY <2>1, <2>2
  <1> HIDE DEF y
  <1>8. Place(y) BY <1>1, <1>3, <1>4, <1>6, <1>7 DEF Place
  <1>9. ASSUME Unharmed(y) PROVE Flow(y)
    <2>1. Flow(x) BY <1>1, <1>6, <1>7, <1>9 DEF Unharmed
    <2>2. CASE x.left = 0
      BY <1>6, <1>7, <2>1, <2>2 DEF Flow, FlowFile, FlowGot, FlowWrite, FlowLive
    <2>3. CASE x.left # 0
      <3>1. x.left > 0 BY <1>4, <2>3
      <3>2. /\ Len(x.got) = x.position /\ x.sending = <<>> /\ x.writes = <<>> /\ x.continuing = 0
            /\ contents[x.fileBuffer] = x.position + 1
        BY <1>2, <2>1, <3>1 DEF Flow, FlowFile
      <3>3. /\ y.got \in Seq(Nat) /\ Len(y.got) = x.position + 1 /\ y.got[x.position + 1] = x.position + 1
            /\ \A k \in 1 .. x.position : y.got[k] = x.got[k] /\ x.got[k] = k
        <4>1. \A k \in 1 .. x.position : x.got[k] = k BY <2>1 DEF Flow, FlowFile
        <4>2. y.got = Append(x.got, x.position + 1) /\ x.position + 1 \in Nat
          BY <1>4, <1>6, <1>7, <2>3, <3>2
        <4> QED BY <1>4, <3>2, <4>1, <4>2
      <3>4. \A k \in 1 .. x.position + 1 : y.got[k] = k
        <4>1. \A k \in 1 .. x.position + 1 : k = x.position + 1 \/ k \in 1 .. x.position BY <1>4
        <4> QED BY <3>3, <4>1
      <3>5. /\ y.left + y.position = y.fromFile /\ y.fromFile <= Len(file)
            /\ y.position = x.position + 1 /\ x.position + 1 <= y.fromFile
        BY <1>4, <1>6, <1>7, <2>1, <2>3 DEF Flow, FlowFile
      <3>6. FlowFile(y) BY <1>4, <1>6, <1>7, <2>3, <3>2, <3>3, <3>4, <3>5 DEF FlowFile
      <3>7. Len(file) <= read /\ Len(file) \in Nat /\ read \in Nat
        BY <1>9 DEF IInv, Types, LogRight, LogFile, Unharmed
      <3>8. FlowGot(y)
        <4>1. DOMAIN y.got = 1 .. x.position + 1 BY <3>3
        <4>2. x.position + 1 <= read BY <1>4, <1>6, <1>7, <3>5, <3>7
        <4> QED BY <1>4, <3>4, <3>7, <4>1, <4>2 DEF FlowGot
      <3>9. FlowWrite(y) BY <1>6, <1>7, <3>2 DEF FlowWrite
      <3>10. FlowLive(y)
        <4>1. y.sending = x.sending /\ y.queue = x.queue /\ y.fromFile = x.fromFile
          BY <1>6, <1>7
        <4>2. ASSUME NEW b \in ToSet(y.sending) \cup ToSet(y.queue)
              PROVE  y.fromFile < contents[b] /\ \A k \in DOMAIN y.got : y.got[k] < contents[b]
          <5>1. y.fromFile < contents[b] BY <2>1, <4>1, <4>2 DEF Flow, FlowLive
          <5>2. contents[b] \in Nat
            <6>1. b \in Buffers BY <4>1, <4>2, LiveTypes DEF Live, LiveOf, IInv, x
            <6> QED BY <6>1 DEF IInv, Types
          <5>3. \A k \in DOMAIN y.got : y.got[k] = k /\ k <= x.position + 1 /\ k \in Nat
            BY <1>4, <3>3, <3>4
          <5> QED BY <1>4, <3>5, <4>1, <5>1, <5>2, <5>3
        <4> QED BY <2>1, <4>1, <4>2 DEF Flow, FlowLive
      <3> QED BY <3>6, <3>8, <3>9, <3>10 DEF Flow
    <2> QED BY <2>2, <2>3
  <1>10. ToSet(y.sending) \cup ToSet(y.queue) = ToSet(x.sending) \cup ToSet(x.queue)
         /\ y.fileBuffer = x.fileBuffer
    BY <1>6, <1>7
  <1> QED BY <1>2, <1>7, <1>8, <1>9, <1>10, ClientStep DEF x

LEMMA Harmless ==
    ASSUME NEW x \in ClientType
    PROVE  /\ Forgotten(x) \in ClientType /\ Forgotten(x).error
           /\ Forgotten(x).sending = <<>> /\ Forgotten(x).queue = <<>>
           /\ Forgotten(x).fileBuffer = x.fileBuffer /\ Forgotten(x).at = x.at
           /\ Forgotten(x).left = x.left /\ Forgotten(x).position = x.position
           /\ Forgotten(x).fromFile = x.fromFile /\ Forgotten(x).got = x.got
           /\ Forgotten(x).continuing = x.continuing /\ Forgotten(x).writes = x.writes
  <1>1. <<>> \in Sequence BY DEF Sequence
  <1>2. Forgotten(x) \in ClientType BY <1>1 DEF Forgotten, ClientType
  <1> QED BY <1>2 DEF Forgotten, ClientType

LEMMA FileWriteFailsIInv == ASSUME IInv, NEW c \in Clients, FileWriteFails(c) PROVE IInv'
  <1> DEFINE x == client[c]
             y == [Forgotten(x) EXCEPT !.at = "streamed", !.left = 0]
  <1>1. x \in ClientType /\ Place(x) BY ClientTyped
  <1>2. Update(c, y) /\ UNCHANGED contents BY DEF FileWriteFails
  <1> HIDE DEF x
  <1>3. /\ y \in ClientType /\ y.error /\ y.at = "streamed" /\ y.left = 0
        /\ y.sending = <<>> /\ y.queue = <<>> /\ y.fileBuffer = x.fileBuffer
        /\ y.position = x.position /\ y.fromFile = x.fromFile
    <2> DEFINE f == Forgotten(x)
    <2>1. f \in ClientType BY <1>1, Harmless
    <2> HIDE DEF f
    <2>2. y = [f EXCEPT !.at = "streamed", !.left = 0] BY DEF f
    <2>3. /\ y \in ClientType /\ y.error = f.error /\ y.at = "streamed" /\ y.left = 0
          /\ y.sending = f.sending /\ y.queue = f.queue /\ y.fileBuffer = f.fileBuffer
          /\ y.position = f.position /\ y.fromFile = f.fromFile
      BY <2>1, <2>2 DEF ClientType
    <2> QED BY <1>1, <2>3, Harmless DEF f
  <1> HIDE DEF y
  <1>4. Place(y) /\ ~Unharmed(y)
    BY <1>1, <1>3 DEF Place, Unharmed, ClientType
  <1> QED BY <1>2, <1>3, <1>4, NoneLive, ClientStep DEF x

LEMMA LiveFailsIInv == ASSUME IInv, NEW c \in Clients, LiveFails(c) PROVE IInv'
  <1> DEFINE x == client[c]
  <1>1. x \in ClientType /\ Place(x) BY ClientTyped
  <1>2. PICK k \in DOMAIN x.writes :
            Update(c, [Forgotten(x) EXCEPT !.writes = RemoveAt(@, k)]) /\ UNCHANGED contents
    BY DEF LiveFails
  <1> DEFINE y == [Forgotten(x) EXCEPT !.writes = RemoveAt(@, k)]
  <1>3. x.writes \in Seq(Sequence) /\ RemoveAt(x.writes, k) \in Seq(Sequence)
    BY <1>1, RemoveAtFacts DEF ClientType
  <1>4. /\ y \in ClientType /\ y.error /\ y.at = x.at /\ y.left = x.left
        /\ y.sending = <<>> /\ y.queue = <<>> /\ y.fileBuffer = x.fileBuffer
        /\ y.position = x.position /\ y.fromFile = x.fromFile
    <2> DEFINE f == Forgotten(x)
    <2>1. f \in ClientType /\ f.writes = x.writes BY <1>1, Harmless
    <2> HIDE DEF f
    <2>2. y = [f EXCEPT !.writes = RemoveAt(x.writes, k)] BY <2>1 DEF f
    <2>3. /\ y \in ClientType /\ y.error = f.error /\ y.at = f.at /\ y.left = f.left
          /\ y.sending = f.sending /\ y.queue = f.queue /\ y.fileBuffer = f.fileBuffer
          /\ y.position = f.position /\ y.fromFile = f.fromFile
      BY <1>3, <2>1, <2>2 DEF ClientType
    <2> QED BY <1>1, <2>3, Harmless DEF f
  <1>5. x.writes # <<>> BY <1>3
  <1>6. Update(c, y) BY <1>2
  <1> HIDE DEF y
  <1>7. Place(y) /\ ~Unharmed(y) BY <1>1, <1>4, <1>5 DEF Place, Unharmed
  <1> QED BY <1>2, <1>4, <1>6, <1>7, NoneLive, ClientStep

LEMMA LiveContinuesIInv == ASSUME IInv, NEW c \in Clients, LiveContinues(c) PROVE IInv'
  <1> DEFINE x == client[c]
             w == IF x.refs = <<>> THEN x.writes ELSE Append(x.writes, x.refs)
             y == [x EXCEPT !.continuing = x.continuing - 1, !.writes = w]
  <1>1. x \in ClientType /\ Place(x) /\ (Unharmed(x) => Flow(x)) BY ClientTyped
  <1>2. x.continuing > 0 /\ Update(c, y) /\ UNCHANGED contents BY DEF LiveContinues
  <1>3. /\ x.continuing \in Nat /\ x.refs \in Sequence /\ x.writes \in Seq(Sequence)
        /\ x.left \in Nat
    BY <1>1 DEF ClientType
  <1>4. w \in Seq(Sequence) /\ x.continuing - 1 \in Nat
    <2> HIDE DEF x
    <2> QED BY <1>2, <1>3
  <1> HIDE DEF x, w
  <1>5. /\ y \in ClientType /\ y.at = x.at
        /\ y.left = x.left /\ y.position = x.position /\ y.fromFile = x.fromFile
        /\ y.fileBuffer = x.fileBuffer /\ y.sending = x.sending /\ y.refs = x.refs
        /\ y.writes = w /\ y.continuing = x.continuing - 1 /\ y.queue = x.queue
        /\ y.error = x.error /\ y.got = x.got /\ y.raced = x.raced
    BY <1>1, <1>4 DEF ClientType
  <1> HIDE DEF y
  <1>6. Place(y) BY <1>1, <1>2, <1>3, <1>5 DEF Place
  <1>7. ASSUME Unharmed(y) PROVE Flow(y)
    <2>1. Flow(x) BY <1>1, <1>5, <1>7 DEF Unharmed
    <2>2. x.writes = <<>> /\ x.continuing = 1 /\ x.refs = x.sending
      BY <1>2, <2>1 DEF Flow, FlowWrite
    <2>3. ~(x.left > 0) BY <2>1, <2>2 DEF Flow, FlowFile
    <2>4. FlowFile(y) BY <1>5, <2>1, <2>3 DEF Flow, FlowFile
    <2>5. FlowWrite(y)
      <3>1. CASE x.refs = <<>> BY <1>5, <2>2, <3>1 DEF FlowWrite, w
      <3>2. CASE x.refs # <<>>
        <4>1. w = <<x.sending>> BY <1>3, <2>2, <3>2 DEF w
        <4> QED BY <1>5, <2>2, <3>2, <4>1 DEF FlowWrite
      <3> QED BY <3>1, <3>2
    <2>6. FlowGot(y) /\ FlowLive(y) BY <1>5, <2>1 DEF Flow, FlowGot, FlowLive
    <2> QED BY <2>4, <2>5, <2>6 DEF Flow
  <1> QED BY <1>2, <1>5, <1>6, <1>7, ClientStep DEF x

LEMMA ConcatFacts ==
    ASSUME NEW s \in Seq(Nat), NEW t \in Seq(Nat)
    PROVE  /\ s \o t \in Seq(Nat) /\ Len(s \o t) = Len(s) + Len(t)
           /\ \A k \in DOMAIN s : k \in DOMAIN (s \o t) /\ (s \o t)[k] = s[k]
           /\ \A k \in DOMAIN (s \o t) :
                \/ k \in DOMAIN s /\ (s \o t)[k] = s[k]
                \/ k - Len(s) \in DOMAIN t /\ (s \o t)[k] = t[k - Len(s)] /\ k \notin DOMAIN s
  OBVIOUS

\* What has been written is taken over by the client.
LEMMA Received ==
    ASSUME IInv, NEW c \in Clients, Flow(client[c]),
           NEW g, g = client[c].got \o Contents(client[c].sending)
    PROVE  /\ \A k \in DOMAIN g : g[k] \in 1 .. read
           /\ \A j, k \in DOMAIN g : j < k => g[j] < g[k]
           /\ \A k \in DOMAIN client[c].got : k \in DOMAIN g /\ g[k] = client[c].got[k]
           /\ \A b \in ToSet(client[c].queue) : \A k \in DOMAIN g : g[k] < contents[b]
           /\ Len(client[c].got) <= Len(g)
  <1> DEFINE x == client[c]
             v == Contents(x.sending)
  <1>1. x \in ClientType /\ read \in Nat BY DEF IInv, Types
  <1>2. x.sending \in Sequence /\ x.queue \in Sequence /\ x.got \in Seq(Nat)
    BY <1>1 DEF ClientType
  <1>3. /\ v \in Seq(Nat) /\ Len(v) = Len(x.sending)
        /\ \A k \in DOMAIN x.sending : v[k] = contents[x.sending[k]]
    BY <1>2, ContentsFacts DEF IInv
  <1>4. DOMAIN v = DOMAIN x.sending BY <1>2, <1>3 DEF Sequence
  <1>5. \A k \in DOMAIN v : v[k] = contents[x.sending[k]] /\ x.sending[k] \in ToSet(x.sending)
    BY <1>2, <1>3, <1>4, SequenceFacts
  <1>6. \A k \in DOMAIN v : v[k] \in 1 .. read
    BY <1>5 DEF IInv, BuffersRight, Live, LiveOf
  <1>7. \A j, k \in DOMAIN v : j < k => v[j] < v[k]
    BY <1>4, <1>5 DEF Flow, FlowLive, Ordered
  <1>8. \A j \in DOMAIN x.got, k \in DOMAIN v : x.got[j] < v[k]
    BY <1>5 DEF Flow, FlowLive
  <1>9. ASSUME NEW b \in ToSet(x.queue)
        PROVE  /\ \A k \in DOMAIN x.got : x.got[k] < contents[b]
               /\ \A k \in DOMAIN v : v[k] < contents[b]
    <2>1. PICK i \in DOMAIN x.queue : b = x.queue[i] BY <1>2, SequenceFacts
    <2> QED BY <1>4, <1>5, <2>1 DEF Flow, FlowLive
  <1>10. /\ \A k \in DOMAIN x.got : x.got[k] \in 1 .. read
         /\ \A j, k \in DOMAIN x.got : j < k => x.got[j] < x.got[k]
    BY DEF Flow, FlowGot
  <1>11. g = x.got \o v OBVIOUS
  <1> HIDE DEF x, v
  <1>12. /\ Len(g) = Len(x.got) + Len(v) /\ Len(x.got) \in Nat /\ Len(v) \in Nat
         /\ DOMAIN g = 1 .. Len(g) /\ DOMAIN x.got = 1 .. Len(x.got) /\ DOMAIN v = 1 .. Len(v)
         /\ \A k \in DOMAIN x.got : k \in DOMAIN g /\ g[k] = x.got[k]
         /\ \A k \in DOMAIN g :
                \/ k \in DOMAIN x.got /\ g[k] = x.got[k]
                \/ k - Len(x.got) \in DOMAIN v /\ g[k] = v[k - Len(x.got)] /\ k \notin DOMAIN x.got
    <2> DEFINE u == x.got
    <2>1. u \in Seq(Nat) /\ v \in Seq(Nat) BY <1>2, <1>3
    <2> HIDE DEF u
    <2>2. /\ u \o v \in Seq(Nat) /\ Len(u \o v) = Len(u) + Len(v)
          /\ \A k \in DOMAIN u : k \in DOMAIN (u \o v) /\ (u \o v)[k] = u[k]
          /\ \A k \in DOMAIN (u \o v) :
                \/ k \in DOMAIN u /\ (u \o v)[k] = u[k]
                \/ k - Len(u) \in DOMAIN v /\ (u \o v)[k] = v[k - Len(u)] /\ k \notin DOMAIN u
      BY <2>1, ConcatFacts
    <2>3. g = u \o v BY <1>11 DEF u
    <2>4. g \in Seq(Nat) BY <2>2, <2>3
    <2>5. /\ Len(u) \in Nat /\ Len(v) \in Nat /\ DOMAIN g = 1 .. Len(g)
          /\ DOMAIN u = 1 .. Len(u) /\ DOMAIN v = 1 .. Len(v)
      BY <2>1, <2>4
    <2> QED BY <2>2, <2>3, <2>5 DEF u
  <1>13. \A k \in DOMAIN g : g[k] \in 1 .. read BY <1>6, <1>10, <1>12
  <1>14. ASSUME NEW j \in DOMAIN g, NEW k \in DOMAIN g, j < k PROVE g[j] < g[k]
    <2>1. CASE k \in DOMAIN x.got
      <3>1. j \in DOMAIN x.got BY <1>12, <1>14, <2>1
      <3> QED BY <1>10, <1>12, <1>14, <2>1, <3>1
    <2>2. CASE k \notin DOMAIN x.got
      <3>1. k - Len(x.got) \in DOMAIN v /\ g[k] = v[k - Len(x.got)] BY <1>12, <2>2
      <3>2. CASE j \in DOMAIN x.got BY <1>8, <1>12, <3>1, <3>2
      <3>3. CASE j \notin DOMAIN x.got
        <4>1. j - Len(x.got) \in DOMAIN v /\ g[j] = v[j - Len(x.got)] BY <1>12, <3>3
        <4>2. j - Len(x.got) < k - Len(x.got) BY <1>12, <1>14
        <4> QED BY <1>7, <3>1, <4>1, <4>2
      <3> QED BY <3>2, <3>3
    <2> QED BY <2>1, <2>2
  <1>15. ASSUME NEW b \in ToSet(x.queue), NEW k \in DOMAIN g PROVE g[k] < contents[b]
    BY <1>9, <1>12
  <1>16. Len(x.got) <= Len(g) BY <1>12
  <1> QED BY <1>12, <1>13, <1>14, <1>15, <1>16 DEF x

LEMMA LiveWrittenIInv == ASSUME IInv, NEW c \in Clients, LiveWritten(c) PROVE IInv'
  <1> DEFINE x == client[c]
  <1>1. x \in ClientType /\ Place(x) /\ (Unharmed(x) => Flow(x)) BY ClientTyped
  <1>2. PICK k \in DOMAIN x.writes :
            LET z == [x EXCEPT !.writes = RemoveAt(@, k), !.sending = <<>>,
                               !.got = @ \o Contents(x.writes[k])]
            IN  /\ Update(c, IF x.queue = <<>> /\ Exited THEN [z EXCEPT !.ends = @ + 1]
                             ELSE [z EXCEPT !.sending = x.queue, !.refs = x.queue, !.queue = <<>>,
                                            !.continuing = @ + 1])
                /\ UNCHANGED contents
    BY DEF LiveWritten
  <1>3. /\ x.writes \in Seq(Sequence) /\ x.sending \in Sequence /\ x.queue \in Sequence
        /\ x.got \in Seq(Nat) /\ x.left \in Nat /\ x.position \in Nat /\ x.fromFile \in Nat
    BY <1>1 DEF ClientType
  <1> DEFINE w == RemoveAt(x.writes, k)
             g == x.got \o Contents(x.writes[k])
             z == [x EXCEPT !.writes = w, !.sending = <<>>, !.got = g]
             y == IF x.queue = <<>> /\ Exited THEN [z EXCEPT !.ends = z.ends + 1]
                  ELSE [z EXCEPT !.sending = x.queue, !.refs = x.queue, !.queue = <<>>,
                                 !.continuing = z.continuing + 1]
  <1>4. Update(c, y) /\ UNCHANGED contents BY <1>2
  <1>5. w \in Seq(Sequence) /\ g \in Seq(Nat) /\ <<>> \in Sequence /\ x.writes # <<>>
    <2>1. w \in Seq(Sequence) BY <1>3, RemoveAtFacts
    <2>2. x.writes[k] \in Sequence BY <1>3
    <2>3. Contents(x.writes[k]) \in Seq(Nat) BY <2>2, ContentsFacts DEF IInv
    <2>4. g \in Seq(Nat) BY <1>3, <2>3, ConcatFacts
    <2> QED BY <1>3, <2>1, <2>4 DEF Sequence
  <1> HIDE DEF x, w, g
  <1>6. /\ z \in ClientType /\ z.at = x.at
        /\ z.left = x.left /\ z.position = x.position /\ z.fromFile = x.fromFile
        /\ z.fileBuffer = x.fileBuffer /\ z.sending = <<>> /\ z.refs = x.refs
        /\ z.writes = w /\ z.continuing = x.continuing /\ z.queue = x.queue
        /\ z.error = x.error /\ z.got = g /\ z.raced = x.raced
    BY <1>1, <1>5 DEF ClientType
  <1> HIDE DEF z
  <1>7. /\ y \in ClientType /\ y.at = x.at
        /\ y.left = x.left /\ y.position = x.position /\ y.fromFile = x.fromFile
        /\ y.fileBuffer = x.fileBuffer /\ y.writes = w
        /\ y.error = x.error /\ y.got = g /\ y.raced = x.raced
        /\ \/ /\ y.sending = <<>> /\ y.queue = <<>> /\ y.continuing = x.continuing
           \/ /\ y.sending = x.queue /\ y.refs = x.queue /\ y.queue = <<>>
              /\ y.continuing = x.continuing + 1
    <2>1. CASE x.queue = <<>> /\ Exited
      <3> DEFINE e == z.ends + 1
      <3>1. e \in Nat BY <1>6 DEF ClientType
      <3>2. y = [z EXCEPT !.ends = e] BY <2>1
      <3> HIDE DEF e, y
      <3> QED BY <1>6, <2>1, <3>1, <3>2 DEF ClientType
    <2>2. CASE ~(x.queue = <<>> /\ Exited)
      <3> DEFINE e == z.continuing + 1
      <3>1. e \in Nat BY <1>6 DEF ClientType
      <3>2. y = [z EXCEPT !.sending = x.queue, !.refs = x.queue, !.queue = <<>>, !.continuing = e]
        BY <2>2
      <3>3. e = x.continuing + 1 BY <1>6
      <3> HIDE DEF e, y
      <3> QED BY <1>3, <1>5, <1>6, <3>1, <3>2, <3>3 DEF ClientType
    <2> QED BY <2>1, <2>2
  <1> HIDE DEF y
  <1>8. Place(y) BY <1>1, <1>5, <1>7 DEF Place
  <1>9. /\ y.fileBuffer = x.fileBuffer
        /\ ToSet(y.sending) \cup ToSet(y.queue) \subseteq ToSet(x.sending) \cup ToSet(x.queue)
    BY <1>7, NoneLive
  <1>10. ASSUME Unharmed(y) PROVE Flow(y)
    <2>1. Flow(x) BY <1>1, <1>7, <1>10 DEF Unharmed
    <2>2. x.writes = <<x.sending>> /\ x.continuing = 0
      BY <1>5, <2>1 DEF Flow, FlowWrite
    <2>3. Len(x.writes) = 1 /\ x.writes[k] = x.sending BY <2>2
    <2>4. w = <<>> BY <1>3, <2>3, RemoveAtFacts DEF w
    <2>5. g = x.got \o Contents(x.sending) BY <2>3 DEF g
    <2>6. /\ \A j \in DOMAIN g : g[j] \in 1 .. read
          /\ \A i, j \in DOMAIN g : i < j => g[i] < g[j]
          /\ \A j \in DOMAIN x.got : j \in DOMAIN g /\ g[j] = x.got[j]
          /\ \A b \in ToSet(x.queue) : \A j \in DOMAIN g : g[j] < contents[b]
          /\ Len(x.got) <= Len(g)
      BY <2>1, <2>5, Received DEF x
    <2>7. ~(x.left > 0) BY <1>5, <2>1 DEF Flow, FlowFile
    <2>8. FlowFile(y)
      <3>1. x.position <= Len(x.got) /\ \A j \in 1 .. x.position : x.got[j] = j
        BY <2>1 DEF Flow, FlowFile
      <3>2. \A j \in 1 .. x.position : j \in DOMAIN x.got BY <1>3, <3>1
      <3>3. \A j \in 1 .. x.position : g[j] = j BY <2>6, <3>1, <3>2
      <3>4. x.position <= Len(g)
        <4>1. Len(g) \in Nat /\ Len(x.got) \in Nat BY <1>3, <1>5
        <4> QED BY <1>3, <2>6, <3>1, <4>1
      <3> QED BY <1>7, <2>1, <2>7, <3>3, <3>4 DEF Flow, FlowFile
    <2>9. FlowGot(y) BY <1>7, <2>6 DEF FlowGot
    <2>10. FlowWrite(y) BY <1>7, <2>2, <2>4 DEF FlowWrite
    <2>11. FlowLive(y)
      <3>1. Ordered(x.queue) /\ \A b \in ToSet(x.queue) : x.fromFile < contents[b]
        BY <2>1 DEF Flow, FlowLive
      <3>2. Ordered(<<>>) BY DEF Ordered
      <3> QED BY <1>7, <2>6, <3>1, <3>2, NoneLive DEF FlowLive
    <2> QED BY <2>8, <2>9, <2>10, <2>11 DEF Flow
  <1> QED BY <1>4, <1>7, <1>8, <1>9, <1>10, ClientStep DEF x

-------------------------------------------------------------------------------
(* The process and the log file                                            *)

\* A step of neither a client nor the pool.
LEMMA Quiet ==
    ASSUME IInv, UNCHANGED <<total, read, contents, current, client>>,
           child' \in {"made", "running", "dead", "exited"}, pipe' \in {"none", "reading", "closed"},
           child' = "made" => child = "made" /\ pipe' = pipe,
           pipe' = "reading" => pipe = "reading",
           file' \in Seq(Nat), Len(file) <= Len(file'), log' \in LogType, log.raced => log'.raced,
           ToSet(log'.sending) \cup ToSet(log'.queue) \subseteq ToSet(log.sending) \cup ToSet(log.queue),
           LogRight', HandledRight'
    PROVE  IInv'
  <1>1. Types' BY DEF IInv, Types
  <1>2. Live' \subseteq Live BY DEF Live, LiveOf
  <1>3. BuffersRight' BY <1>2, BuffersKept DEF IInv
  <1>4. Len(file') \in Nat /\ read \in Nat BY DEF IInv, Types
  <1>5. \A c \in Clients : ClientRight(c)' BY <1>4, ClientKept DEF IInv
  <1> QED BY <1>1, <1>3, <1>5 DEF IInv

\* ... which does not write to the log either.
LEMMA Quieter ==
    ASSUME IInv, UNCHANGED <<total, read, contents, current, client, file>>,
           child' \in {"made", "running", "dead", "exited"}, pipe' \in {"none", "reading", "closed"},
           child' = "made" => child = "made" /\ pipe' = pipe,
           pipe' = "reading" => pipe = "reading",
           NEW o \in BOOLEAN, log' = [log EXCEPT !.open = o] \/ log' = log,
           HandledRight'
    PROVE  IInv'
  <1>1. log \in LogType /\ file \in Seq(Nat) BY DEF IInv, Types
  <1>2. /\ log' \in LogType
        /\ log'.sending = log.sending /\ log'.queue = log.queue /\ log'.writes = log.writes
        /\ log'.continuing = log.continuing /\ log'.refs = log.refs
        /\ log'.error = log.error /\ log'.raced = log.raced
    BY <1>1 DEF LogType
  <1>3. LogRight' BY <1>2, LogKept DEF IInv
  <1>4. Len(file) <= Len(file') BY <1>1
  <1> QED BY <1>1, <1>2, <1>3, <1>4, Quiet

LEMMA LaunchFailsIInv == ASSUME IInv, LaunchFails PROVE IInv'
  <1>1. PICK o \in BOOLEAN : log' = [log EXCEPT !.open = o] BY DEF LaunchFails
  <1>2. HandledRight' BY DEF IInv, HandledRight, LaunchFails
  <1>3. pipe \in {"none", "reading", "closed"} BY DEF IInv, Types
  <1> QED BY <1>1, <1>2, <1>3, Quieter DEF LaunchFails

LEMMA DieIInv == ASSUME IInv, Die PROVE IInv'
  <1>1. HandledRight' BY DEF IInv, HandledRight, Die
  <1>2. pipe \in {"none", "reading", "closed"} /\ TRUE \in BOOLEAN BY DEF IInv, Types
  <1> QED BY <1>1, <1>2, Quieter DEF Die

LEMMA ConcludeIInv == ASSUME IInv, Conclude PROVE IInv'
  <1>1. HandledRight' BY DEF IInv, HandledRight, Conclude
  <1>2. pipe \in {"none", "reading", "closed"} /\ TRUE \in BOOLEAN BY DEF IInv, Types
  <1> QED BY <1>1, <1>2, Quieter DEF Conclude

LEMMA DetachIInv == ASSUME IInv, Detach PROVE IInv'
  <1>1. HandledRight' BY DEF IInv, HandledRight, Detach
  <1>2. pipe \in {"none", "reading", "closed"} /\ TRUE \in BOOLEAN BY DEF IInv, Types
  <1>3. child \in {"made", "running", "dead", "exited"} BY DEF IInv, Types
  <1> QED BY <1>1, <1>2, <1>3, Quieter DEF Detach

LEMMA DestroyIInv == ASSUME IInv, Destroy PROVE IInv'
  <1>1. log \in LogType BY DEF IInv, Types
  <1>2. log'.writes = log.writes /\ log'.continuing = log.continuing
    BY <1>1 DEF Destroy, CloseLog, LogType
  <1>3. HandledRight'
    <2>1. log.continuing \in Nat BY <1>1 DEF LogType
    <2> QED BY <1>2, <2>1 DEF IInv, HandledRight, Destroy, Referenced, process
  <1>4. pipe \in {"none", "reading", "closed"} /\ FALSE \in BOOLEAN BY DEF IInv, Types
  <1>5. child \in {"made", "running", "dead", "exited"} BY DEF IInv, Types
  <1> QED BY <1>3, <1>4, <1>5, Quieter DEF Destroy, CloseLog, process

\* A step of the log file.
LEMMA LogStep ==
    ASSUME IInv, LogFrame, log.writes # <<>> \/ log.continuing # 0,
           file' \in Seq(Nat), Len(file) <= Len(file'), log' \in LogType, log.raced => log'.raced,
           ToSet(log'.sending) \cup ToSet(log'.queue) \subseteq ToSet(log.sending) \cup ToSet(log.queue),
           LogRight'
    PROVE  IInv'
  <1>1. /\ child \in {"made", "running", "dead", "exited"}
        /\ pipe \in {"none", "reading", "closed"}
    BY DEF IInv, Types
  <1>2. UNCHANGED <<total, child, ongoing, pipe, read, contents, current, client, handled>>
    BY DEF LogFrame, process
  <1>3. HandledRight' BY <1>2 DEF IInv, HandledRight
  <1> QED BY <1>1, <1>2, <1>3, Quiet

LEMMA LogTyped ==
    ASSUME IInv
    PROVE  /\ log \in LogType /\ log.sending \in Sequence /\ log.queue \in Sequence
           /\ log.refs \in Sequence /\ log.writes \in Seq(Sequence) /\ log.continuing \in Nat
           /\ file \in Seq(Nat) /\ Len(file) \in Nat /\ read \in Nat
           /\ Len(log.sending) \in Nat /\ Len(log.queue) \in Nat /\ <<>> \in Sequence
  <1>1. log \in LogType /\ file \in Seq(Nat) /\ read \in Nat BY DEF IInv, Types
  <1>2. /\ log.sending \in Sequence /\ log.queue \in Sequence
        /\ log.refs \in Sequence /\ log.writes \in Seq(Sequence) /\ log.continuing \in Nat
    BY <1>1 DEF LogType
  <1>3. Len(log.sending) \in Nat /\ Len(log.queue) \in Nat /\ <<>> \in Sequence
    BY <1>2 DEF Sequence
  <1> QED BY <1>1, <1>2, <1>3

LEMMA RememberFacts ==
    ASSUME IInv, NEW k \in DOMAIN log.writes, NEW l, l = Remember(log, k)
    PROVE  /\ l \in LogType /\ l.sending = <<>> /\ l.queue = log.queue /\ l.refs = log.refs
           /\ l.writes = RemoveAt(log.writes, k) /\ l.continuing = log.continuing
           /\ l.error = log.error /\ l.raced = log.raced /\ l.open = log.open
  <1> DEFINE w == RemoveAt(log.writes, k)
  <1>1. w \in Seq(Sequence) BY LogTyped, RemoveAtFacts
  <1>2. l = [log EXCEPT !.writes = w, !.sending = <<>>] BY LogTyped DEF Remember, LogType
  <1>3. log \in LogType /\ <<>> \in Sequence BY LogTyped
  <1> HIDE DEF w
  <1>4. /\ l \in LogType /\ l.sending = <<>> /\ l.queue = log.queue /\ l.refs = log.refs
        /\ l.writes = w /\ l.continuing = log.continuing
        /\ l.error = log.error /\ l.raced = log.raced /\ l.open = log.open
    BY <1>1, <1>2, <1>3 DEF LogType
  <1> QED BY <1>4 DEF w

LEMMA LogWrittenIInv == ASSUME IInv, LogWritten PROVE IInv'
  <1>1. PICK k \in DOMAIN log.writes :
            /\ file' = file \o Contents(log.writes[k])
            /\ log' = LET l == Remember(log, k)
                      IN  IF log.queue = <<>> /\ Exited THEN CloseLog(l)
                          ELSE [l EXCEPT !.sending = log.queue, !.refs = log.queue, !.queue = <<>>,
                                         !.continuing = @ + 1, !.raced = @ \/ log.continuing > 0]
    BY DEF LogWritten
  <1> DEFINE l == Remember(log, k)
             w == RemoveAt(log.writes, k)
             v == Contents(log.writes[k])
  <1>2. /\ log \in LogType /\ log.sending \in Sequence /\ log.queue \in Sequence
        /\ log.refs \in Sequence /\ log.writes \in Seq(Sequence) /\ log.continuing \in Nat
        /\ file \in Seq(Nat) /\ Len(file) \in Nat /\ read \in Nat
        /\ Len(log.sending) \in Nat /\ Len(log.queue) \in Nat /\ <<>> \in Sequence
    BY LogTyped
  <1>3. /\ l \in LogType /\ l.sending = <<>> /\ l.queue = log.queue /\ l.refs = log.refs
        /\ l.writes = w /\ l.continuing = log.continuing
        /\ l.error = log.error /\ l.raced = log.raced
    BY RememberFacts
  <1>4. LogFrame /\ UNCHANGED <<read, contents>> /\ log.writes # <<>>
    BY <1>2 DEF LogWritten, LogFrame, process
  <1>5. /\ v \in Seq(Nat) /\ Len(v) = Len(log.writes[k])
        /\ \A i \in DOMAIN log.writes[k] : v[i] = contents[log.writes[k][i]]
    <2>1. log.writes[k] \in Sequence BY <1>2
    <2> QED BY <2>1, ContentsFacts DEF IInv
  <1>6. file' = file \o v BY <1>1
  <1> HIDE DEF v
  <1>7. /\ file' \in Seq(Nat) /\ Len(file') = Len(file) + Len(v)
        /\ \A i \in DOMAIN file' :
                \/ i \in DOMAIN file /\ file'[i] = file[i]
                \/ i - Len(file) \in DOMAIN v /\ file'[i] = v[i - Len(file)]
    <2>1. file \in Seq(Nat) /\ v \in Seq(Nat) BY <1>2, <1>5
    <2> QED BY <1>6, <2>1, ConcatFacts
  <1>8. Len(file) <= Len(file')
    <2>1. Len(v) \in Nat BY <1>5
    <2> QED BY <1>2, <1>7, <2>1
  <1>9. /\ log' \in LogType /\ log'.error = log.error /\ log'.queue = <<>> /\ log'.writes = w
        /\ log'.sending = log.queue
        /\ \/ /\ log'.continuing = log.continuing /\ log'.raced = log.raced
              /\ log'.refs = log.refs /\ log.queue = <<>>
           \/ /\ log'.continuing = log.continuing + 1 /\ log'.refs = log.queue
              /\ log'.raced = (log.raced \/ log.continuing > 0)
    <2>1. CASE log.queue = <<>> /\ Exited
      <3>1. log' = [l EXCEPT !.open = FALSE] BY <1>1, <2>1 DEF CloseLog
      <3> HIDE DEF l, w
      <3> QED BY <1>3, <2>1, <3>1 DEF LogType
    <2>2. CASE ~(log.queue = <<>> /\ Exited)
      <3> DEFINE e == log.continuing + 1
                 r == log.raced \/ log.continuing > 0
      <3>1. log' = [l EXCEPT !.sending = log.queue, !.refs = log.queue, !.queue = <<>>,
                             !.continuing = l.continuing + 1, !.raced = l.raced \/ log.continuing > 0]
        BY <1>1, <2>2
      <3>2. e \in Nat /\ r \in BOOLEAN BY <1>2
      <3>3. log' = [l EXCEPT !.sending = log.queue, !.refs = log.queue, !.queue = <<>>,
                             !.continuing = e, !.raced = r]
        BY <1>3, <3>1
      <3> HIDE DEF l, w, e, r
      <3>4. /\ log' \in LogType /\ log'.error = l.error /\ log'.queue = <<>> /\ log'.writes = l.writes
            /\ log'.sending = log.queue
            /\ log'.continuing = e /\ log'.refs = log.queue /\ log'.raced = r
        BY <1>2, <1>3, <3>2, <3>3 DEF LogType
      <3> QED BY <1>3, <3>4 DEF e, r
    <2> QED BY <2>1, <2>2
  <1> HIDE DEF l, w
  <1>10. log.raced => log'.raced BY <1>9
  <1>11. LogState' BY <1>9 DEF IInv, LogRight, LogState
  <1>12. ASSUME ~log'.raced PROVE LogFile' /\ LogWrites' /\ LogFlow'
    <2>1. ~log.raced BY <1>10, <1>12
    <2>2. LogFile /\ LogWrites /\ LogFlow BY <2>1 DEF IInv, LogRight
    <2>3. log.writes = <<log.sending>> /\ log.sending # <<>> /\ ~log.error
      BY <1>4, <2>2 DEF LogWrites, IInv, LogRight, LogState
    <2>4. w = <<>> /\ log.writes[k] = log.sending
      <3>1. Len(log.writes) = 1 /\ log.writes[k] = log.sending BY <2>3
      <3> QED BY <1>2, <3>1, RemoveAtFacts DEF w
    <2>5. Len(v) = Len(log.sending)
      BY <1>5, <2>4
    <2>6. /\ Len(file) + Len(log.sending) + Len(log.queue) = read
          /\ \A i \in DOMAIN log.sending : contents[log.sending[i]] = Len(file) + i
          /\ \A i \in DOMAIN log.queue : contents[log.queue[i]] = Len(file) + Len(log.sending) + i
      BY <2>2, <2>3 DEF LogFlow
    <2> DEFINE a == Len(file)
               b == Len(log.sending)
               q == Len(log.queue)
    <2>7. a \in Nat /\ b \in Nat /\ q \in Nat /\ a + b + q = read /\ Len(file') = a + b
      BY <1>2, <1>7, <2>5, <2>6
    <2>8. LogFile'
      <3>1. Len(file') <= read
        <4> HIDE DEF a, b, q
        <4> QED BY <2>7
      <3>2. ASSUME NEW i \in DOMAIN file' PROVE file'[i] = i
        <4>1. CASE i \in DOMAIN file /\ file'[i] = file[i] BY <2>2, <4>1 DEF LogFile
        <4>2. CASE i - Len(file) \in DOMAIN v /\ file'[i] = v[i - Len(file)]
          <5>1. DOMAIN v = DOMAIN log.sending BY <1>2, <1>5, <2>5 DEF Sequence
          <5>2. file'[i] = Len(file) + (i - Len(file)) BY <1>5, <2>4, <2>6, <4>2, <5>1
          <5>3. i \in Nat BY <1>7
          <5> QED BY <1>2, <5>2, <5>3
        <4> QED BY <1>7, <4>1, <4>2
      <3> QED BY <1>4, <3>1, <3>2 DEF LogFile
    <2>9. LogWrites'
      <3>1. CASE /\ log'.continuing = log.continuing /\ log'.raced = log.raced
                 /\ log'.refs = log.refs /\ log.queue = <<>>
        BY <1>9, <2>2, <2>3, <2>4, <3>1 DEF LogWrites
      <3>2. CASE /\ log'.continuing = log.continuing + 1 /\ log'.refs = log.queue
                 /\ log'.raced = (log.raced \/ log.continuing > 0)
        <4>1. ~(log.continuing > 0) BY <1>12, <3>2
        <4>2. log.continuing = 0 BY <1>2, <4>1
        <4> QED BY <1>9, <2>4, <3>2, <4>2 DEF LogWrites
      <3> QED BY <1>9, <3>1, <3>2
    <2>10. LogFlow'
      <3>1. Len(file') + Len(log'.sending) + Len(log'.queue) = read'
        <4>1. Len(log'.sending) = q /\ Len(log'.queue) = 0 BY <1>9
        <4>2. a + b + q + 0 = read
          <5> HIDE DEF a, b, q
          <5> QED BY <2>7
        <4> QED BY <1>4, <2>7, <4>1, <4>2
      <3>2. \A i \in DOMAIN log'.sending : contents'[log'.sending[i]] = Len(file') + i
        BY <1>4, <1>9, <2>6, <2>7
      <3>3. DOMAIN log'.queue = {} BY <1>9
      <3> QED BY <3>1, <3>2, <3>3 DEF LogFlow
    <2> QED BY <2>8, <2>9, <2>10
  <1>13. LogRight' BY <1>11, <1>12 DEF LogRight
  <1>14. ToSet(log'.sending) \cup ToSet(log'.queue) \subseteq ToSet(log.sending) \cup ToSet(log.queue)
    BY <1>9, NoneLive
  <1> QED BY <1>4, <1>7, <1>8, <1>9, <1>10, <1>13, <1>14, LogStep

LEMMA LogContinuesIInv == ASSUME IInv, LogContinues PROVE IInv'
  <1> DEFINE w == IF log.refs = <<>> THEN log.writes ELSE Append(log.writes, log.refs)
             e == log.continuing - 1
  <1>1. /\ log \in LogType /\ log.continuing > 0 /\ log.continuing \in Nat
        /\ log.refs \in Sequence /\ log.writes \in Seq(Sequence)
        /\ file \in Seq(Nat) /\ Len(file) \in Nat
    BY LogTyped DEF LogContinues
  <1>2. w \in Seq(Sequence) /\ e \in Nat BY <1>1
  <1>3. log' = [log EXCEPT !.continuing = e, !.writes = w] BY DEF LogContinues
  <1>4. LogFrame /\ UNCHANGED <<read, contents, file>> BY DEF LogContinues, LogFrame, process
  <1> HIDE DEF w, e
  <1>5. /\ log' \in LogType /\ log'.sending = log.sending /\ log'.queue = log.queue
        /\ log'.refs = log.refs /\ log'.error = log.error /\ log'.raced = log.raced
        /\ log'.continuing = e /\ log'.writes = w
    BY <1>1, <1>2, <1>3 DEF LogType
  <1>6. LogState' BY <1>5 DEF IInv, LogRight, LogState
  <1>7. ASSUME ~log.raced PROVE LogFile' /\ LogWrites' /\ LogFlow'
    <2>1. LogFile /\ LogWrites /\ LogFlow BY <1>7 DEF IInv, LogRight
    <2>2. LogFile' /\ LogFlow' BY <1>4, <1>5, <2>1 DEF LogFile, LogFlow
    <2>3. log.continuing = 1 BY <1>1, <2>1 DEF LogWrites
    <2>4. e = 0 BY <2>3 DEF e
    <2>5. CASE log.refs = <<>>
      <3>1. w = log.writes BY <2>5 DEF w
      <3> QED BY <1>5, <2>1, <2>2, <2>3, <2>4, <2>5, <3>1 DEF LogWrites
    <2>6. CASE log.refs # <<>>
      <3>1. log.writes = <<>> /\ log.refs = log.sending BY <2>1, <2>3, <2>6 DEF LogWrites
      <3>2. w = <<log.sending>> BY <2>6, <3>1 DEF w
      <3> QED BY <1>5, <2>2, <2>4, <2>6, <3>1, <3>2 DEF LogWrites
    <2> QED BY <2>5, <2>6
  <1>8. LogRight' BY <1>5, <1>6, <1>7 DEF LogRight
  <1>9. Len(file) <= Len(file') BY <1>1, <1>4
  <1>10. log.continuing # 0 BY <1>1
  <1> QED BY <1>1, <1>4, <1>5, <1>8, <1>9, <1>10, LogStep

LEMMA LogFailsIInv == ASSUME IInv, LogFails PROVE IInv'
  <1>1. PICK k \in DOMAIN log.writes :
            log' = [Remember(log, k) EXCEPT !.refs = <<>>, !.queue = <<>>, !.error = TRUE]
    BY DEF LogFails
  <1> DEFINE l == Remember(log, k)
  <1>2. /\ l \in LogType /\ l.sending = <<>>
        /\ l.writes = RemoveAt(log.writes, k) /\ l.continuing = log.continuing
        /\ l.raced = log.raced
    BY RememberFacts
  <1>3. /\ log.writes \in Seq(Sequence) /\ <<>> \in Sequence /\ file \in Seq(Nat) /\ Len(file) \in Nat
        /\ log.continuing \in Nat
    BY LogTyped
  <1>4. log' = [l EXCEPT !.refs = <<>>, !.queue = <<>>, !.error = TRUE] BY <1>1
  <1> HIDE DEF l
  <1>5. /\ log' \in LogType /\ log'.sending = <<>> /\ log'.queue = <<>> /\ log'.refs = <<>>
        /\ log'.error /\ log'.writes = l.writes /\ log'.continuing = l.continuing
        /\ log'.raced = l.raced
    BY <1>2, <1>3, <1>4 DEF LogType
  <1>6. LogFrame /\ UNCHANGED <<read, contents, file>> /\ log.writes # <<>>
    BY <1>3 DEF LogFails, LogFrame, process
  <1>7. LogState' BY <1>5 DEF LogState
  <1>8. ASSUME ~log.raced PROVE LogFile' /\ LogWrites' /\ LogFlow'
    <2>1. LogFile /\ LogWrites BY <1>8 DEF IInv, LogRight
    <2>2. LogFile' /\ LogFlow' BY <1>5, <1>6, <2>1 DEF LogFile, LogFlow
    <2>3. log.writes = <<log.sending>> /\ log.continuing \in {0, 1} BY <1>6, <2>1 DEF LogWrites
    <2>4. log'.writes = <<>>
      <3>1. Len(log.writes) = 1 BY <2>3
      <3> QED BY <1>2, <1>3, <1>5, <3>1, RemoveAtFacts
    <2> QED BY <1>2, <1>5, <2>2, <2>3, <2>4 DEF LogWrites
  <1>9. LogRight' BY <1>2, <1>5, <1>7, <1>8 DEF LogRight
  <1>10. Len(file) <= Len(file') BY <1>3, <1>6
  <1> QED BY <1>2, <1>3, <1>5, <1>6, <1>9, <1>10, NoneLive, LogStep

LEMMA OverFacts ==
    ASSUME NEW x \in ClientType, NEW y, y = Over(x)
    PROVE  /\ y \in ClientType /\ y.at = x.at
           /\ y.left = x.left /\ y.position = x.position /\ y.fromFile = x.fromFile
           /\ y.fileBuffer = x.fileBuffer /\ y.sending = x.sending /\ y.refs = x.refs
           /\ y.writes = x.writes /\ y.continuing = x.continuing /\ y.queue = x.queue
           /\ y.error = x.error /\ y.got = x.got /\ y.raced = x.raced
  <1>1. CASE Registered(x) /\ x.queue = <<>>
    <2>1. y = [x EXCEPT !.ends = x.ends + 1] BY <1>1 DEF Over
    <2>2. x.ends + 1 \in Nat BY DEF ClientType
    <2> DEFINE e == x.ends + 1
    <2> HIDE DEF e
    <2>3. y = [x EXCEPT !.ends = e] /\ e \in Nat BY <2>1, <2>2 DEF e
    <2> QED BY <2>3 DEF ClientType
  <1>2. CASE ~(Registered(x) /\ x.queue = <<>>) BY <1>2 DEF Over
  <1> QED BY <1>1, <1>2

LEMMA EndOfPipeIInv == ASSUME IInv, EndOfPipe PROVE IInv'
  <1>1. log \in LogType BY DEF IInv, Types
  <1>2. /\ log' \in LogType
        /\ log'.sending = log.sending /\ log'.queue = log.queue /\ log'.writes = log.writes
        /\ log'.continuing = log.continuing /\ log'.refs = log.refs
        /\ log'.error = log.error /\ log'.raced = log.raced
    BY <1>1 DEF EndOfPipe, CloseLog, LogType
  <1>3. client' = [c \in Clients |-> Over(client[c])] BY DEF EndOfPipe
  <1>4. ASSUME NEW c \in Clients
        PROVE  /\ client'[c] \in ClientType /\ client'[c].fileBuffer = client[c].fileBuffer
               /\ client'[c].sending = client[c].sending /\ client'[c].queue = client[c].queue
    <2>1. client[c] \in ClientType /\ client'[c] = Over(client[c]) BY <1>3 DEF IInv, Types
    <2> QED BY <2>1, OverFacts
  <1>5. UNCHANGED <<total, child, read, contents, current, file, handled>> BY DEF EndOfPipe
  <1>6. Types'
    <2>1. client' \in [Clients -> ClientType]
      <3>1. \A c \in Clients : client'[c] \in ClientType BY <1>4
      <3> QED BY <1>3, <3>1
    <2> QED BY <1>2, <1>5, <2>1 DEF IInv, Types, EndOfPipe
  <1>7. Live' = Live BY <1>2, <1>4 DEF Live, LiveOf
  <1>8. BuffersRight'
    <2>1. child # "made" BY DEF EndOfPipe, IInv, BuffersRight
    <2>2. \A b \in Live : contents'[b] = contents[b] BY <1>5
    <2>3. \A c \in Clients : client'[c].fileBuffer = client[c].fileBuffer BY <1>4
    <2>4. pipe' = "closed" BY DEF EndOfPipe
    <2> QED BY <1>5, <1>7, <2>1, <2>2, <2>3, <2>4, BuffersKept DEF IInv
  <1>9. LogRight' BY <1>2, <1>5, LogKept DEF IInv
  <1>10. HandledRight' BY <1>2, <1>5 DEF IInv, HandledRight, EndOfPipe
  <1>11. ASSUME NEW c \in Clients PROVE ClientRight(c)'
    <2> DEFINE x == client[c]
               y == client'[c]
    <2>1. x \in ClientType /\ Place(x) /\ (Unharmed(x) => Flow(x)) BY ClientTyped
    <2>2. y = Over(x) BY <1>3
    <2>3. /\ y.at = x.at
          /\ y.left = x.left /\ y.position = x.position /\ y.fromFile = x.fromFile
          /\ y.fileBuffer = x.fileBuffer /\ y.sending = x.sending /\ y.refs = x.refs
          /\ y.writes = x.writes /\ y.continuing = x.continuing /\ y.queue = x.queue
          /\ y.error = x.error /\ y.got = x.got /\ y.raced = x.raced
      BY <2>1, <2>2, OverFacts
    <2>4. contents' = contents /\ file' = file /\ read' = read BY <1>5
    <2> HIDE DEF x
    <2>5. Place(client[c])' BY <2>1, <2>3, <2>4 DEF Place
    <2>6. Unharmed(client[c])' => Flow(client[c])'
      BY <1>2, <2>1, <2>3, <2>4 DEF Unharmed, Flow, FlowFile, FlowGot, FlowWrite, FlowLive, Ordered
    <2> QED BY <2>5, <2>6 DEF ClientRight
  <1> QED BY <1>6, <1>8, <1>9, <1>10, <1>11 DEF IInv

-------------------------------------------------------------------------------
(* Getting buffers                                                         *)

LEMMA HeldIs ==
    ASSUME NEW l, NEW clients
    PROVE  Held(l, clients) = {current} \cup LiveOf(l, clients) \cup {clients[c].fileBuffer : c \in Clients}
  BY DEF Held, LiveOf

LEMMA NewBufferFree ==
    ASSUME NEW l, NEW clients, \E b \in Buffers : b \notin Held(l, clients)
    PROVE  NewBuffer(l, clients) \in Buffers /\ NewBuffer(l, clients) \notin Held(l, clients)
  <1> DEFINE S == Buffers \ Held(l, clients)
  <1>1. S \in SUBSET Buffers /\ S # {} OBVIOUS
  <1>2. Smallest(S) \in S BY <1>1, SmallestExists
  <1> QED BY <1>2 DEF NewBuffer

LEMMA FileBuffersFew ==
    ASSUME Types
    PROVE  IsFiniteSet(FileBuffers) /\ Cardinality(FileBuffers) <= Cardinality(Clients)
  <1> DEFINE f == [c \in Clients |-> client[c].fileBuffer]
  <1>1. f \in [Clients -> {client[c].fileBuffer : c \in Clients}] OBVIOUS
  <1>2. {f[c] : c \in Clients} = FileBuffers BY DEF FileBuffers
  <1> HIDE DEF f
  <1>3. IsFiniteSet(Clients) BY LiveStreamingAssumption
  <1>4. /\ IsFiniteSet({f[c] : c \in Clients})
        /\ Cardinality({f[c] : c \in Clients}) <= Cardinality(Clients)
    BY <1>1, <1>3, ImageBound
  <1> QED BY <1>2, <1>4

LEMMA LaunchIInv == ASSUME IInv, Launch PROVE IInv'
  <1>1. log \in LogType /\ total \in Nat /\ MaxChunks \in Nat /\ NoBuffer \notin Buffers
    BY LiveStreamingAssumption, FS_CardinalityType DEF IInv, Types, Buffers, NoBuffer
  <1>2. /\ log' \in LogType
        /\ log'.sending = log.sending /\ log'.queue = log.queue /\ log'.writes = log.writes
        /\ log'.continuing = log.continuing /\ log'.refs = log.refs
        /\ log'.error = log.error /\ log'.raced = log.raced
    BY <1>1 DEF Launch, LogType
  <1>3. /\ child = "made" /\ child' = "running" /\ pipe' = "reading"
        /\ UNCHANGED <<total, read, contents, file, client, handled>>
        /\ current' = NewBuffer(log, client)
    BY DEF Launch
  <1>4. current = NoBuffer /\ read = 0 /\ Live = {}
    <2>1. current = NoBuffer /\ read = 0 /\ \A b \in Live : contents[b] \in 1 .. read
      BY <1>3 DEF IInv, BuffersRight
    <2>2. 1 .. 0 = {} OBVIOUS
    <2> QED BY <2>1, <2>2
  <1>5. Live' = Live BY <1>2, <1>3 DEF Live, LiveOf
  <1>6. Held(log, client) = {NoBuffer} \cup FileBuffers
    BY <1>4, HeldIs DEF Live, FileBuffers
  <1>7. current' \in Buffers /\ current' \notin FileBuffers
    <2>1. \E b \in Buffers : b \notin {} /\ b \notin FileBuffers
      <3> DEFINE v == [b \in {} |-> 0]
      <3>1. v \in [{} -> 1 .. 0] /\ 0 \in 0 .. MaxChunks BY <1>1
      <3>2. \A b, d \in {} : v[b] = v[d] => b = d OBVIOUS
      <3> HIDE DEF v
      <3>3. IsFiniteSet(FileBuffers) /\ Cardinality(FileBuffers) <= Cardinality(Clients)
        BY FileBuffersFew DEF IInv
      <3> QED BY <3>1, <3>2, <3>3, Enough
    <2>2. \E b \in Buffers : b \notin Held(log, client) BY <1>1, <1>6, <2>1
    <2> QED BY <1>3, <1>6, <2>2, NewBufferFree
  <1>8. Types' BY <1>2, <1>3, <1>7 DEF IInv, Types
  <1>9. BuffersRight'
    BY <1>3, <1>4, <1>5, <1>7 DEF IInv, BuffersRight, FileBuffers
  <1>10. LogRight' BY <1>2, <1>3, LogKept DEF IInv
  <1>11. HandledRight' BY <1>3 DEF IInv, HandledRight
  <1>12. read \in Nat /\ Len(file) \in Nat BY DEF IInv, Types
  <1>13. \A c \in Clients : ClientRight(c)' BY <1>2, <1>3, <1>12, ClientKept DEF IInv
  <1> QED BY <1>8, <1>9, <1>10, <1>11, <1>13 DEF IInv

LEMMA RegisterIInv == ASSUME IInv, NEW c \in Clients, Register(c) PROVE IInv'
  <1> DEFINE x == client[c]
             n == NewBuffer(log, client)
             y == [x EXCEPT !.at = "reading", !.left = Len(file), !.fromFile = Len(file),
                            !.fileBuffer = n]
  <1>1. x \in ClientType /\ Place(x) /\ (Unharmed(x) => Flow(x)) /\ x.at = "header"
    BY ClientTyped DEF Register
  <1>2. CASE Update(c, [x EXCEPT !.at = "streamed"]) /\ UNCHANGED contents
    BY <1>1, <1>2, PlaceStep
  <1>3. CASE Update(c, y) /\ UNCHANGED contents
    <2>1. /\ client' = [client EXCEPT ![c] = y]
          /\ UNCHANGED <<total, child, ongoing, pipe, read, contents, current, log, file, handled>>
      BY <1>3 DEF Update, process
    <2>2. client'[c] = y /\ \A d \in Clients \ {c} : client'[d] = client[d]
      BY <2>1 DEF IInv, Types
    <2>3. read \in 0 .. MaxChunks /\ MaxChunks \in Nat /\ file \in Seq(Nat) /\ Len(file) \in Nat
          /\ NoBuffer \notin Buffers
      BY LiveStreamingAssumption, FS_CardinalityType DEF IInv, Types, Buffers, NoBuffer
    <2>4. /\ x.fileBuffer = NoBuffer /\ x.fromFile = 0 /\ x.got = <<>> /\ x.continuing = 0
          /\ x.sending = <<>> /\ x.writes = <<>> /\ x.queue = <<>>
          /\ x.left = 0 /\ x.position = 0
      <3>1. x.left \in Nat /\ x.position \in Nat BY <1>1 DEF ClientType
      <3>2. x.left + x.position <= 0 BY <1>1 DEF Place
      <3> QED BY <1>1, <3>1, <3>2 DEF Place
    <2> DEFINE X == {IF d = c THEN current ELSE client[d].fileBuffer : d \in Clients}
    <2>5. \E b \in Buffers : b \notin Live /\ b \notin X
      <3> DEFINE f == [d \in Clients |-> IF d = c THEN current ELSE client[d].fileBuffer]
                 v == [b \in Live |-> contents[b]]
      <3>1. f \in [Clients -> X] /\ {f[d] : d \in Clients} = X OBVIOUS
      <3>2. v \in [Live -> 1 .. read] /\ \A b, d \in Live : v[b] = v[d] => b = d
        BY DEF IInv, BuffersRight
      <3> HIDE DEF f, v, X
      <3>3. IsFiniteSet(X) /\ Cardinality(X) <= Cardinality(Clients)
        <4>1. IsFiniteSet(Clients) BY LiveStreamingAssumption
        <4>2. /\ IsFiniteSet({f[d] : d \in Clients})
              /\ Cardinality({f[d] : d \in Clients}) <= Cardinality(Clients)
          BY <3>1, <4>1, ImageBound
        <4> QED BY <3>1, <4>2
      <3> QED BY <2>3, <3>2, <3>3, Enough
    <2>6. Held(log, client) \subseteq Live \cup X \cup {NoBuffer}
      BY <2>4, HeldIs DEF Live
    <2>7. \E b \in Buffers : b \notin Held(log, client)
      <3> HIDE DEF X
      <3> QED BY <2>3, <2>5, <2>6
    <2>8. n \in Buffers /\ n \notin Held(log, client) BY <2>7, NewBufferFree
    <2>9. /\ n \notin Live /\ n # current
          /\ \A d \in Clients : client[d].fileBuffer # n
      BY <2>8, HeldIs DEF Live
    <2> HIDE DEF x, n, X
    <2>10. /\ y \in ClientType /\ y.at = "reading" /\ y.left = Len(file) /\ y.fromFile = Len(file)
           /\ y.fileBuffer = n /\ y.position = 0 /\ y.got = <<>> /\ y.continuing = 0
           /\ y.sending = <<>> /\ y.writes = <<>> /\ y.queue = <<>>
      BY <1>1, <2>3, <2>4, <2>8 DEF ClientType
    <2> HIDE DEF y
    <2>11. Types' BY <2>1, <2>10 DEF IInv, Types
    <2>12. Live' \subseteq Live
      BY <2>1, <2>2, <2>10, NoneLive DEF Live, LiveOf
    <2>13. BuffersRight'
      <3>1. /\ child = "made" => current = NoBuffer /\ pipe = "none" /\ read = 0
            /\ pipe = "reading" => current \in Buffers /\ current \notin Live
            /\ \A b \in Live : contents[b] \in 1 .. read
            /\ \A b, d \in Live : contents[b] = contents[d] => b = d
        BY DEF IInv, BuffersRight
      <3>2. ASSUME NEW d \in Clients, client'[d].fileBuffer # NoBuffer
            PROVE  /\ client'[d].fileBuffer \notin Live' /\ client'[d].fileBuffer # current
                   /\ \A e \in Clients \ {d} : client'[e].fileBuffer # client'[d].fileBuffer
        <4>1. CASE d = c BY <2>2, <2>9, <2>10, <2>12, <4>1
        <4>2. CASE d # c
          <5>1. client'[d] = client[d] BY <2>2, <4>2
          <5>2. /\ client[d].fileBuffer \notin Live /\ client[d].fileBuffer # current
                /\ \A e \in Clients \ {d} : client[e].fileBuffer # client[d].fileBuffer
            BY <3>2, <5>1 DEF IInv, BuffersRight
          <5>3. ASSUME NEW e \in Clients \ {d} PROVE client'[e].fileBuffer # client[d].fileBuffer
            <6>1. CASE e = c BY <2>2, <2>9, <2>10, <6>1
            <6>2. CASE e # c BY <2>2, <5>2, <6>2
            <6> QED BY <6>1, <6>2
          <5> QED BY <2>12, <5>1, <5>2, <5>3
        <4> QED BY <4>1, <4>2
      <3> QED BY <2>1, <2>12, <3>1, <3>2 DEF BuffersRight
    <2>14. LogRight' /\ HandledRight' BY <2>1, LogKept DEF IInv, HandledRight
    <2>15. ASSUME NEW d \in Clients PROVE ClientRight(d)'
      <3>1. CASE d # c
        <4>1. read \in Nat BY <2>3
        <4> QED BY <2>1, <2>2, <2>3, <3>1, <4>1, ClientKept DEF IInv
      <3>2. CASE d = c
        <4>1. Place(client[d])' BY <2>1, <2>2, <2>3, <2>8, <2>10, <3>2 DEF Place
        <4>2. FlowFile(client[d])' BY <2>1, <2>2, <2>3, <2>10, <3>2 DEF FlowFile
        <4>3. FlowGot(client[d])' BY <2>1, <2>2, <2>10, <3>2 DEF FlowGot
        <4>4. FlowWrite(client[d])' BY <2>1, <2>2, <2>10, <3>2 DEF FlowWrite
        <4>5. FlowLive(client[d])'
          BY <2>1, <2>2, <2>10, <3>2, NoneLive DEF FlowLive, Ordered
        <4> QED BY <4>1, <4>2, <4>3, <4>4, <4>5 DEF ClientRight, Flow
      <3> QED BY <3>1, <3>2
    <2> QED BY <2>11, <2>13, <2>14, <2>15 DEF IInv
  <1> QED BY <1>2, <1>3 DEF Register

LEMMA FileReadIInv == ASSUME IInv, NEW c \in Clients, FileRead(c) PROVE IInv'
  <1> DEFINE x == client[c]
             y == [client[c] EXCEPT !.at = "writing"]
  <1>1. x \in ClientType /\ Place(x) /\ (Unharmed(x) => Flow(x)) /\ x.at = "reading"
    BY ClientTyped DEF FileRead
  <1>2. /\ client' = [client EXCEPT ![c] = y]
        /\ UNCHANGED <<total, child, ongoing, pipe, read, current, log, file, handled>>
    BY DEF FileRead, Update, process
  <1>3. client'[c] = y /\ \A d \in Clients \ {c} : client'[d] = client[d]
    BY <1>2 DEF IInv, Types
  <1>4. /\ y \in ClientType /\ y.at = "writing"
        /\ y.left = x.left /\ y.position = x.position /\ y.fromFile = x.fromFile
        /\ y.fileBuffer = x.fileBuffer /\ y.sending = x.sending /\ y.refs = x.refs
        /\ y.writes = x.writes /\ y.continuing = x.continuing /\ y.queue = x.queue
        /\ y.error = x.error /\ y.got = x.got /\ y.raced = x.raced
    BY <1>1 DEF ClientType
  <1>5. /\ read \in Nat /\ file \in Seq(Nat) /\ Len(file) \in Nat
        /\ contents \in [Buffers -> Nat] /\ NoBuffer \notin Buffers
    BY FS_CardinalityType, LiveStreamingAssumption DEF IInv, Types, Buffers, NoBuffer
  <1>6. x.left \in Nat /\ x.position \in Nat /\ x.fromFile \in Nat /\ x.fileBuffer \in Buffers
    BY <1>1 DEF ClientType, Place
  <1>7. contents' = IF x.left = 0 THEN contents
                    ELSE [contents EXCEPT ![x.fileBuffer] = file[x.position + 1]]
    BY DEF FileRead
  <1>8. x.left # 0 => x.position + 1 \in 1 .. Len(file)
    BY <1>1, <1>5, <1>6 DEF Place
  <1>9. /\ x.left # 0 => file[x.position + 1] \in Nat
        /\ x.left # 0 /\ ~log.raced => file[x.position + 1] = x.position + 1
    BY <1>5, <1>8 DEF IInv, LogRight, LogFile
  <1>10. /\ contents' \in [Buffers -> Nat]
         /\ \A b \in Buffers : b # x.fileBuffer => contents'[b] = contents[b]
         /\ x.left # 0 /\ ~log.raced => contents'[x.fileBuffer] = x.position + 1
    BY <1>5, <1>6, <1>7, <1>9
  <1>11. x.fileBuffer \notin Live /\ \A d \in Clients \ {c} : client[d].fileBuffer # x.fileBuffer
    BY <1>5, <1>6 DEF IInv, BuffersRight
  <1>12. \A b \in Live : contents'[b] = contents[b]
    BY <1>10, <1>11, LiveTypes DEF IInv
  <1> HIDE DEF x, y
  <1>13. Types' BY <1>2, <1>4, <1>10 DEF IInv, Types
  <1>14. Live' \subseteq Live
    <2>1. \A d \in Clients : /\ client'[d].sending = client[d].sending
                             /\ client'[d].queue = client[d].queue
      BY <1>3, <1>4 DEF x
    <2> QED BY <1>2, <2>1 DEF Live, LiveOf
  <1>15. BuffersRight'
    <2>1. \A d \in Clients : client'[d].fileBuffer = client[d].fileBuffer
      BY <1>3, <1>4 DEF x
    <2> QED BY <1>2, <1>12, <1>14, <2>1, BuffersKept DEF IInv
  <1>16. LogRight' /\ HandledRight' BY <1>2, <1>12, LogKept DEF IInv, HandledRight
  <1>17. ASSUME NEW d \in Clients PROVE ClientRight(d)'
    <2>1. CASE d # c
      <3>1. client[d].fileBuffer \in Buffers =>
                contents'[client[d].fileBuffer] = contents[client[d].fileBuffer]
        BY <1>10, <1>11, <2>1
      <3> QED BY <1>2, <1>3, <1>5, <1>12, <2>1, <3>1, ClientKept DEF IInv
    <2>2. CASE d = c
      <3>1. Place(client[d])' BY <1>1, <1>2, <1>3, <1>4, <1>6, <2>2 DEF Place
      <3>2. ASSUME Unharmed(y) PROVE Flow(client[d])'
        <4>1. Flow(x) BY <1>1, <1>4, <3>2 DEF Unharmed
        <4>2. FlowFile(client[d])'
          BY <1>2, <1>3, <1>4, <1>6, <1>10, <2>2, <3>2, <4>1 DEF Flow, FlowFile, Unharmed
        <4>3. FlowGot(client[d])' /\ FlowWrite(client[d])'
          BY <1>2, <1>3, <1>4, <2>2, <4>1 DEF Flow, FlowGot, FlowWrite
        <4>4. x.sending \in Sequence /\ x.queue \in Sequence BY <1>1 DEF ClientType
        <4>5. \A b \in ToSet(x.sending) \cup ToSet(x.queue) : contents'[b] = contents[b]
          BY <1>12 DEF Live, LiveOf, x
        <4>6. /\ \A k \in DOMAIN x.sending : contents'[x.sending[k]] = contents[x.sending[k]]
              /\ \A k \in DOMAIN x.queue : contents'[x.queue[k]] = contents[x.queue[k]]
          BY <4>4, <4>5, SequenceFacts
        <4>7. FlowLive(client[d])'
          BY <1>3, <1>4, <2>2, <4>1, <4>5, <4>6 DEF Flow, FlowLive, Ordered
        <4> QED BY <4>2, <4>3, <4>7 DEF Flow
      <3> QED BY <1>2, <1>3, <2>2, <3>1, <3>2 DEF ClientRight, Unharmed
    <2> QED BY <2>1, <2>2
  <1> QED BY <1>13, <1>15, <1>16, <1>17 DEF IInv

-------------------------------------------------------------------------------
(* Reading from the pipe                                                   *)

LEMMA LogTakesFacts ==
    ASSUME NEW l \in LogType, NEW b \in Buffers, NEW m, m = LogTakes(l, b)
    PROVE  /\ m \in LogType /\ m.error = l.error /\ m.raced = l.raced
           /\ m.continuing = l.continuing /\ m.refs = l.refs
           /\ ToSet(m.sending) \cup ToSet(m.queue) \subseteq ToSet(l.sending) \cup ToSet(l.queue) \cup {b}
           /\ \/ l.error /\ m = l
              \/ /\ ~l.error /\ l.sending = <<>>
                 /\ m.sending = <<b>> /\ m.writes = Append(l.writes, m.sending) /\ m.queue = l.queue
              \/ /\ ~l.error /\ l.sending # <<>>
                 /\ m.sending = l.sending /\ m.writes = l.writes /\ m.queue = Append(l.queue, b)
  <1>1. l.sending \in Sequence /\ l.queue \in Sequence /\ l.writes \in Seq(Sequence) BY DEF LogType
  <1>2. CASE l.error BY <1>2 DEF LogTakes
  <1>3. CASE ~l.error /\ l.sending = <<>>
    <2> DEFINE t == <<b>>
               w == Append(l.writes, t)
    <2>1. t \in Sequence /\ ToSet(t) = {b} BY DEF Sequence, ToSet
    <2>2. m = [l EXCEPT !.sending = t, !.writes = w] BY <1>3 DEF LogTakes
    <2>3. w \in Seq(Sequence)
      <3> HIDE DEF t
      <3> QED BY <1>1, <2>1
    <2> HIDE DEF t, w
    <2>4. /\ m \in LogType /\ m.error = l.error /\ m.sending = t /\ m.writes = w
          /\ m.queue = l.queue /\ m.raced = l.raced /\ m.continuing = l.continuing /\ m.refs = l.refs
      BY <2>1, <2>2, <2>3 DEF LogType
    <2> QED BY <1>3, <2>1, <2>4 DEF t, w
  <1>4. CASE ~l.error /\ l.sending # <<>>
    <2> DEFINE q == Append(l.queue, b)
    <2>1. q \in Sequence /\ ToSet(q) = ToSet(l.queue) \cup {b} BY <1>1, AppendFacts
    <2>2. m = [l EXCEPT !.queue = q] BY <1>4 DEF LogTakes
    <2> HIDE DEF q
    <2>3. /\ m \in LogType /\ m.error = l.error /\ m.sending = l.sending /\ m.writes = l.writes
          /\ m.queue = q /\ m.raced = l.raced /\ m.continuing = l.continuing /\ m.refs = l.refs
      BY <2>1, <2>2 DEF LogType
    <2> QED BY <1>4, <2>1, <2>3 DEF q
  <1> QED BY <1>2, <1>3, <1>4

LEMMA ClientTakesFacts ==
    ASSUME NEW x \in ClientType, NEW b \in Buffers, NEW y, y = ClientTakes(x, b)
    PROVE  /\ y \in ClientType /\ y.at = x.at
           /\ y.left = x.left /\ y.position = x.position /\ y.fromFile = x.fromFile
           /\ y.fileBuffer = x.fileBuffer /\ y.continuing = x.continuing
           /\ y.error = x.error /\ y.got = x.got
           /\ ToSet(y.sending) \cup ToSet(y.queue) \subseteq ToSet(x.sending) \cup ToSet(x.queue) \cup {b}
           /\ \/ y = x
              \/ /\ Registered(x) /\ x.sending = <<>> /\ x.left = 0
                 /\ y.sending = Append(x.queue, b) /\ y.writes = Append(x.writes, y.sending)
                 /\ y.queue = <<>> /\ y.raced = (x.raced \/ x.continuing > 0)
              \/ /\ Registered(x)
                 /\ y.sending = x.sending /\ y.refs = x.refs /\ y.writes = x.writes
                 /\ y.queue = Append(x.queue, b) /\ y.raced = x.raced
  <1> DEFINE all == Append(x.queue, b)
             w == Append(x.writes, all)
             r == x.raced \/ x.continuing > 0
  <1>1. x.queue \in Sequence /\ x.writes \in Seq(Sequence) BY DEF ClientType
  <1>2. all \in Sequence /\ ToSet(all) = ToSet(x.queue) \cup {b} BY <1>1, AppendFacts
  <1>3. w \in Seq(Sequence) /\ r \in BOOLEAN /\ <<>> \in Sequence
    <2> HIDE DEF all
    <2>1. w \in Seq(Sequence) BY <1>1, <1>2
    <2>2. <<>> \in Sequence BY DEF Sequence
    <2> QED BY <2>1, <2>2
  <1>4. CASE ~Registered(x) \/ x.error
    <2>1. y = x BY <1>4 DEF ClientTakes
    <2> HIDE DEF all, w, r
    <2> QED BY <2>1
  <1>5. CASE ~(~Registered(x) \/ x.error) /\ MaySend(x)
    <2>1. y = [x EXCEPT !.sending = all, !.refs = all, !.writes = w, !.queue = <<>>, !.raced = r]
      BY <1>5 DEF ClientTakes
    <2> HIDE DEF all, w, r
    <2>2. /\ y \in ClientType /\ y.at = x.at
          /\ y.left = x.left /\ y.position = x.position /\ y.fromFile = x.fromFile
          /\ y.fileBuffer = x.fileBuffer /\ y.continuing = x.continuing
          /\ y.error = x.error /\ y.got = x.got
          /\ y.sending = all /\ y.writes = w /\ y.queue = <<>> /\ y.raced = r
      <3>1. w \in Seq(Sequence) /\ r \in BOOLEAN /\ <<>> \in Sequence /\ all \in Sequence
        BY <1>2, <1>3
      <3>2. x \in ClientType OBVIOUS
      <3> HIDE DEF all, w, r, Sequence
      <3>3. y \in ClientType BY <2>1, <3>1, <3>2 DEF ClientType
      <3>4. /\ y.at = x.at /\ y.left = x.left /\ y.position = x.position
            /\ y.fromFile = x.fromFile /\ y.fileBuffer = x.fileBuffer
            /\ y.continuing = x.continuing /\ y.error = x.error /\ y.got = x.got
        BY <2>1, <3>2 DEF ClientType
      <3>5. y.sending = all /\ y.writes = w /\ y.queue = <<>> /\ y.raced = r
        BY <2>1, <3>2 DEF ClientType
      <3> QED BY <3>3, <3>4, <3>5
    <2>3. ToSet(y.sending) \cup ToSet(y.queue) \subseteq ToSet(x.sending) \cup ToSet(x.queue) \cup {b}
      BY <1>2, <2>2, NoneLive
    <2>4. Registered(x) /\ x.sending = <<>> /\ x.left = 0 BY <1>5 DEF MaySend
    <2> QED BY <2>2, <2>3, <2>4 DEF all, w, r
  <1>6. CASE ~(~Registered(x) \/ x.error) /\ ~MaySend(x)
    <2>1. y = [x EXCEPT !.queue = all] BY <1>6 DEF ClientTakes
    <2> HIDE DEF all, w, r
    <2>2. /\ y \in ClientType /\ y.at = x.at
          /\ y.left = x.left /\ y.position = x.position /\ y.fromFile = x.fromFile
          /\ y.fileBuffer = x.fileBuffer /\ y.continuing = x.continuing
          /\ y.error = x.error /\ y.got = x.got
          /\ y.sending = x.sending /\ y.refs = x.refs /\ y.writes = x.writes
          /\ y.queue = all /\ y.raced = x.raced
      BY <1>2, <2>1 DEF ClientType
    <2>3. ToSet(y.sending) \cup ToSet(y.queue) \subseteq ToSet(x.sending) \cup ToSet(x.queue) \cup {b}
      BY <1>2, <2>2
    <2> QED BY <1>6, <2>2, <2>3 DEF all
  <1> QED BY <1>4, <1>5, <1>6

\* A later chunk at the end of a sequence keeps the order.
LEMMA AppendOrdered ==
    ASSUME NEW s \in Sequence, NEW b \in Buffers, Ordered(s),
           \A d \in ToSet(s) : contents[d] < contents[b]
    PROVE  Ordered(Append(s, b))
  <1> SUFFICES ASSUME NEW j \in DOMAIN Append(s, b), NEW k \in DOMAIN Append(s, b), j < k
               PROVE  contents[Append(s, b)[j]] < contents[Append(s, b)[k]]
    BY DEF Ordered
  <1> DEFINE t == Append(s, b)
  <1>1. /\ t[Len(s) + 1] = b
        /\ \A i \in DOMAIN t : i = Len(s) + 1 \/ (i \in DOMAIN s /\ t[i] = s[i])
        /\ \A i \in DOMAIN s : s[i] \in ToSet(s)
    BY AppendFacts, SequenceFacts
  <1>2. DOMAIN s = 1 .. Len(s) /\ Len(s) \in Nat /\ DOMAIN t = 1 .. Len(s) + 1 BY DEF Sequence
  <1> HIDE DEF t
  <1>3. j \in DOMAIN s /\ t[j] = s[j] BY <1>1, <1>2 DEF t
  <1>4. CASE k = Len(s) + 1 BY <1>1, <1>3, <1>4 DEF t
  <1>5. CASE k \in DOMAIN s /\ t[k] = s[k] BY <1>3, <1>5 DEF Ordered, t
  <1> QED BY <1>1, <1>4, <1>5 DEF t

LEMMA ReadChunkIInv == ASSUME IInv, ReadChunk PROVE IInv'
  <1> DEFINE b == current
  <1>1. /\ pipe = "reading" /\ read < total /\ read' = read + 1
        /\ contents' = [contents EXCEPT ![b] = read + 1]
        /\ log' = LogTakes(log, b)
        /\ client' = [c \in Clients |-> ClientTakes(client[c], b)]
        /\ current' = NewBuffer(log', client')
        /\ UNCHANGED <<total, child, ongoing, pipe, file, handled>>
    BY DEF ReadChunk
  <1>2. b \in Buffers /\ b \notin Live BY <1>1 DEF IInv, BuffersRight
  <1>3. /\ read \in Nat /\ total \in Nat /\ MaxChunks \in Nat /\ total <= MaxChunks
        /\ file \in Seq(Nat) /\ Len(file) \in Nat /\ (~log.raced => Len(file) <= read)
        /\ contents \in [Buffers -> Nat] /\ log \in LogType /\ NoBuffer \notin Buffers
    BY LiveStreamingAssumption, FS_CardinalityType
    DEF IInv, Types, LogRight, LogFile, Buffers, NoBuffer
  <1>4. /\ contents' \in [Buffers -> Nat] /\ contents'[b] = read + 1
        /\ \A d \in Buffers : d # b => contents'[d] = contents[d]
    <2>1. read + 1 \in Nat BY <1>3
    <2> HIDE DEF b
    <2> QED BY <1>1, <1>2, <1>3, <2>1
  <1>5. /\ \A d \in Live : /\ contents'[d] = contents[d] /\ contents[d] \in 1 .. read
                           /\ d \in Buffers /\ contents'[d] < read + 1
    <2>1. \A d \in Live : d \in Buffers /\ contents[d] \in 1 .. read
      BY LiveTypes DEF IInv, BuffersRight
    <2> QED BY <1>2, <1>3, <1>4, <2>1
  <1>6. \A c \in Clients : client[c] \in ClientType /\ client'[c] = ClientTakes(client[c], b)
    BY <1>1 DEF IInv, Types
  <1>7. \A c \in Clients :
            /\ client'[c] \in ClientType /\ client'[c].fileBuffer = client[c].fileBuffer
            /\ ToSet(client'[c].sending) \cup ToSet(client'[c].queue)
               \subseteq ToSet(client[c].sending) \cup ToSet(client[c].queue) \cup {b}
    <2> TAKE c \in Clients
    <2> DEFINE x == client[c]
               y == client'[c]
    <2>1. x \in ClientType /\ y = ClientTakes(x, b) BY <1>6
    <2> HIDE DEF x, y, b
    <2>2. /\ y \in ClientType /\ y.fileBuffer = x.fileBuffer
          /\ ToSet(y.sending) \cup ToSet(y.queue) \subseteq ToSet(x.sending) \cup ToSet(x.queue) \cup {b}
      <3>1. y \in ClientType /\ y.fileBuffer = x.fileBuffer BY <1>2, <2>1, ClientTakesFacts
      <3>2. ToSet(y.sending) \cup ToSet(y.queue) \subseteq ToSet(x.sending) \cup ToSet(x.queue) \cup {b}
        BY <1>2, <2>1, ClientTakesFacts, Zenon
      <3> QED BY <3>1, <3>2
    <2> QED BY <2>2 DEF x, y, b
  <1>8. /\ log' \in LogType /\ log'.error = log.error /\ log'.raced = log.raced
        /\ log'.continuing = log.continuing /\ log'.refs = log.refs
        /\ ToSet(log'.sending) \cup ToSet(log'.queue) \subseteq ToSet(log.sending) \cup ToSet(log.queue) \cup {b}
    <2> DEFINE l == log
               m == log'
    <2>1. l \in LogType /\ m = LogTakes(l, b) BY <1>1, <1>3
    <2> HIDE DEF l, m, b
    <2>2. /\ m \in LogType /\ m.error = l.error /\ m.raced = l.raced
          /\ m.continuing = l.continuing /\ m.refs = l.refs
      BY <1>2, <2>1, LogTakesFacts
    <2>3. ToSet(m.sending) \cup ToSet(m.queue) \subseteq ToSet(l.sending) \cup ToSet(l.queue) \cup {b}
      BY <1>2, <2>1, LogTakesFacts, Zenon
    <2> QED BY <2>2, <2>3 DEF l, m, b
  <1>9. Live' \subseteq Live \cup {b} BY <1>7, <1>8 DEF Live, LiveOf
  <1>10. /\ FileBuffers' = FileBuffers
         /\ IsFiniteSet(FileBuffers) /\ Cardinality(FileBuffers) <= Cardinality(Clients)
    <2>1. FileBuffers' = FileBuffers BY <1>7 DEF FileBuffers
    <2> QED BY <2>1, FileBuffersFew DEF IInv
  <1>11. Held(log', client') = {b} \cup Live' \cup FileBuffers'
    BY HeldIs DEF Live, FileBuffers
  <1>12. current' \in Buffers /\ current' \notin Live' /\ current' # b /\ current' \notin FileBuffers
    <2> DEFINE L == Live' \cup {b}
               v == [d \in L |-> contents'[d]]
               m == read + 1
    <2>1. m \in 0 .. MaxChunks BY <1>1, <1>3
    <2>2. v \in [L -> 1 .. m]
      <3>1. \A d \in L : contents'[d] \in 1 .. m BY <1>3, <1>4, <1>5, <1>9
      <3> HIDE DEF L, m
      <3> QED BY <3>1
    <2>3. \A d, e \in L : v[d] = v[e] => d = e
      <3>1. \A d, e \in Live : contents[d] = contents[e] => d = e BY DEF IInv, BuffersRight
      <3>2. \A d \in L : d \in Live \/ d = b BY <1>9
      <3>3. \A d \in L : v[d] = contents'[d] OBVIOUS
      <3>4. \A d \in Live : contents'[d] # read + 1 BY <1>3, <1>5
      <3> HIDE DEF L, v, b
      <3> QED BY <1>4, <1>5, <3>1, <3>2, <3>3, <3>4
    <2> HIDE DEF L, v, m
    <2>4. \E d \in Buffers : d \notin L /\ d \notin FileBuffers
      BY <1>10, <2>1, <2>2, <2>3, Enough
    <2>5. \E d \in Buffers : d \notin Held(log', client') BY <1>10, <1>11, <2>4 DEF L
    <2>6. current' \in Buffers /\ current' \notin Held(log', client')
      BY <1>1, <2>5, NewBufferFree
    <2> QED BY <1>10, <1>11, <2>6
  <1>13. Types'
    <2>1. client' \in [Clients -> ClientType] BY <1>1, <1>7
    <2>2. read' \in 0 .. total BY <1>1, <1>3
    <2> QED BY <1>1, <1>4, <1>8, <1>12, <2>1, <2>2 DEF IInv, Types
  <1>14. BuffersRight'
    <2>1. child # "made" BY <1>1 DEF IInv, BuffersRight
    <2>2. \A d \in Live' : contents'[d] \in 1 .. read + 1
      BY <1>3, <1>4, <1>5, <1>9
    <2>3. \A d, e \in Live' : contents'[d] = contents'[e] => d = e
      <3>1. \A d, e \in Live : contents[d] = contents[e] => d = e BY DEF IInv, BuffersRight
      <3>2. \A d \in Live : contents'[d] # read + 1 BY <1>3, <1>5
      <3> HIDE DEF b
      <3> QED BY <1>4, <1>5, <1>9, <3>1, <3>2
    <2>4. ASSUME NEW c \in Clients, client[c].fileBuffer # NoBuffer
          PROVE  /\ client[c].fileBuffer \notin Live' /\ client[c].fileBuffer # current'
                 /\ \A d \in Clients \ {c} : client[d].fileBuffer # client[c].fileBuffer
      <3>1. /\ client[c].fileBuffer \notin Live /\ client[c].fileBuffer # b
            /\ \A d \in Clients \ {c} : client[d].fileBuffer # client[c].fileBuffer
        BY <2>4 DEF IInv, BuffersRight
      <3> QED BY <1>9, <1>12, <3>1 DEF FileBuffers
    <2> QED BY <1>1, <1>7, <1>12, <2>1, <2>2, <2>3, <2>4 DEF BuffersRight
  <1>15. LogRight'
    <2>1. log.sending \in Sequence /\ log.queue \in Sequence BY <1>3 DEF LogType
    <2>2. /\ \A k \in DOMAIN log.sending : contents'[log.sending[k]] = contents[log.sending[k]]
          /\ \A k \in DOMAIN log.queue : contents'[log.queue[k]] = contents[log.queue[k]]
      BY <1>5, <2>1, SequenceFacts DEF Live, LiveOf
    <2>3. ~log.raced => LogFile'
      <3>1. ~log.raced => Len(file) <= read + 1 BY <1>3
      <3> QED BY <1>1, <3>1 DEF IInv, LogRight, LogFile
    <2>4. /\ log.queue # <<>> => log.sending # <<>>
          /\ log.error => log.sending = <<>>
          /\ ~log.raced => LogWrites /\ LogFlow
      BY DEF IInv, LogRight, LogState
    <2>5. CASE log.error /\ log' = log
      BY <2>3, <2>4, <2>5 DEF LogRight, LogState, LogFlow, LogWrites
    <2>6. CASE /\ ~log.error /\ log.sending = <<>>
               /\ log'.sending = <<b>> /\ log'.writes = Append(log.writes, log'.sending)
               /\ log'.queue = log.queue
      <3>1. log.queue = <<>> BY <2>4, <2>6
      <3>2. LogState' BY <1>8, <2>6 DEF LogState
      <3>3. ASSUME ~log.raced PROVE LogWrites'
        <4>1. log.writes = <<>> /\ (log.continuing = 0 \/ (log.continuing = 1 /\ log.refs = <<>>))
          BY <2>4, <2>6, <3>3 DEF LogWrites
        <4>2. log'.writes = <<log'.sending>> BY <2>6, <4>1
        <4>3. log'.sending # <<>> BY <2>6
        <4> QED BY <1>8, <4>1, <4>2, <4>3 DEF LogWrites
      <3>4. ASSUME ~log.raced PROVE LogFlow'
        <4>1. Len(file) + Len(log.sending) + Len(log.queue) = read
          BY <2>4, <2>6, <3>4 DEF LogFlow
        <4>2. Len(file) = read BY <1>3, <2>6, <3>1, <4>1
        <4>3. /\ Len(file') + Len(log'.sending) + Len(log'.queue) = read'
              /\ DOMAIN log'.sending = 1 .. 1 /\ log'.sending[1] = b /\ DOMAIN log'.queue = {}
          BY <1>1, <1>3, <2>6, <3>1, <4>2
        <4>4. \A k \in DOMAIN log'.sending : contents'[log'.sending[k]] = Len(file') + k
          BY <1>1, <1>4, <4>2, <4>3
        <4> QED BY <4>3, <4>4 DEF LogFlow
      <3> QED BY <1>8, <2>3, <3>2, <3>3, <3>4 DEF LogRight
    <2>7. CASE /\ ~log.error /\ log.sending # <<>>
               /\ log'.sending = log.sending /\ log'.writes = log.writes
               /\ log'.queue = Append(log.queue, b)
      <3>1. LogState' BY <1>8, <2>4, <2>7 DEF LogState
      <3>2. ~log.raced => LogWrites' BY <1>8, <2>4, <2>7 DEF LogWrites
      <3>3. ASSUME ~log.raced PROVE LogFlow'
        <4> DEFINE p == Len(file)
                   q == Len(log.sending)
                   r == Len(log.queue)
        <4>1. p \in Nat /\ q \in Nat /\ r \in Nat BY <1>3, <2>1 DEF Sequence
        <4>2. /\ p + q + r = read
              /\ \A k \in DOMAIN log.sending : contents[log.sending[k]] = p + k
              /\ \A k \in DOMAIN log.queue : contents[log.queue[k]] = p + q + k
          BY <2>4, <2>7, <3>3 DEF LogFlow
        <4>3. Len(log'.queue) = r + 1 BY <1>2, <2>1, <2>7 DEF Sequence
        <4>4. /\ log'.queue[r + 1] = b
              /\ \A k \in DOMAIN log'.queue :
                    k = r + 1 \/ (k \in DOMAIN log.queue /\ log'.queue[k] = log.queue[k])
          <5>1. log.queue \in Sequence /\ b \in Buffers /\ log'.queue = Append(log.queue, b)
            BY <1>2, <2>1, <2>7
          <5>2. log'.queue[r + 1] = b BY <5>1, AppendFacts
          <5>3. \A k \in DOMAIN log'.queue :
                   k = r + 1 \/ (k \in DOMAIN log.queue /\ log'.queue[k] = log.queue[k])
            BY <5>1, AppendFacts
          <5> QED BY <5>2, <5>3
        <4>5. Len(file') = p /\ Len(log'.sending) = q BY <1>1, <2>7
        <4> HIDE DEF p, q, r
        <4>6. p + q + (r + 1) = read + 1 BY <4>1, <4>2
        <4>7. \A k \in DOMAIN log'.queue : contents'[log'.queue[k]] = p + q + k
          BY <1>4, <2>2, <4>2, <4>4, <4>6
        <4>8. \A k \in DOMAIN log'.sending : contents'[log'.sending[k]] = p + k
          BY <2>2, <2>7, <4>2
        <4> QED BY <1>1, <4>3, <4>5, <4>6, <4>7, <4>8 DEF LogFlow
      <3> QED BY <1>8, <2>3, <3>1, <3>2, <3>3 DEF LogRight
    <2> QED BY <1>1, <1>2, <1>3, <2>5, <2>6, <2>7, LogTakesFacts
  <1>16. HandledRight' BY <1>1 DEF IInv, HandledRight
  <1>17. ASSUME NEW c \in Clients PROVE ClientRight(c)'
    <2> DEFINE x == client[c]
               y == client'[c]
    <2>1. x \in ClientType /\ Place(x) /\ (Unharmed(x) => Flow(x)) BY ClientTyped
    <2>2. y \in ClientType /\ y = ClientTakes(x, b) BY <1>6, <1>7
    <2>3. /\ y.at = x.at
          /\ y.left = x.left /\ y.position = x.position /\ y.fromFile = x.fromFile
          /\ y.fileBuffer = x.fileBuffer /\ y.continuing = x.continuing
          /\ y.error = x.error /\ y.got = x.got
      BY <1>2, <2>1, <2>2, ClientTakesFacts
    <2>4. /\ x.sending \in Sequence /\ x.queue \in Sequence /\ x.got \in Seq(Nat)
          /\ x.fromFile \in Nat /\ x.left \in Nat
      BY <2>1 DEF ClientType
    <2>5. contents'[x.fileBuffer] = contents[x.fileBuffer] \/ x.fileBuffer \notin Buffers
      <3>1. x.fileBuffer \in Buffers => x.fileBuffer # b
        BY <1>3 DEF IInv, BuffersRight
      <3> QED BY <1>4, <3>1
    <2>6. CASE y = x
      <3>1. read <= read' /\ read' \in Nat /\ file' = file BY <1>1, <1>3
      <3> QED BY <1>3, <1>8, <1>5, <2>5, <2>6, <3>1, ClientKept DEF IInv
    <2>7. CASE Registered(x) /\ y # x
      <3>1. x.at \notin {"absent", "header", "gone"} BY <2>7 DEF Registered
      <3>2. Place(client[c])' BY <1>1, <2>1, <2>3, <3>1 DEF Place
      <3>3. ASSUME Unharmed(client[c])' PROVE Flow(client[c])'
        <4>1. ~x.error /\ ~y.raced /\ ~log.raced BY <1>8, <2>3, <3>3 DEF Unharmed
        <4>2. ~x.raced
          BY <1>2, <2>1, <2>2, <2>7, <4>1, ClientTakesFacts DEF ClientType
        <4>3. Flow(x) BY <2>1, <4>1, <4>2 DEF Unharmed
        <4>4. \A d \in ToSet(x.sending) \cup ToSet(x.queue) :
                 /\ contents'[d] = contents[d] /\ contents'[d] < contents'[b]
          BY <1>4, <1>5 DEF Live, LiveOf
        <4>5. /\ \A k \in DOMAIN x.sending : /\ x.sending[k] \in ToSet(x.sending)
                                             /\ contents'[x.sending[k]] = contents[x.sending[k]]
              /\ \A k \in DOMAIN x.queue : /\ x.queue[k] \in ToSet(x.queue)
                                           /\ contents'[x.queue[k]] = contents[x.queue[k]]
          BY <2>4, <4>4, SequenceFacts
        <4>6. /\ \A k \in DOMAIN x.got : x.got[k] \in 1 .. read
              /\ \A j, k \in DOMAIN x.got : j < k => x.got[j] < x.got[k]
          BY <4>3 DEF Flow, FlowGot
        <4>7. \A k \in DOMAIN x.got : x.got[k] \in 1 .. read' /\ x.got[k] < contents'[b]
          BY <1>1, <1>3, <1>4, <4>6
        <4>8. x.fromFile < contents'[b]
          <5>1. x.fromFile <= Len(file) BY <2>1 DEF Place
          <5> QED BY <1>3, <1>4, <2>4, <4>1, <5>1
        <4>9. FlowGot(client[c])' BY <2>3, <4>6, <4>7 DEF FlowGot
        <4>10. /\ \A j, k \in DOMAIN x.sending :
                     j < k => contents'[x.sending[j]] < contents'[x.sending[k]]
               /\ \A j, k \in DOMAIN x.queue :
                     j < k => contents'[x.queue[j]] < contents'[x.queue[k]]
               /\ \A j \in DOMAIN x.sending, k \in DOMAIN x.queue :
                     contents'[x.sending[j]] < contents'[x.queue[k]]
               /\ \A d \in ToSet(x.sending) \cup ToSet(x.queue) :
                     /\ x.fromFile < contents'[d]
                     /\ \A k \in DOMAIN x.got : x.got[k] < contents'[d]
          BY <4>3, <4>4, <4>5 DEF Flow, FlowLive, Ordered
        <4> DEFINE u == x.queue
                   all == Append(x.queue, b)
        <4>11. /\ all \in Sequence /\ all # <<>> /\ ToSet(all) = ToSet(x.queue) \cup {b}
               /\ \A k \in DOMAIN all : all[k] = b \/ (k \in DOMAIN x.queue /\ all[k] = x.queue[k])
          <5>1. u \in Sequence /\ b \in Buffers /\ all = Append(u, b) BY <1>2, <2>4
          <5> HIDE DEF all, u, x, y, b
          <5>2. all \in Sequence /\ all # <<>> BY <5>1, AppendFacts
          <5>3. ToSet(all) = ToSet(u) \cup {b} BY <5>1, AppendFacts
          <5>4. \A k \in DOMAIN all : all[k] = b \/ (k \in DOMAIN u /\ all[k] = u[k])
            BY <5>1, AppendFacts
          <5> QED BY <5>2, <5>3, <5>4 DEF u
        <4>12. \A j, k \in DOMAIN all : j < k => contents'[all[j]] < contents'[all[k]]
          <5>1. /\ all[Len(x.queue) + 1] = b
                /\ \A i \in DOMAIN all : i = Len(x.queue) + 1 \/ (i \in DOMAIN x.queue /\ all[i] = x.queue[i])
            <6>1. u \in Sequence /\ b \in Buffers /\ all = Append(u, b) BY <1>2, <2>4
            <6> HIDE DEF all, u, x, y, b
            <6>2. all[Len(u) + 1] = b BY <6>1, AppendFacts
            <6>3. \A i \in DOMAIN all : i = Len(u) + 1 \/ (i \in DOMAIN u /\ all[i] = u[i])
              BY <6>1, AppendFacts
            <6> QED BY <6>2, <6>3 DEF u
          <5>2. DOMAIN x.queue = 1 .. Len(x.queue) /\ Len(x.queue) \in Nat
                /\ DOMAIN all = 1 .. Len(x.queue) + 1
            BY <2>4 DEF Sequence
          <5> HIDE DEF all, x, y
          <5> SUFFICES ASSUME NEW j \in DOMAIN all, NEW k \in DOMAIN all, j < k
                       PROVE  contents'[all[j]] < contents'[all[k]]
            OBVIOUS
          <5>3. j \in DOMAIN x.queue /\ all[j] = x.queue[j] BY <5>1, <5>2
          <5>4. CASE k = Len(x.queue) + 1 BY <4>4, <4>5, <5>1, <5>3, <5>4
          <5>5. CASE k \in DOMAIN x.queue /\ all[k] = x.queue[k] BY <4>10, <5>3, <5>5
          <5> QED BY <5>1, <5>4, <5>5
        <4> HIDE DEF all
        <4>13. CASE /\ x.sending = <<>> /\ x.left = 0
                    /\ y.sending = all /\ y.writes = Append(x.writes, y.sending)
                    /\ y.queue = <<>> /\ y.raced = (x.raced \/ x.continuing > 0)
          <5>1. x.continuing = 0 /\ x.writes = <<>>
            <6>1. ~(x.continuing > 0) BY <4>1, <4>13
            <6> QED BY <4>3, <4>13, <6>1 DEF Flow, FlowWrite
          <5>2. y.writes = <<y.sending>> BY <4>13, <5>1
          <5>3. FlowWrite(client[c])' BY <2>3, <4>11, <4>13, <5>1, <5>2 DEF FlowWrite
          <5>4. FlowFile(client[c])' BY <1>1, <2>3, <4>3, <4>13 DEF Flow, FlowFile
          <5>5. FlowLive(client[c])'
            <6>1. \A d \in ToSet(all) : /\ x.fromFile < contents'[d]
                                        /\ \A k \in DOMAIN x.got : x.got[k] < contents'[d]
              BY <4>7, <4>8, <4>10, <4>11
            <6> QED BY <2>3, <4>12, <4>13, <6>1, NoneLive DEF FlowLive, Ordered
          <5> QED BY <4>9, <5>3, <5>4, <5>5 DEF Flow
        <4>14. CASE /\ y.sending = x.sending /\ y.refs = x.refs /\ y.writes = x.writes
                    /\ y.queue = all /\ y.raced = x.raced
          <5>1. FlowWrite(client[c])' BY <2>3, <4>3, <4>14 DEF Flow, FlowWrite
          <5>2. FlowFile(client[c])'
            <6>1. x.at = "writing" => x.fileBuffer \in Buffers BY <2>1 DEF Place
            <6> QED BY <1>1, <2>3, <2>5, <4>3, <4>14, <6>1 DEF Flow, FlowFile
          <5>3. FlowLive(client[c])'
            <6>1. \A d \in ToSet(x.sending) \cup ToSet(all) :
                     /\ x.fromFile < contents'[d]
                     /\ \A k \in DOMAIN x.got : x.got[k] < contents'[d]
              BY <4>7, <4>8, <4>10, <4>11
            <6>2. \A j \in DOMAIN x.sending, k \in DOMAIN all :
                     contents'[x.sending[j]] < contents'[all[k]]
              BY <4>4, <4>5, <4>10, <4>11
            <6> QED BY <2>3, <4>10, <4>12, <4>14, <6>1, <6>2 DEF FlowLive, Ordered
          <5> QED BY <4>9, <5>1, <5>2, <5>3 DEF Flow
        <4>15. x \in ClientType /\ b \in Buffers /\ y = ClientTakes(x, b) BY <1>2, <2>1, <2>2
        <4> HIDE DEF x, y, b
        <4>16. \/ y = x
               \/ /\ x.sending = <<>> /\ x.left = 0
                  /\ y.sending = all /\ y.writes = Append(x.writes, y.sending)
                  /\ y.queue = <<>> /\ y.raced = (x.raced \/ x.continuing > 0)
               \/ /\ y.sending = x.sending /\ y.refs = x.refs /\ y.writes = x.writes
                  /\ y.queue = all /\ y.raced = x.raced
          BY <4>15, ClientTakesFacts DEF all
        <4> QED BY <2>7, <4>13, <4>14, <4>16
      <3> QED BY <3>2, <3>3 DEF ClientRight
    <2> QED BY <1>2, <2>1, <2>2, <2>6, <2>7, ClientTakesFacts
  <1> QED BY <1>13, <1>14, <1>15, <1>16, <1>17 DEF IInv

-------------------------------------------------------------------------------
(* The theorems                                                            *)

LEMMA StutterIInv == ASSUME IInv, UNCHANGED vars PROVE IInv'
  <1>1. UNCHANGED <<total, child, ongoing, pipe, read, contents, current, log, file, client, handled>>
    BY DEF vars, process
  <1>2. Types' BY <1>1 DEF IInv, Types
  <1>3. BuffersRight' BY <1>1 DEF IInv, BuffersRight, Live
  <1>4. LogRight' /\ HandledRight' BY <1>1, LogKept DEF IInv, HandledRight
  <1>5. read \in Nat /\ Len(file) \in Nat BY DEF IInv, Types
  <1>6. \A c \in Clients : ClientRight(c)' BY <1>1, <1>5, ClientKept DEF IInv
  <1> QED BY <1>2, <1>3, <1>4, <1>6 DEF IInv

LEMMA NextIInv == IInv /\ [Next]_vars => IInv'
  <1> SUFFICES ASSUME IInv, [Next]_vars PROVE IInv' OBVIOUS
  <1>1. CASE Launch BY <1>1, LaunchIInv
  <1>2. CASE LaunchFails BY <1>2, LaunchFailsIInv
  <1>3. CASE ReadChunk BY <1>3, ReadChunkIInv
  <1>4. CASE DrainedPipe \/ BrokenPipe BY <1>4, EndOfPipeIInv DEF DrainedPipe, BrokenPipe
  <1>5. CASE Die BY <1>5, DieIInv
  <1>6. CASE Conclude BY <1>6, ConcludeIInv
  <1>7. CASE LogWritten BY <1>7, LogWrittenIInv
  <1>8. CASE LogContinues BY <1>8, LogContinuesIInv
  <1>9. CASE LogFails BY <1>9, LogFailsIInv
  <1>10. ASSUME NEW c \in Clients,
                \/ Request(c) \/ HeaderFails(c) \/ Register(c)
                \/ FileRead(c) \/ FileReadFails(c) \/ FileWritten(c) \/ FileWriteFails(c)
                \/ LiveWritten(c) \/ LiveContinues(c) \/ LiveFails(c)
         PROVE  IInv'
    BY <1>10, RequestIInv, HeaderFailsIInv, RegisterIInv, FileReadIInv, FileReadFailsIInv,
       FileWrittenIInv, FileWriteFailsIInv, LiveWrittenIInv, LiveContinuesIInv, LiveFailsIInv
  <1>11. CASE Destroy BY <1>11, DestroyIInv
  <1>12. CASE Detach BY <1>12, DetachIInv
  <1>13. CASE UNCHANGED vars BY <1>13, StutterIInv
  <1> QED
    BY <1>1, <1>2, <1>3, <1>4, <1>5, <1>6, <1>7, <1>8, <1>9, <1>10, <1>11, <1>12, <1>13
    DEF Next, Step

\* The log is what the process has printed, and if something is missing in the end
\* an error has been noticed, however many clients share the pool
\* (writeDataFromPipe, writeNextBufferToLogFile, newBuffer).
THEOREM LogIsFaithful == Spec => []LogFaithful
  <1>1. Spec => []IInv BY InitIInv, NextIInv, PTL DEF Spec
  <1>2. IInv => LogFaithful BY Implied
  <1> QED BY <1>1, <1>2, PTL

\* Each client gets the file and then the later output in order, each part at most
\* once, whatever the other clients of the pool do (writeFileData,
\* writeCurrentBuffer, writeNextBufferToWebSession).
THEOREM ClientsGetFileThenLive == Spec => []FileThenLive
  <1>1. Spec => []IInv BY InitIInv, NextIInv, PTL DEF Spec
  <1>2. IInv => FileThenLive BY Implied
  <1> QED BY <1>1, <1>2, PTL

================================================================================
