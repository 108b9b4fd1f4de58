--------------------------- MODULE DcpTimeProofs ----------------------------
(* The fields of the time client show the server's answers to their own      *)
(* questions, for any number of faults, late answers and messages.           *)
EXTENDS DcpTime, FiniteSetTheorems, SequenceTheorems, TLAPS

-----------------------------------------------------------------------------
(* The invariant                                                             *)

Question(k) == Command("get", k, <<>>)
ClientCommands == {Question(k) : k \in KindSet} \cup {Command("set", "mode", <<m>>) : m \in Modes}

AnswerWords == {"ACK", "FIN"} \cup KindSet \cup Modes

Requests == [snr : Nat \ {0}, cmd : ClientCommands, late : BOOLEAN]
Answers == [snr : Nat \ {0}, isReply : {TRUE}, parses : {TRUE}, errorCode : Nat,
            word : AnswerWords, late : BOOLEAN]

TimeTypes ==
    /\ timeMode \in Modes
    /\ toServer \in Seq(Requests)
    /\ toClient \in Seq(Answers)
    /\ msgId \in [KindSet -> Nat]

\* What may be put into a field.
RightWord(k, word) == word = "foreign" \/ IF k = "mode" THEN word \in Modes ELSE word = k

\* A request under a number the client waits for is the last one for that field.
Asked ==
    \A i \in DOMAIN toServer, k \in KindSet :
        toServer[i].snr = msgId[k] => ~toServer[i].late /\ toServer[i].cmd = Question(k)

\* An answer under such a number answers it.
Answered ==
    \A i \in DOMAIN toClient, k \in KindSet :
        toClient[i].snr = msgId[k] =>
            /\ ~toClient[i].late
            /\ Usable(toClient[i]) => RightWord(k, toClient[i].word)

ShownRight ==
    /\ shown \in [KindSet -> {"none", "foreign"} \cup KindSet \cup Modes]
    /\ FieldsShowTheirAnswers

TimeInv == TimeTypes /\ Asked /\ Answered /\ ShownRight

-----------------------------------------------------------------------------
(* Numbers                                                                   *)

LEMMA SnrsAreFinite ==
    ASSUME NEW channel, NEW S, channel \in Seq(S)
    PROVE  IsFiniteSet({channel[i].snr : i \in DOMAIN channel})
<1> DEFINE T == {channel[i].snr : i \in DOMAIN channel}
           f == [i \in 1 .. Len(channel) |-> channel[i].snr]
<1>1. DOMAIN channel = 1 .. Len(channel) /\ Len(channel) \in Nat
    OBVIOUS
<1>2. f \in [1 .. Len(channel) -> T] /\ \A t \in T : \E i \in 1 .. Len(channel) : f[i] = t
    BY <1>1
<1>3. f \in Surjection(1 .. Len(channel), T)
    <2> HIDE DEF f, T
    <2> QED BY <1>2 DEF Surjection
<1>4. IsFiniteSet(1 .. Len(channel))
    BY <1>1, FS_Interval
<1>5. QED
    <2> HIDE DEF f, T
    <2>1. IsFiniteSet(T)
        BY <1>3, <1>4, FS_Surjection, Zenon
    <2>2. QED BY <2>1 DEF T

LEMMA UsedIsFinite == TimeTypes => IsFiniteSet(Used)
<1> SUFFICES ASSUME TimeTypes PROVE IsFiniteSet(Used)
    OBVIOUS
<1>1. IsFiniteSet({toServer[i].snr : i \in DOMAIN toServer})
    BY SnrsAreFinite DEF TimeTypes
<1>2. IsFiniteSet({toClient[i].snr : i \in DOMAIN toClient})
    BY SnrsAreFinite DEF TimeTypes
<1>3. IsFiniteSet({msgId[k] : k \in KindSet})
    <2> DEFINE f == [n \in 1 .. 4 |-> msgId[Kinds[n]]]
               T == {msgId[k] : k \in KindSet}
    <2>a. \A n \in 1 .. 4 : Kinds[n] \in KindSet
        BY DEF Kinds, KindSet
    <2>b. \A k \in KindSet : \E n \in 1 .. 4 : Kinds[n] = k
        <3>1. Kinds[1] = "date" /\ Kinds[2] = "time" /\ Kinds[3] = "julian" /\ Kinds[4] = "mode"
            BY DEF Kinds
        <3>2. QED BY <3>1 DEF KindSet
    <2>1. f \in [1 .. 4 -> T] /\ \A t \in T : \E n \in 1 .. 4 : f[n] = t
        <3>1. \A n \in 1 .. 4 : f[n] = msgId[Kinds[n]] /\ f[n] \in T
            BY <2>a
        <3>2. ASSUME NEW t \in T PROVE \E n \in 1 .. 4 : f[n] = t
            <4>1. PICK k \in KindSet : t = msgId[k]
                OBVIOUS
            <4>2. PICK n \in 1 .. 4 : Kinds[n] = k
                BY <2>b
            <4>3. f[n] = t
                BY <4>1, <4>2
            <4>4. QED BY <4>3, Zenon
        <3>3. f \in [1 .. 4 -> T]
            BY <3>1
        <3>4. QED BY <3>2, <3>3
    <2>2. f \in Surjection(1 .. 4, T)
        <3> HIDE DEF f, T
        <3> QED BY <2>1 DEF Surjection
    <2>3. IsFiniteSet(1 .. 4)
        <3>1. 1 \in Int /\ 4 \in Int
            OBVIOUS
        <3>2. QED BY <3>1, FS_Interval, Zenon
    <2> HIDE DEF f, T
    <2>4. IsFiniteSet(T)
        BY <2>2, <2>3, FS_Surjection, Zenon
    <2>5. QED BY <2>4 DEF T
<1>4. IsFiniteSet({toServer[i].snr : i \in DOMAIN toServer} \cup {toClient[i].snr : i \in DOMAIN toClient})
    BY <1>1, <1>2, FS_Union, Zenon
<1>5. QED BY <1>3, <1>4, FS_Union, Zenon DEF Used

(* There are always as many unused numbers as are needed.                    *)
LEMMA FreshOnes ==
    ASSUME TimeTypes, NEW n \in Nat
    PROVE  /\ FreshSnrs(n) \in [1 .. n -> Nat \ {0}]
           /\ \A i, j \in 1 .. n : FreshSnrs(n)[i] = FreshSnrs(n)[j] => i = j
           /\ \A i \in 1 .. n : FreshSnrs(n)[i] \notin Used
<1> DEFINE numbers == 1 .. Cardinality(Used) + n
           free == numbers \ Used
<1>1. IsFiniteSet(Used) /\ Cardinality(Used) \in Nat
    BY UsedIsFinite, FS_CardinalityType
<1>2. IsFiniteSet(numbers) /\ Cardinality(numbers) = Cardinality(Used) + n
    <2> DEFINE last == Cardinality(Used) + n
    <2>1. last \in Nat
        BY <1>1
    <2>2. IsFiniteSet(1 .. last) /\ Cardinality(1 .. last) = IF 1 > last THEN 0 ELSE last - 1 + 1
        <3> HIDE DEF last
        <3> QED BY <2>1, FS_Interval
    <2>3. Cardinality(1 .. last) = last
        <3> HIDE DEF last
        <3> QED BY <2>1, <2>2
    <2>4. QED BY <2>2, <2>3
<1>3. IsFiniteSet(free) /\ Cardinality(free) \in Nat /\ Cardinality(free) >= n
    <2> HIDE DEF numbers
    <2>1. IsFiniteSet(free)
        BY <1>2, FS_Subset
    <2>2. numbers \subseteq free \cup Used
        OBVIOUS
    <2>3. /\ IsFiniteSet(free \cup Used)
          /\ Cardinality(free \cup Used)
               = Cardinality(free) + Cardinality(Used) - Cardinality(free \cap Used)
        BY <1>1, <2>1, FS_Union
    <2>4. free \cap Used = {}
        OBVIOUS
    <2>5. Cardinality(numbers) <= Cardinality(free \cup Used)
        BY <2>2, <2>3, FS_Subset
    <2> HIDE DEF free
    <2>6. Cardinality(free) \in Nat
        BY <2>1, FS_CardinalityType
    <2>7. Cardinality(free \cap Used) = 0
        BY <2>4, FS_EmptySet
    <2>8. QED BY <1>1, <1>2, <2>1, <2>3, <2>5, <2>6, <2>7
<1>4. \E snrs \in [1 .. n -> free] : IsInjective(snrs)
    <2> HIDE DEF free
    <2>1. PICK f : f \in Bijection(1 .. Cardinality(free), free)
        BY <1>3, FS_CardinalityType DEF ExistsBijection
    <2>2. /\ f \in [1 .. Cardinality(free) -> free]
          /\ \A a, b \in 1 .. Cardinality(free) : f[a] = f[b] => a = b
        BY <2>1 DEF Bijection, Injection, IsInjective
    <2>3. \A i \in 1 .. n : i \in 1 .. Cardinality(free)
        BY <1>3
    <2>4. [i \in 1 .. n |-> f[i]] \in [1 .. n -> free]
        BY <2>2, <2>3
    <2>5. IsInjective([i \in 1 .. n |-> f[i]])
        BY <2>2, <2>3 DEF IsInjective
    <2>6. QED BY <2>4, <2>5
<1>5. FreshSnrs(n) \in [1 .. n -> free] /\ IsInjective(FreshSnrs(n))
    <2>1. FreshSnrs(n) = CHOOSE snrs \in [1 .. n -> free] : IsInjective(snrs)
        BY DEF FreshSnrs
    <2> HIDE DEF free
    <2>2. QED BY <1>4, <2>1
<1>6. \A snr \in free : snr \in Nat \ {0} /\ snr \notin Used
    BY <1>1
<1> HIDE DEF free
<1>7. QED BY <1>5, <1>6 DEF IsInjective

-----------------------------------------------------------------------------
(* Channels                                                                  *)

LEMMA IsSequence ==
    ASSUME NEW S, NEW n \in Nat, NEW f \in [1 .. n -> S]
    PROVE  f \in Seq(S) /\ Len(f) = n
OBVIOUS

LEMMA PlaceInJoined ==
    ASSUME NEW S, NEW s \in Seq(S), NEW t \in Seq(S), NEW all, all = s \o t
    PROVE  \A i \in DOMAIN all :
               \/ i \in 1 .. Len(s) /\ all[i] = s[i]
               \/ \E n \in 1 .. Len(t) : i = Len(s) + n /\ all[i] = t[n]
<1>1. /\ Len(s) \in Nat /\ Len(t) \in Nat
      /\ DOMAIN all = 1 .. Len(s) + Len(t)
      /\ \A i \in 1 .. Len(s) : all[i] = s[i]
      /\ \A n \in 1 .. Len(t) : all[Len(s) + n] = t[n]
    OBVIOUS
<1>2. ASSUME NEW i \in DOMAIN all, i \notin 1 .. Len(s)
      PROVE  \E n \in 1 .. Len(t) : i = Len(s) + n /\ all[i] = t[n]
    <2>1. i - Len(s) \in 1 .. Len(t) /\ i = Len(s) + (i - Len(s))
        BY <1>1, <1>2
    <2>2. QED BY <1>1, <2>1
<1>3. QED BY <1>1, <1>2

LEMMA OutdatedRequests ==
    ASSUME NEW channel \in Seq(Requests)
    PROVE  /\ Outdated(channel) \in Seq(Requests)
           /\ Len(Outdated(channel)) = Len(channel)
           /\ \A i \in 1 .. Len(channel) : Outdated(channel)[i].snr = channel[i].snr
<1>1. ASSUME NEW m \in Requests PROVE [m EXCEPT !.late = TRUE] \in Requests
    BY DEF Requests
<1>2. \A i \in 1 .. Len(channel) : channel[i] \in Requests
    OBVIOUS
<1>3. \A i \in 1 .. Len(channel) :
        /\ [channel[i] EXCEPT !.late = TRUE] \in Requests
        /\ [channel[i] EXCEPT !.late = TRUE].snr = channel[i].snr
    BY <1>1, <1>2 DEF Requests
<1>4. /\ Outdated(channel) \in [1 .. Len(channel) -> Requests]
      /\ \A i \in 1 .. Len(channel) : Outdated(channel)[i].snr = channel[i].snr
    BY <1>3 DEF Outdated
<1>5. QED BY <1>4

LEMMA OutdatedAnswers ==
    ASSUME NEW channel \in Seq(Answers)
    PROVE  /\ Outdated(channel) \in Seq(Answers)
           /\ Len(Outdated(channel)) = Len(channel)
           /\ \A i \in 1 .. Len(channel) : Outdated(channel)[i].snr = channel[i].snr
<1>1. ASSUME NEW m \in Answers PROVE [m EXCEPT !.late = TRUE] \in Answers
    BY DEF Answers
<1>2. \A i \in 1 .. Len(channel) : channel[i] \in Answers
    OBVIOUS
<1>3. \A i \in 1 .. Len(channel) :
        /\ [channel[i] EXCEPT !.late = TRUE] \in Answers
        /\ [channel[i] EXCEPT !.late = TRUE].snr = channel[i].snr
    BY <1>1, <1>2 DEF Answers
<1>4. /\ Outdated(channel) \in [1 .. Len(channel) -> Answers]
      /\ \A i \in 1 .. Len(channel) : Outdated(channel)[i].snr = channel[i].snr
    BY <1>3 DEF Outdated
<1>5. QED BY <1>4

(* What a new round of requests leaves behind: the new ones under new        *)
(* numbers, and nothing that was sent before under these.                    *)
LEMMA AskingAgain ==
    ASSUME TimeInv, NEW isExpired, RequestValues(isExpired)
    PROVE  /\ toServer' \in Seq(Requests) /\ toClient' \in Seq(Answers)
           /\ msgId' \in [KindSet -> Nat]
           /\ Asked' /\ Answered'
<1>1. CASE ~Due(isExpired)
    BY <1>1 DEF RequestValues, netVars, TimeInv, TimeTypes, Asked, Answered, Usable, RightWord
<1>2. CASE Due(isExpired)
    <2> DEFINE asked == [n \in 1 .. 4 |-> [snr |-> FreshSnrs(4)[n],
                            cmd |-> Command("get", Kinds[n], <<>>), late |-> FALSE]]
               before == Outdated(toServer)
    <2>1. /\ msgId' = Ids(FreshSnrs(4))
          /\ toServer' = before \o asked
          /\ toClient' = Outdated(toClient)
        BY <1>2 DEF RequestValues
    <2>2. /\ FreshSnrs(4) \in [1 .. 4 -> Nat \ {0}]
          /\ \A i, j \in 1 .. 4 : FreshSnrs(4)[i] = FreshSnrs(4)[j] => i = j
          /\ \A i \in 1 .. 4 : FreshSnrs(4)[i] \notin Used
        BY FreshOnes DEF TimeInv
    <2> DEFINE place(k) == CHOOSE n \in 1 .. 4 : Kinds[n] = k
    <2>3. \A k \in KindSet : place(k) \in 1 .. 4 /\ Kinds[place(k)] = k
        <3>1. Kinds[1] = "date" /\ Kinds[2] = "time" /\ Kinds[3] = "julian" /\ Kinds[4] = "mode"
            BY DEF Kinds
        <3>2. \A k \in KindSet : \E n \in 1 .. 4 : Kinds[n] = k
            BY <3>1 DEF KindSet
        <3>3. QED BY <3>2
    <2>4. \A n \in 1 .. 4 : Kinds[n] \in KindSet
        BY DEF Kinds, KindSet
    <2> HIDE DEF place
    <2>5. \A k \in KindSet : msgId'[k] = FreshSnrs(4)[place(k)]
        BY <2>1 DEF Ids, place
    <2>6. msgId' \in [KindSet -> Nat]
        <3>1. DOMAIN msgId' = KindSet /\ msgId' = [k \in KindSet |-> msgId'[k]]
            BY <2>1 DEF Ids
        <3>2. \A k \in KindSet : msgId'[k] \in Nat
            BY <2>2, <2>3, <2>5
        <3>3. QED BY <3>1, <3>2
    <2>7. \A k \in KindSet : msgId'[k] \notin Used
        BY <2>2, <2>3, <2>5
    <2>8. asked \in Seq(Requests) /\ Len(asked) = 4
        <3>1. ASSUME NEW n \in 1 .. 4 PROVE asked[n] \in Requests
            <4>1. Command("get", Kinds[n], <<>>) \in ClientCommands
                BY <2>4 DEF ClientCommands, Question
            <4>2. FreshSnrs(4)[n] \in Nat \ {0}
                BY <2>2
            <4>3. QED BY <4>1, <4>2 DEF Requests
        <3>2. asked \in [1 .. 4 -> Requests]
            BY <3>1
        <3>3. 4 \in Nat
            OBVIOUS
        <3> HIDE DEF asked
        <3>4. QED BY <3>2, <3>3, IsSequence, Zenon
    <2>9. /\ before \in Seq(Requests) /\ Len(before) = Len(toServer)
          /\ \A i \in 1 .. Len(toServer) : before[i].snr = toServer[i].snr
        BY OutdatedRequests DEF TimeInv, TimeTypes
    <2>10. /\ Outdated(toClient) \in Seq(Answers) /\ Len(Outdated(toClient)) = Len(toClient)
           /\ \A i \in 1 .. Len(toClient) : Outdated(toClient)[i].snr = toClient[i].snr
        BY OutdatedAnswers DEF TimeInv, TimeTypes
    <2>11. Answered'
        <3>1. \A i \in 1 .. Len(toClient) : toClient[i].snr \in Used
            BY DEF Used, TimeInv, TimeTypes
        <3>2. \A i \in DOMAIN toClient' : i \in 1 .. Len(toClient) /\ toClient'[i].snr \in Used
            BY <2>1, <2>10, <3>1
        <3>3. QED BY <2>7, <3>2 DEF Answered
    <2>12. Asked'
        <3>1. \A i \in 1 .. Len(toServer) : toServer[i].snr \in Used
            BY DEF Used, TimeInv, TimeTypes
        <3>2. ASSUME NEW i \in DOMAIN toServer', NEW k \in KindSet, toServer'[i].snr = msgId'[k]
              PROVE  ~toServer'[i].late /\ toServer'[i].cmd = Question(k)
            <4>1. \/ i \in 1 .. Len(before) /\ toServer'[i] = before[i]
                  \/ \E n \in 1 .. 4 : toServer'[i] = asked[n]
                <5> HIDE DEF before, asked
                <5>1. before \in Seq(Requests) /\ asked \in Seq(Requests)
                    BY <2>8, <2>9
                <5>0. Len(asked) = 4
                    BY <2>8
                <5>2. toServer' = before \o asked
                    BY <2>1
                <5>3. \A j \in DOMAIN toServer' :
                          \/ j \in 1 .. Len(before) /\ toServer'[j] = before[j]
                          \/ \E n \in 1 .. Len(asked) :
                                 j = Len(before) + n /\ toServer'[j] = asked[n]
                    BY <5>1, <5>2, PlaceInJoined, Z3T(30)
                <5>4. QED BY <3>2, <5>0, <5>3
            <4>2. CASE i \in 1 .. Len(before) /\ toServer'[i] = before[i]
                <5>1. toServer'[i].snr \in Used
                    BY <2>9, <3>1, <4>2
                <5>2. QED BY <2>7, <3>2, <5>1
            <4>3. ASSUME NEW n \in 1 .. 4, toServer'[i] = asked[n]
                  PROVE  ~toServer'[i].late /\ toServer'[i].cmd = Question(k)
                <5>1. /\ toServer'[i].snr = FreshSnrs(4)[n] /\ toServer'[i].late = FALSE
                      /\ toServer'[i].cmd = Command("get", Kinds[n], <<>>)
                    BY <4>3
                <5>2. n = place(k)
                    BY <2>2, <2>3, <2>5, <3>2, <5>1
                <5>3. QED BY <2>3, <5>1, <5>2 DEF Question
            <4>4. QED BY <4>1, <4>2, <4>3
        <3>3. QED BY <3>2 DEF Asked
    <2>13. QED BY <2>1, <2>6, <2>8, <2>9, <2>10, <2>11, <2>12
<1>3. QED BY <1>1, <1>2

-----------------------------------------------------------------------------
(* The steps                                                                 *)

(* When messages are only taken off and fields only stop waiting, what was   *)
(* asked and answered stays so.                                              *)
LEMMA FewerMessages ==
    ASSUME TimeInv,
           toServer' \in Seq(Requests), toClient' \in Seq(Answers), msgId' \in [KindSet -> Nat],
           \A i \in DOMAIN toServer' : \E j \in DOMAIN toServer : toServer'[i] = toServer[j],
           \A i \in DOMAIN toClient' : \E j \in DOMAIN toClient : toClient'[i] = toClient[j],
           \A k \in KindSet : msgId'[k] = msgId[k] \/ msgId'[k] = 0
    PROVE  Asked' /\ Answered'
<1>1. ASSUME NEW i \in DOMAIN toServer', NEW k \in KindSet, toServer'[i].snr = msgId'[k]
      PROVE  ~toServer'[i].late /\ toServer'[i].cmd = Question(k)
    <2>1. PICK j \in DOMAIN toServer : toServer'[i] = toServer[j]
        OBVIOUS
    <2>2. toServer[j] \in Requests
        BY DEF TimeInv, TimeTypes
    <2>3. toServer[j].snr # 0
        BY <2>2 DEF Requests
    <2>4. toServer[j].snr = msgId[k]
        BY <1>1, <2>1, <2>3
    <2>5. QED BY <2>1, <2>4 DEF TimeInv, Asked
<1>2. ASSUME NEW i \in DOMAIN toClient', NEW k \in KindSet, toClient'[i].snr = msgId'[k]
      PROVE  /\ ~toClient'[i].late
             /\ Usable(toClient'[i]) => RightWord(k, toClient'[i].word)
    <2>1. PICK j \in DOMAIN toClient : toClient'[i] = toClient[j]
        OBVIOUS
    <2>2. toClient[j] \in Answers
        BY DEF TimeInv, TimeTypes
    <2>3. toClient[j].snr # 0
        BY <2>2 DEF Answers
    <2>4. toClient[j].snr = msgId[k]
        BY <1>2, <2>1, <2>3
    <2>5. QED BY <2>1, <2>4 DEF TimeInv, Answered
<1>3. QED BY <1>1, <1>2 DEF Asked, Answered

LEMMA ModeStays ==
    ASSUME timeMode \in Modes, NEW cmd
    PROVE  ModeAfter(cmd) \in Modes
<1>1. CASE cmd.type = "set" /\ AckCode(cmd) = 0
    <2>1. \E m \in Modes : cmd.args = <<m>>
        BY <1>1 DEF AckCode
    <2>2. cmd.args[1] \in Modes
        BY <2>1
    <2>3. QED BY <1>1, <2>2 DEF ModeAfter
<1>2. CASE ~(cmd.type = "set" /\ AckCode(cmd) = 0)
    BY <1>2 DEF ModeAfter
<1>3. QED BY <1>1, <1>2

LEMMA AnswersAreRight ==
    ASSUME timeMode \in Modes, NEW snr \in Nat \ {0}, NEW cmd \in ClientCommands, NEW late \in BOOLEAN
    PROVE  /\ AnswersOf(snr, cmd, late) \in Seq(Answers)
           /\ \A n \in DOMAIN AnswersOf(snr, cmd, late) :
                LET a == AnswersOf(snr, cmd, late)[n]
                IN  /\ a.snr = snr /\ a.late = late
                    /\ \A k \in KindSet : cmd = Question(k) /\ Usable(a) => RightWord(k, a.word)
<1>1. AckCode(cmd) = 0 /\ cmd.type # "reply"
    <2>1. ASSUME NEW k \in KindSet, cmd = Question(k)
          PROVE  AckCode(cmd) = 0 /\ cmd.type # "reply"
        BY <2>1 DEF Question, Command, AckCode, Getters, KindSet
    <2>2. ASSUME NEW m \in Modes, cmd = Command("set", "mode", <<m>>)
          PROVE  AckCode(cmd) = 0 /\ cmd.type # "reply"
        BY <2>2 DEF Command, AckCode
    <2>3. QED BY <2>1, <2>2 DEF ClientCommands
<1>2. ReplyWord(cmd) \in AnswerWords
    <2>1. ASSUME NEW k \in KindSet, cmd = Question(k) PROVE ReplyWord(cmd) \in AnswerWords
        BY <2>1 DEF Question, Command, ReplyWord, AnswerWords
    <2>2. ASSUME NEW m \in Modes, cmd = Command("set", "mode", <<m>>) PROVE ReplyWord(cmd) \in AnswerWords
        BY <2>2 DEF Command, ReplyWord, AnswerWords
    <2>3. QED BY <2>1, <2>2 DEF ClientCommands
<1>3. \A k \in KindSet : cmd = Question(k) => RightWord(k, ReplyWord(cmd))
    BY DEF Question, Command, ReplyWord, RightWord
<1> DEFINE ack == Answer(snr, 0, "ACK", late)
           answer == Answer(snr, 0, ReplyWord(cmd), late)
<1>4. AnswersOf(snr, cmd, late) = <<ack, answer>>
    BY <1>1 DEF AnswersOf
<1>5. /\ ack \in Answers /\ answer \in Answers
      /\ ack.snr = snr /\ ack.late = late /\ ~Usable(ack)
      /\ answer.snr = snr /\ answer.late = late /\ answer.word = ReplyWord(cmd)
    <2>1. ASSUME NEW word \in AnswerWords, NEW a, a = Answer(snr, 0, word, late)
          PROVE  a \in Answers /\ a.snr = snr /\ a.late = late /\ a.word = word
        BY <2>1 DEF Answer, Answers
    <2>2. "ACK" \in AnswerWords
        BY DEF AnswerWords
    <2>3. /\ ack \in Answers /\ ack.snr = snr /\ ack.late = late /\ ack.word = "ACK"
          /\ answer \in Answers /\ answer.snr = snr /\ answer.late = late
          /\ answer.word = ReplyWord(cmd)
        BY <1>2, <2>1, <2>2
    <2> HIDE DEF ack, answer
    <2>4. QED BY <2>3 DEF Usable
<1> HIDE DEF ack, answer
<1>6. \A n \in DOMAIN <<ack, answer>> : <<ack, answer>>[n] = ack \/ <<ack, answer>>[n] = answer
    OBVIOUS
<1>7. <<ack, answer>> \in Seq(Answers)
    BY <1>5
<1>8. QED BY <1>3, <1>4, <1>5, <1>6, <1>7

(* The field that takes an answer is one with its number.                    *)
LEMMA FirstIsThere ==
    ASSUME NEW snr, \E n \in 1 .. 4 : Has(n, snr)
    PROVE  FirstWith(snr) \in 1 .. 4 /\ Has(FirstWith(snr), snr)
<1> DEFINE IsFirst(n) == Has(n, snr) /\ \A p \in 1 .. n - 1 : ~Has(p, snr)
<1>1. \E n \in 1 .. 4 : IsFirst(n)
    <2>1. CASE Has(1, snr)
        BY <2>1
    <2>2. CASE ~Has(1, snr) /\ Has(2, snr)
        <3>1. \A p \in 1 .. 2 - 1 : p = 1
            OBVIOUS
        <3>2. QED BY <2>2, <3>1
    <2>3. CASE ~Has(1, snr) /\ ~Has(2, snr) /\ Has(3, snr)
        <3>1. \A p \in 1 .. 3 - 1 : p = 1 \/ p = 2
            OBVIOUS
        <3>2. QED BY <2>3, <3>1
    <2>4. CASE ~Has(1, snr) /\ ~Has(2, snr) /\ ~Has(3, snr)
        <3>1. \A n \in 1 .. 4 : n = 1 \/ n = 2 \/ n = 3 \/ n = 4
            OBVIOUS
        <3>2. Has(4, snr)
            BY <2>4, <3>1
        <3>3. \A p \in 1 .. 4 - 1 : p = 1 \/ p = 2 \/ p = 3
            OBVIOUS
        <3>4. QED BY <2>4, <3>2, <3>3
    <2>5. QED BY <2>1, <2>2, <2>3, <2>4
<1> HIDE DEF IsFirst
<1>2. FirstWith(snr) = CHOOSE n \in 1 .. 4 : IsFirst(n)
    BY DEF FirstWith, IsFirst
<1>3. FirstWith(snr) \in 1 .. 4 /\ IsFirst(FirstWith(snr))
    BY <1>1, <1>2
<1>4. QED BY <1>3 DEF IsFirst

(* An answer is put where it belongs.                                        *)
LEMMA FieldTakesAnswer ==
    ASSUME TimeInv, NEW m, MessageReceived(m),
           \A k \in KindSet : m.snr = msgId[k] =>
               ~m.late /\ (Usable(m) => RightWord(k, m.word))
    PROVE  /\ ShownRight'
           /\ msgId' \in [KindSet -> Nat]
           /\ \A k \in KindSet : msgId'[k] = msgId[k] \/ msgId'[k] = 0
<1> DEFINE Taken == \E n \in 1 .. 4 : Has(n, m.snr)
<1>1. CASE Usable(m) /\ Taken
    <2> DEFINE k == Kinds[FirstWith(m.snr)]
    <2>a. FirstWith(m.snr) \in 1 .. 4 /\ Has(FirstWith(m.snr), m.snr)
        BY <1>1, FirstIsThere
    <2>b. k \in KindSet /\ msgId[k] = m.snr
        BY <2>a DEF Has, Kinds, KindSet
    <2>1.   /\ msgId' = [msgId EXCEPT ![k] = 0]
            /\ shown' = [shown EXCEPT ![k] = IF m.late THEN "late" ELSE m.word]
            /\ combo' = IF k # "mode" THEN combo ELSE IF m.word \in Modes THEN m.word ELSE "nothing"
        BY <1>1 DEF MessageReceived
    <2> HIDE DEF k
    <2>2. k \in KindSet /\ ~m.late /\ RightWord(k, m.word)
        BY <1>1, <2>b
    <2>3. shown' = [shown EXCEPT ![k] = m.word]
        BY <2>1, <2>2
    <2>4. combo' \in Modes \/ (combo' = "nothing" /\ shown'["mode"] = "foreign")
        <3>1. shown \in [KindSet -> {"none", "foreign"} \cup KindSet \cup Modes] /\ "mode" \in KindSet
            BY DEF TimeInv, ShownRight, KindSet
        <3>2. CASE k = "mode"
            <4>1. shown'["mode"] = m.word
                BY <2>3, <3>1, <3>2
            <4>2. m.word \in Modes \/ m.word = "foreign"
                BY <2>2, <3>2 DEF RightWord
            <4>3. QED BY <2>1, <3>2, <4>1, <4>2
        <3>3. CASE k # "mode"
            <4>1. shown'["mode"] = shown["mode"] /\ combo' = combo
                BY <2>1, <2>3, <3>1, <3>3
            <4>2. QED BY <4>1 DEF TimeInv, ShownRight, FieldsShowTheirAnswers
        <3>4. QED BY <3>2, <3>3
    <2>5. msgId' \in [KindSet -> Nat] /\ \A j \in KindSet : msgId'[j] = msgId[j] \/ msgId'[j] = 0
        BY <2>1, <2>2 DEF TimeInv, TimeTypes
    <2>6. shown' \in [KindSet -> {"none", "foreign"} \cup KindSet \cup Modes]
        <3>1. m.word \in {"none", "foreign"} \cup KindSet \cup Modes
            BY <2>2 DEF RightWord
        <3>2. QED BY <2>3, <3>1 DEF TimeInv, ShownRight
    <2>7. ASSUME NEW j \in KindSet
          PROVE  shown'[j] \in {"none", "foreign"} \cup (IF j = "mode" THEN Modes ELSE {j})
        BY <2>2, <2>3, <2>7 DEF RightWord, TimeInv, ShownRight, FieldsShowTheirAnswers
    <2>8. QED BY <2>4, <2>5, <2>6, <2>7 DEF ShownRight, FieldsShowTheirAnswers
<1>2. CASE ~(Usable(m) /\ Taken)
    <2>1. UNCHANGED <<msgId, shown, combo>>
        BY <1>2 DEF MessageReceived
    <2>2. QED BY <2>1 DEF TimeInv, TimeTypes, ShownRight, FieldsShowTheirAnswers
<1>3. QED BY <1>1, <1>2

LEMMA HeadAndTail ==
    ASSUME NEW S, NEW s \in Seq(S), s # <<>>
    PROVE  /\ Head(s) \in S /\ 1 \in DOMAIN s /\ Head(s) = s[1]
           /\ Tail(s) \in Seq(S)
           /\ \A i \in DOMAIN Tail(s) : i + 1 \in DOMAIN s /\ Tail(s)[i] = s[i + 1]
OBVIOUS

LEMMA ServerReceivesKeeps == ASSUME TimeInv, ServerReceives PROVE TimeInv'
<1> DEFINE m == Head(toServer)
           answers == AnswersOf(m.snr, m.cmd, m.late)
<1>1. /\ toServer # <<>> /\ toServer' = Tail(toServer)
      /\ timeMode' = ModeAfter(m.cmd)
      /\ toClient' = IF connected THEN toClient \o answers ELSE toClient
      /\ UNCHANGED <<msgId, shown, combo>>
    BY DEF ServerReceives, clientVars
<1>2. toServer \in Seq(Requests) /\ toClient \in Seq(Answers)
    BY DEF TimeInv, TimeTypes
<1>3. /\ m \in Requests /\ 1 \in DOMAIN toServer /\ m = toServer[1]
      /\ Tail(toServer) \in Seq(Requests)
      /\ \A i \in DOMAIN Tail(toServer) :
            i + 1 \in DOMAIN toServer /\ Tail(toServer)[i] = toServer[i + 1]
    BY <1>1, <1>2, HeadAndTail
<1>4. m.snr \in Nat \ {0} /\ m.cmd \in ClientCommands /\ m.late \in BOOLEAN
    BY <1>3 DEF Requests
<1>5. /\ answers \in Seq(Answers)
      /\ \A n \in DOMAIN answers :
            /\ answers[n].snr = m.snr /\ answers[n].late = m.late
            /\ \A k \in KindSet : m.cmd = Question(k) /\ Usable(answers[n]) => RightWord(k, answers[n].word)
    <2>1. timeMode \in Modes
        BY DEF TimeInv, TimeTypes
    <2> HIDE DEF m
    <2>2. QED BY <1>4, <2>1, AnswersAreRight
<1> HIDE DEF m, answers
<1>6. timeMode' \in Modes
    BY <1>1, ModeStays DEF TimeInv, TimeTypes
<1>7. toServer' \in Seq(Requests) /\ toClient' \in Seq(Answers) /\ msgId' \in [KindSet -> Nat]
    BY <1>1, <1>2, <1>3, <1>5 DEF TimeInv, TimeTypes
<1>8. Asked'
    <2>1. ASSUME NEW i \in DOMAIN toServer', NEW k \in KindSet, toServer'[i].snr = msgId'[k]
          PROVE  ~toServer'[i].late /\ toServer'[i].cmd = Question(k)
        <3>1. i + 1 \in DOMAIN toServer /\ toServer'[i] = toServer[i + 1]
            BY <1>1, <1>3
        <3>2. msgId'[k] = msgId[k]
            BY <1>1
        <3>3. QED BY <2>1, <3>1, <3>2 DEF TimeInv, Asked
    <2>2. QED BY <2>1 DEF Asked
<1>9. Answered'
    <2>1. ASSUME NEW i \in DOMAIN toClient', NEW k \in KindSet, toClient'[i].snr = msgId'[k]
          PROVE  /\ ~toClient'[i].late
                 /\ Usable(toClient'[i]) => RightWord(k, toClient'[i].word)
        <3>1. msgId'[k] = msgId[k]
            BY <1>1
        <3>2. ASSUME i \in DOMAIN toClient, toClient'[i] = toClient[i]
              PROVE  /\ ~toClient'[i].late
                     /\ Usable(toClient'[i]) => RightWord(k, toClient'[i].word)
            BY <2>1, <3>1, <3>2 DEF TimeInv, Answered
        <3>3. ASSUME NEW n \in DOMAIN answers, toClient'[i] = answers[n]
              PROVE  /\ ~toClient'[i].late
                     /\ Usable(toClient'[i]) => RightWord(k, toClient'[i].word)
            <4>1. toServer[1].snr = msgId[k]
                BY <1>3, <1>5, <2>1, <3>1, <3>3
            <4>2. ~m.late /\ m.cmd = Question(k)
                BY <1>3, <4>1 DEF TimeInv, Asked
            <4>3. QED BY <1>5, <3>3, <4>2
        <3>4. CASE connected
            <4>1. toClient' = toClient \o answers
                BY <1>1, <3>4
            <4>2. \A j \in DOMAIN toClient' :
                      \/ j \in 1 .. Len(toClient) /\ toClient'[j] = toClient[j]
                      \/ \E n \in 1 .. Len(answers) :
                             j = Len(toClient) + n /\ toClient'[j] = answers[n]
                <5>1. toClient \in Seq(Answers) /\ answers \in Seq(Answers)
                    BY <1>2, <1>5, Zenon
                <5>2. QED BY <4>1, <5>1, PlaceInJoined, Z3T(30)
            <4>4. CASE i \in 1 .. Len(toClient) /\ toClient'[i] = toClient[i]
                <5>1. i \in DOMAIN toClient
                    BY <1>2, <4>4
                <5>2. QED BY <3>2, <4>4, <5>1
            <4>5. ASSUME NEW n \in 1 .. Len(answers), toClient'[i] = answers[n]
                  PROVE  /\ ~toClient'[i].late
                         /\ Usable(toClient'[i]) => RightWord(k, toClient'[i].word)
                <5>1. n \in DOMAIN answers
                    BY <1>5
                <5>2. QED BY <3>3, <4>5, <5>1
            <4>6. QED BY <2>1, <4>2, <4>4, <4>5
        <3>5. CASE ~connected
            BY <1>1, <2>1, <3>2, <3>5
        <3>6. QED BY <3>4, <3>5
    <2>2. QED BY <2>1 DEF Answered
<1>10. ShownRight'
    BY <1>1 DEF TimeInv, ShownRight, FieldsShowTheirAnswers
<1>11. QED BY <1>6, <1>7, <1>8, <1>9, <1>10 DEF TimeInv, TimeTypes

LEMMA ClientReceivesKeeps == ASSUME TimeInv, ClientReceives PROVE TimeInv'
<1> DEFINE m == Head(toClient)
<1>1. /\ toClient # <<>> /\ toClient' = Tail(toClient) /\ MessageReceived(m)
      /\ UNCHANGED <<timeMode, toServer>>
    BY DEF ClientReceives
<1>2. toServer \in Seq(Requests) /\ toClient \in Seq(Answers) /\ timeMode \in Modes
    BY DEF TimeInv, TimeTypes
<1>3. /\ 1 \in DOMAIN toClient /\ m = toClient[1]
      /\ Tail(toClient) \in Seq(Answers)
      /\ \A i \in DOMAIN Tail(toClient) :
            i + 1 \in DOMAIN toClient /\ Tail(toClient)[i] = toClient[i + 1]
    BY <1>1, <1>2, HeadAndTail
<1> HIDE DEF m
<1>4. \A k \in KindSet : m.snr = msgId[k] => ~m.late /\ (Usable(m) => RightWord(k, m.word))
    BY <1>3 DEF TimeInv, Answered
<1>5. /\ ShownRight' /\ msgId' \in [KindSet -> Nat]
      /\ \A k \in KindSet : msgId'[k] = msgId[k] \/ msgId'[k] = 0
    BY <1>1, <1>4, FieldTakesAnswer
<1>6. /\ toServer' \in Seq(Requests) /\ toClient' \in Seq(Answers)
      /\ \A i \in DOMAIN toServer' : \E j \in DOMAIN toServer : toServer'[i] = toServer[j]
      /\ \A i \in DOMAIN toClient' : \E j \in DOMAIN toClient : toClient'[i] = toClient[j]
    BY <1>1, <1>2, <1>3
<1>7. Asked' /\ Answered'
    BY <1>5, <1>6, FewerMessages
<1>8. QED BY <1>1, <1>2, <1>5, <1>6, <1>7 DEF TimeInv, TimeTypes

LEMMA ComboActivatedKeeps ==
    ASSUME TimeInv, NEW mode \in Modes, ComboActivated(mode)
    PROVE  TimeInv'
<1> DEFINE m == [snr |-> FreshSnrs(1)[1], cmd |-> Command("set", "mode", <<mode>>), late |-> FALSE]
<1>1. /\ toServer' = Append(toServer, m) \/ toServer' = toServer
      /\ combo' = mode
      /\ UNCHANGED <<timeMode, toClient, msgId, shown>>
    BY DEF ComboActivated
<1>2. toServer \in Seq(Requests) /\ toClient \in Seq(Answers) /\ msgId \in [KindSet -> Nat]
    BY DEF TimeInv, TimeTypes
<1>3. FreshSnrs(1)[1] \in Nat \ {0} /\ FreshSnrs(1)[1] \notin Used
    <2>1. 1 \in Nat /\ 1 \in 1 .. 1
        OBVIOUS
    <2>2. /\ FreshSnrs(1) \in [1 .. 1 -> Nat \ {0}]
          /\ \A i \in 1 .. 1 : FreshSnrs(1)[i] \notin Used
        BY <2>1, FreshOnes DEF TimeInv
    <2>3. QED BY <2>1, <2>2
<1>4. m \in Requests /\ m.snr \notin Used
    BY <1>3 DEF Requests, ClientCommands
<1> HIDE DEF m
<1>5. toServer' \in Seq(Requests)
    BY <1>1, <1>2, <1>4
<1>6. Asked'
    <2>1. ASSUME NEW i \in DOMAIN toServer', NEW k \in KindSet, toServer'[i].snr = msgId'[k]
          PROVE  ~toServer'[i].late /\ toServer'[i].cmd = Question(k)
        <3>1. msgId'[k] = msgId[k] /\ msgId[k] \in Used
            BY <1>1 DEF Used
        <3>2. \/ i \in DOMAIN toServer /\ toServer'[i] = toServer[i]
              \/ toServer'[i] = m
            <4>1. CASE toServer' = Append(toServer, m)
                BY <1>2, <1>4, <4>1
            <4>2. CASE toServer' = toServer
                BY <4>2
            <4>3. QED BY <1>1, <4>1, <4>2
        <3>3. toServer'[i] # m
            BY <1>4, <2>1, <3>1
        <3>4. QED BY <2>1, <3>1, <3>2, <3>3 DEF TimeInv, Asked
    <2>2. QED BY <2>1 DEF Asked
<1>7. Answered' /\ ShownRight'
    BY <1>1 DEF TimeInv, Answered, ShownRight, FieldsShowTheirAnswers, Usable, RightWord
<1>8. QED BY <1>1, <1>2, <1>5, <1>6, <1>7 DEF TimeInv, TimeTypes

LEMMA ServerIsAwayKeeps ==
    ASSUME TimeInv, ServerIsAway, timeMode' \in Modes
    PROVE  TimeInv'
<1>1. toServer \in Seq(Requests) /\ toClient \in Seq(Answers) /\ msgId \in [KindSet -> Nat]
    BY DEF TimeInv, TimeTypes
<1>2. PICK n \in 0 .. Len(toServer) : toServer' = SubSeq(toServer, n + 1, Len(toServer))
    BY DEF ServerIsAway
<1>3. PICK k \in 0 .. Len(toClient) : toClient' = SubSeq(toClient, 1, k)
    BY DEF ServerIsAway
<1>4. UNCHANGED <<msgId, shown, combo>>
    BY DEF ServerIsAway, clientVars
<1>5. /\ toServer' \in Seq(Requests)
      /\ \A i \in DOMAIN toServer' : \E j \in DOMAIN toServer : toServer'[i] = toServer[j]
    <2> DEFINE len == Len(toServer)
    <2>1. len \in Nat /\ n \in 0 .. len /\ n + 1 \in Int /\ len \in Int
        BY <1>1, <1>2
    <2>2. /\ \A i \in n + 1 .. len : toServer[i] \in Requests
          /\ toServer' = SubSeq(toServer, n + 1, len)
        BY <1>1, <1>2, <2>1
    <2> HIDE DEF len
    <2>3. /\ toServer' \in Seq(Requests)
          /\ Len(toServer') = IF n + 1 <= len THEN len - (n + 1) + 1 ELSE 0
          /\ \A i \in 1 .. len - (n + 1) + 1 : toServer'[i] = toServer[(n + 1) + i - 1]
        BY <2>1, <2>2, SubSeqProperties
    <2>4. \A i \in DOMAIN toServer' :
             i \in 1 .. len - (n + 1) + 1 /\ (n + 1) + i - 1 \in 1 .. len
        BY <2>1, <2>3
    <2>5. DOMAIN toServer = 1 .. len
        BY <1>1 DEF len
    <2>6. QED BY <2>3, <2>4, <2>5
<1>6. /\ toClient' \in Seq(Answers)
      /\ \A i \in DOMAIN toClient' : \E j \in DOMAIN toClient : toClient'[i] = toClient[j]
    BY <1>1, <1>3
<1>7. Asked' /\ Answered'
    BY <1>1, <1>4, <1>5, <1>6, FewerMessages
<1>8. ShownRight'
    BY <1>4 DEF TimeInv, ShownRight, FieldsShowTheirAnswers
<1>9. QED BY <1>1, <1>4, <1>5, <1>6, <1>7, <1>8 DEF TimeInv, TimeTypes

LEMMA InitTime == Init => TimeInv
BY DEF Init, TimeInv, TimeTypes, Asked, Answered, ShownRight, FieldsShowTheirAnswers, Modes, KindSet

LEMMA NextTime == TimeInv /\ [Next]_vars => TimeInv'
<1> SUFFICES ASSUME TimeInv, [Next]_vars PROVE TimeInv'
    OBVIOUS
<1>0. /\ timeMode \in Modes /\ toServer \in Seq(Requests) /\ toClient \in Seq(Answers)
      /\ msgId \in [KindSet -> Nat] /\ ShownRight
    BY DEF TimeInv, TimeTypes
<1>1. CASE ServerReceives
    BY <1>1, ServerReceivesKeeps
<1>2. ASSUME NEW cmd \in OtherCommands, ServerReceivesOther(cmd) PROVE TimeInv'
    <2>1. timeMode' \in Modes
        BY <1>0, <1>2, ModeStays DEF ServerReceivesOther
    <2>2. UNCHANGED <<toServer, toClient, msgId, shown, combo>>
        BY <1>2 DEF ServerReceivesOther, netVars, clientVars
    <2>3. QED BY <2>1, <2>2 DEF TimeInv, TimeTypes, Asked, Answered, ShownRight,
                                FieldsShowTheirAnswers, Usable, RightWord
<1>3. CASE ServerRestarts \/ ServerReconnects
    <2>1. ServerIsAway /\ timeMode' \in Modes
        BY <1>0, <1>3 DEF ServerRestarts, ServerReconnects, Modes
    <2>2. QED BY <2>1, ServerIsAwayKeeps
<1>4. CASE StateConnected
    <2>1. RequestValues(FALSE) /\ UNCHANGED <<timeMode, shown, combo>>
        BY <1>4 DEF StateConnected
    <2>2. QED BY <1>0, <2>1, AskingAgain DEF TimeInv, TimeTypes, ShownRight, FieldsShowTheirAnswers
<1>5. CASE StateUnconnected
    <2>1. PICK n \in 0 .. Len(toServer) : toServer' = SubSeq(toServer, 1, n)
        BY <1>5 DEF StateUnconnected
    <2>2. toClient' = <<>> /\ UNCHANGED <<timeMode, msgId, shown, combo>>
        BY <1>5 DEF StateUnconnected
    <2>3. /\ toServer' \in Seq(Requests)
          /\ \A i \in DOMAIN toServer' : \E j \in DOMAIN toServer : toServer'[i] = toServer[j]
        BY <1>0, <2>1
    <2>4. /\ toClient' \in Seq(Answers)
          /\ \A i \in DOMAIN toClient' : \E j \in DOMAIN toClient : toClient'[i] = toClient[j]
        BY <2>2
    <2>5. Asked' /\ Answered'
        BY <1>0, <2>2, <2>3, <2>4, FewerMessages
    <2>6. QED BY <1>0, <2>2, <2>3, <2>4, <2>5 DEF TimeInv, TimeTypes, ShownRight, FieldsShowTheirAnswers
<1>6. CASE Timeout
    <2>1. RequestValues(expired) /\ UNCHANGED <<timeMode, shown, combo>>
        BY <1>6 DEF Timeout
    <2>2. QED BY <1>0, <2>1, AskingAgain DEF TimeInv, TimeTypes, ShownRight, FieldsShowTheirAnswers
<1>7. CASE SecondPasses
    BY <1>7 DEF SecondPasses, netVars, TimeInv, TimeTypes, Asked, Answered, ShownRight,
                FieldsShowTheirAnswers, Usable, RightWord
<1>8. CASE ClientReceives
    BY <1>8, ClientReceivesKeeps
<1>9. ASSUME NEW m \in ForeignMessages, ClientReceivesOther(m) PROVE TimeInv'
    <2>1. MessageReceived(m) /\ UNCHANGED <<timeMode, toServer, toClient>>
        BY <1>9 DEF ClientReceivesOther, netVars
    <2>2. m.word = "foreign" /\ m.late = FALSE
        <3>1. PICK snr \in Used \cup {0}, b \in BOOLEAN, c \in BOOLEAN : m = Foreign(snr, b, c)
            BY DEF ForeignMessages
        <3>2. QED BY <3>1 DEF Foreign, Answer
    <2>3. /\ ShownRight' /\ msgId' \in [KindSet -> Nat]
          /\ \A k \in KindSet : msgId'[k] = msgId[k] \/ msgId'[k] = 0
        BY <2>1, <2>2, FieldTakesAnswer DEF RightWord
    <2>4. Asked' /\ Answered'
        BY <1>0, <2>1, <2>3, FewerMessages
    <2>5. QED BY <1>0, <2>1, <2>3, <2>4 DEF TimeInv, TimeTypes
<1>10. ASSUME NEW mode \in Modes, ComboActivated(mode) PROVE TimeInv'
    BY <1>10, ComboActivatedKeeps
<1>11. CASE UNCHANGED vars
    BY <1>11 DEF vars, netVars, clientVars, TimeInv, TimeTypes, Asked, Answered, ShownRight,
                 FieldsShowTheirAnswers, Usable, RightWord
<1>12. QED BY <1>1, <1>2, <1>3, <1>4, <1>5, <1>6, <1>7, <1>8, <1>9, <1>10, <1>11 DEF Next

(* The server's answers are shown by the field that asked, for the last time *)
(* it asked (DcpTimeClient::messageReceived(), requestValues()): with any    *)
(* number of late answers, lost connections, restarts, other commands and    *)
(* replies that nobody asked for.                                            *)
THEOREM RightAnswersAreShown == Spec => []FieldsShowTheirAnswers
<1>1. TimeInv => FieldsShowTheirAnswers
    BY DEF TimeInv, ShownRight
<1>2. QED BY InitTime, NextTime, <1>1, PTL DEF Spec
=============================================================================
