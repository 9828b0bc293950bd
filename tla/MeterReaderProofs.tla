------------------------- MODULE MeterReaderProofs --------------------------
(***************************************************************************)
(* Theorems about MeterReader for every plan of requests, every answer and *)
(* every fault of the line.                                                *)
(***************************************************************************)
EXTENDS MeterReader, BcdCodecProofs

(***************************************************************************)
(* Sequences of pieces.  P stands for the set the pieces are from: all, or *)
(* those that are allowed on a quiet line.                                 *)
(***************************************************************************)
LEMMA NoiseIsPiece == Noise \in Piece /\ IsNoise(Noise)
BY DEF Piece, IsNoise, Noise

LEMMA PartOfPiece ==
  ASSUME NEW p \in Piece
  PROVE  /\ p.part \in {"head", "tail", "noise"}
         /\ ~IsNoise(p) => p \in [part : {"head", "tail"}, frame : Frame]
BY DEF Piece, Noise, IsNoise

LEMMA Subsequence ==
  ASSUME NEW P, NEW Q, P \subseteq Q, NEW s \in Seq(P)
  PROVE  s \in Seq(Q)
OBVIOUS

LEMMA JoinedKeeps ==
  ASSUME NEW P, NEW s \in Seq(P), NEW t \in Seq(P)
  PROVE  /\ Joined(s, t) \in Seq(P)
         /\ Len(Joined(s, t)) <= Len(s) + Len(t)
<1>1. CASE s # <<>> /\ t # <<>> /\ s[Len(s)] = Noise /\ Head(t) = Noise
  <2>1. Tail(t) \in Seq(P) /\ Len(Tail(t)) = Len(t) - 1
    BY <1>1
  <2>2. s \o Tail(t) \in Seq(P) /\ Len(s \o Tail(t)) = Len(s) + Len(Tail(t))
    BY <2>1
  <2>3. Len(s) \in Nat /\ Len(t) \in Nat
    OBVIOUS
  <2> QED BY <1>1, <2>1, <2>2, <2>3 DEF Joined
<1>2. CASE ~(s # <<>> /\ t # <<>> /\ s[Len(s)] = Noise /\ Head(t) = Noise)
  <2>1. Joined(s, t) = s \o t
    BY <1>2 DEF Joined
  <2> QED BY <2>1
<1> QED BY <1>1, <1>2

LEMMA TrimmedKeeps ==
  ASSUME NEW P, NEW b \in Seq(P), b # <<>>, Noise \in P
  PROVE  Trimmed(b) \in Seq(P)
<1>1. CASE b[1].part = "head"
  <2>1. <<Noise>> \in Seq(P) /\ Tail(b) \in Seq(P)
    OBVIOUS
  <2> QED BY <1>1, <2>1, JoinedKeeps DEF Trimmed
<1>2. CASE b[1].part # "head" /\ NextStart(b) = {}
  <2>1. <<>> \in Seq(P)
    OBVIOUS
  <2> QED BY <1>2, <2>1 DEF Trimmed
<1>3. CASE b[1].part # "head" /\ NextStart(b) # {}
  <2>1. NextStart(b) \subseteq Nat /\ NextStart(b) \subseteq 2..Len(b)
    BY DEF NextStart
  <2>2. PICK i \in NextStart(b) : \A j \in NextStart(b) : i <= j
    BY <1>3, <2>1, LeastNumber
  <2> DEFINE c == CHOOSE x \in NextStart(b) : \A j \in NextStart(b) : x <= j
  <2>3. c \in 2..Len(b)
    BY <2>1, <2>2
  <2>4. Trimmed(b) = SubSeq(b, c, Len(b))
    BY <1>3 DEF Trimmed
  <2> HIDE DEF c
  <2> QED BY <2>3, <2>4
<1> QED BY <1>1, <1>2, <1>3

LEMMA AgedKeeps ==
  ASSUME NEW s \in Seq(Piece)
  PROVE  Aged(s) \in Seq(Piece) /\ Len(Aged(s)) = Len(s)
<1> DEFINE old(p) == IF IsNoise(p) THEN Noise ELSE [p EXCEPT !.frame.fresh = FALSE]
<1>1. ASSUME NEW p \in Piece PROVE old(p) \in Piece
  <2>1. CASE IsNoise(p)
    BY <2>1, NoiseIsPiece
  <2>2. CASE ~IsNoise(p)
    <3>1. p \in [part : {"head", "tail"}, frame : Frame]
      BY <2>2, PartOfPiece
    <3>2. [p.frame EXCEPT !.fresh = FALSE] \in Frame
      BY <3>1 DEF Frame
    <3>3. [p EXCEPT !.frame.fresh = FALSE] = [p EXCEPT !.frame = [p.frame EXCEPT !.fresh = FALSE]]
      BY <3>1
    <3>4. [p EXCEPT !.frame.fresh = FALSE] \in [part : {"head", "tail"}, frame : Frame]
      BY <3>1, <3>2, <3>3
    <3> QED BY <2>2, <3>4 DEF Piece
  <2> QED BY <2>1, <2>2
<1>2. Aged(s) = [i \in 1..Len(s) |-> old(s[i])]
  BY DEF Aged
<1> HIDE DEF old
<1>3. \A i \in 1..Len(s) : old(s[i]) \in Piece
  BY <1>1
<1> QED BY <1>2, <1>3

\* Without an answer there is nothing in it to grow old.
Harmless == {p \in Piece : ~IsAnswer(p)}

LEMMA AgedHarmless ==
  ASSUME NEW s \in Seq(Piece), ~Carries(s)
  PROVE  Aged(s) \in Seq(Harmless)
<1>1. Aged(s) \in Seq(Piece)
  BY AgedKeeps
<1>2. ASSUME NEW i \in 1..Len(s) PROVE ~IsAnswer(Aged(s)[i])
  <2>1. s[i] \in Piece /\ i \in DOMAIN s
    OBVIOUS
  <2>2. ~IsAnswer(s[i])
    BY <2>1 DEF Carries
  <2>3. CASE IsNoise(s[i])
    <3>1. Aged(s)[i] = Noise
      BY <2>1, <2>3 DEF Aged
    <3> QED BY <3>1, NoiseIsPiece DEF IsAnswer
  <2>4. CASE ~IsNoise(s[i])
    <3>1. s[i] \in [part : {"head", "tail"}, frame : Frame]
      BY <2>1, <2>4, PartOfPiece
    <3>2. Aged(s)[i] = [s[i] EXCEPT !.frame.fresh = FALSE]
      BY <2>1, <2>4 DEF Aged
    <3>3. s[i].frame.meter = Other
      BY <2>2, <2>4 DEF IsAnswer
    <3>4. Aged(s)[i].frame = [s[i].frame EXCEPT !.fresh = FALSE]
      BY <3>1, <3>2
    <3>5. Aged(s)[i].frame.meter = Other
      BY <3>1, <3>3, <3>4 DEF Frame
    <3> QED BY <3>5 DEF IsAnswer
  <2> QED BY <2>3, <2>4
<1>3. Len(Aged(s)) = Len(s)
  BY AgedKeeps
<1>4. \A i \in 1..Len(Aged(s)) : Aged(s)[i] \in Harmless
  BY <1>1, <1>2, <1>3 DEF Harmless
<1> QED BY <1>1, <1>4

LEMMA CarriesParts ==
  ASSUME NEW s \in Seq(Piece), NEW t \in Seq(Piece), ~Carries(s \o t)
  PROVE  ~Carries(s) /\ ~Carries(t)
<1>1. ASSUME NEW i \in DOMAIN s PROVE ~IsAnswer(s[i])
  <2>1. i \in DOMAIN (s \o t) /\ (s \o t)[i] = s[i]
    OBVIOUS
  <2> QED BY <2>1 DEF Carries
<1>2. ASSUME NEW i \in DOMAIN t PROVE ~IsAnswer(t[i])
  <2>1. Len(s) + i \in DOMAIN (s \o t) /\ (s \o t)[Len(s) + i] = t[i]
    OBVIOUS
  <2> QED BY <2>1 DEF Carries
<1> QED BY <1>1, <1>2 DEF Carries

(***************************************************************************)
(* Requests, frames and results.                                           *)
(***************************************************************************)
LEMMA PlanType ==
  /\ Len(Plan) \in Nat \ {0}
  /\ \A k \in Steps : Plan[k] \in [meter : Meter, item : Item]
<1> DEFINE R == [meter : Meter, item : Item]
<1>1. Plan \in Seq(R) /\ Plan # <<>>
  BY PlanAssumption
<1> HIDE DEF R
<1>2. Len(Plan) \in Nat \ {0} /\ \A k \in 1..Len(Plan) : Plan[k] \in R
  BY <1>1
<1> QED BY <1>2 DEF R, Steps

LEMMA NextStepType == step \in Steps => NextStep \in Steps
<1> DEFINE n == Len(Plan)
<1>1. n \in Nat \ {0}
  BY PlanType
<1> HIDE DEF n
<1>2. \A k \in 1..n : (k % n) + 1 \in 1..n
  BY <1>1
<1> QED BY <1>2 DEF NextStep, Steps, n

LEMMA AnswerType ==
  ASSUME NEW k \in Steps, NEW a \in Answers, NEW fresh \in BOOLEAN
  PROVE  AnswerTo(Plan[k], a, fresh) \in Frame
<1>1. Plan[k].meter \in Meter /\ Plan[k].item \in Item
  BY PlanType
<1>2. a.kind \in {"data", "error", "tiny"} /\ a.value \in Seq(0..255)
  BY AnswersAssumption DEF Answer
<1> QED BY <1>1, <1>2 DEF AnswerTo, Frame

LEMMA ForeignType == ForeignFrame \in Frame /\ ForeignFrame.meter = Other
<1>1. 1 \in Steps
  BY PlanType DEF Steps
<1>2. Plan[1] \in [meter : Meter, item : Item]
  BY <1>1, PlanType
<1>3. /\ [Plan[1] EXCEPT !.meter = Other].meter = Other
      /\ [Plan[1] EXCEPT !.meter = Other].item \in Item
  BY <1>2
<1>4. <<>> \in Seq(0..255)
  OBVIOUS
<1> QED BY <1>3, <1>4 DEF ForeignFrame, AnswerTo, Frame

LEMMA PiecesType ==
  ASSUME NEW P, NEW f,
         [part |-> "head", frame |-> f] \in P, [part |-> "tail", frame |-> f] \in P
  PROVE  PiecesOf(f) \in Seq(P) /\ Len(PiecesOf(f)) = 2
BY DEF PiecesOf

LEMMA FramePieces ==
  ASSUME NEW f \in Frame
  PROVE  /\ [part |-> "head", frame |-> f] \in Piece
         /\ [part |-> "tail", frame |-> f] \in Piece
BY DEF Piece

LEMMA CodeType == \A f, request : Verdict(f, request) \in Code
BY DEF Verdict, Code

LEMMA WithoutType ==
  ASSUME NEW c \in Code \cup {"none"}
  PROVE  Without(c) \in Result /\ Len(Without(c).frames) <= 1 /\ Without(c).frames = <<>>
<1>1. <<>> \in Seq(Frame) /\ 0 \in 0..MaxValue
  BY MaxValueAssumption
<1> QED BY <1>1 DEF Without, Result

\* The bytes cut out for an item are as many as it has, if there are enough.
LEMMA ValueBytesType ==
  ASSUME NEW f \in Frame, NEW n \in Item, Len(f.value) >= Length[n]
  PROVE  ValueBytes(f, n) \in Seq(Byte)
<1>1. f.value \in Seq(Byte) /\ Length[n] \in Nat
  BY LengthAssumption DEF Frame, Byte
<1>2. Length[n] \in 0..Len(f.value)
  BY <1>1
<1> QED BY <1>1, <1>2 DEF ValueBytes

LEMMA Accepted ==
  ASSUME NEW f, NEW request, Verdict(f, request) = "success"
  PROVE  /\ f.meter = request.meter /\ f.item = request.item
         /\ ~(Len(f.value) < Length[request.item])
BY DEF Verdict

LEMMA DecodeValueType ==
  ASSUME NEW raw \in Seq(Byte)
  PROVE  decode_value(raw) \in 0..MaxValue
BY ReversedBytes, DecodeInRange, MaxValueAssumption DEF decode_value, decode_float

LEMMA ResultType ==
  ASSUME NEW f \in Frame, NEW k \in Steps
  PROVE  ResultOf(f, Plan[k]) \in Result /\ Len(ResultOf(f, Plan[k]).frames) <= 1
<1> DEFINE code == Verdict(f, Plan[k])
           value == IF code = "success" THEN decode_value(ValueBytes(f, Plan[k].item)) ELSE 0
<1>1. Plan[k].item \in Item
  BY PlanType
<1>2. code \in Code
  BY CodeType
<1>3. value \in 0..MaxValue
  <2>1. CASE code = "success"
    <3>1. ~(Len(f.value) < Length[Plan[k].item])
      BY <2>1, Accepted
    <3>2. Len(f.value) \in Nat /\ Length[Plan[k].item] \in Nat
      BY <1>1, LengthAssumption DEF Frame
    <3>3. ValueBytes(f, Plan[k].item) \in Seq(Byte)
      BY <1>1, <3>1, <3>2, ValueBytesType
    <3> QED BY <2>1, <3>3, DecodeValueType
  <2>2. CASE code # "success"
    BY <2>2, MaxValueAssumption
  <2> QED BY <2>1, <2>2
<1>4. <<f>> \in Seq(Frame) /\ Len(<<f>>) = 1
  OBVIOUS
<1>5. ResultOf(f, Plan[k]) = [code |-> code, frames |-> <<f>>, value |-> value]
  BY DEF ResultOf
<1> HIDE DEF code, value
<1> QED BY <1>2, <1>3, <1>4, <1>5 DEF Result

(***************************************************************************)
(* Type correctness.                                                       *)
(***************************************************************************)
LEMMA LengthOfBoth ==
  ASSUME NEW s \in Seq(Piece), NEW t \in Seq(Piece)
  PROVE  Len(s \o t) = Len(s) + Len(t)
OBVIOUS

LEMMA InitType == Init => TypeOK
<1> SUFFICES ASSUME Init
             PROVE  TypeOK
  OBVIOUS
<1>1. Len(Plan) \in Steps
  BY PlanType DEF Steps
<1>2. <<>> \in Seq(Piece) /\ Len(<<>> \o <<>>) = 0
  OBVIOUS
<1>3. NoResult \in Result /\ Len(NoResult.frames) <= 1
  BY WithoutType DEF NoResult
<1> QED BY <1>1, <1>2, <1>3, BoundsAssumption DEF Init, TypeOK

\* What Receive finds in the buffer: a frame, or it goes on waiting.
LEMMA Found ==
  ASSUME NEW b \in Seq(Piece), Decodable(b)
  PROVE  /\ b[1] \in [part : {"head", "tail"}, frame : Frame]
         /\ b[1].frame \in Frame /\ 1 \in DOMAIN b /\ ~IsNoise(b[1])
         /\ 3 \in Nat /\ Len(b) \in Nat
<1>1. Len(b) \in Nat /\ Len(b) >= 2 /\ b[1].part = "head"
  BY DEF Decodable
<1>2. b[1] \in Piece /\ 1 \in DOMAIN b
  BY <1>1
<1>3. ~IsNoise(b[1])
  BY <1>1 DEF IsNoise
<1> QED BY <1>1, <1>2, <1>3, PartOfPiece

LEMMA Waiting ==
  ASSUME NEW P, P \subseteq Piece, Noise \in P, NEW b \in Seq(P), NEW kept,
         kept = b \/ (Oversized(b) /\ kept = Trimmed(b))
  PROVE  kept \in Seq(P)
<1>1. Oversized(b) => b # <<>>
  BY DEF Oversized
<1> QED BY <1>1, TrimmedKeeps

LEMMA NextType == TypeOK /\ [Next]_vars => TypeOK'
<1> SUFFICES ASSUME TypeOK, [Next]_vars
             PROVE  TypeOK'
  OBVIOUS
<1>0. /\ step \in Steps /\ NextStep \in Steps
      /\ buf \in Seq(Piece) /\ kernel \in Seq(Piece) /\ wire \in Seq(Piece)
      /\ Len(kernel) + Len(wire) <= MaxPieces /\ MaxPieces \in Nat
      /\ Len(kernel) \in Nat /\ Len(wire) \in Nat
  BY NextStepType, LengthOfBoth, BoundsAssumption DEF TypeOK
<1>1. ASSUME NewRequest PROVE step' \in Steps /\ buf' \in Seq(Piece) /\ kernel' \in Seq(Piece)
                              /\ quiet' \in BOOLEAN /\ Len(kernel') = Len(kernel)
  <2>1. <<>> \in Seq(Piece)
    OBVIOUS
  <2> QED BY <1>0, <1>1, <2>1, AgedKeeps DEF NewRequest
<1>2. Aged(wire) \in Seq(Piece) /\ Len(Aged(wire)) = Len(wire)
  BY <1>0, AgedKeeps
<1>3. CASE Send
  <2>1. wire' \in Seq(Piece) /\ Len(kernel) + Len(wire') <= MaxPieces
    <3>1. CASE wire' = Aged(wire)
      BY <1>0, <1>2, <3>1
    <3>2. CASE \E a \in Answers :
                 /\ Len(kernel \o wire) + 2 <= MaxPieces
                 /\ wire' = Aged(wire) \o PiecesOf(AnswerTo(Plan[NextStep], a, TRUE))
      <4>1. PICK a \in Answers :
                 /\ Len(kernel) + Len(wire) + 2 <= MaxPieces
                 /\ wire' = Aged(wire) \o PiecesOf(AnswerTo(Plan[NextStep], a, TRUE))
        BY <1>0, <3>2, LengthOfBoth
      <4> DEFINE new == PiecesOf(AnswerTo(Plan[NextStep], a, TRUE))
      <4>2. new \in Seq(Piece) /\ Len(new) = 2
        BY <1>0, AnswerType, FramePieces, PiecesType
      <4>3. wire' = Aged(wire) \o new
        BY <4>1
      <4> HIDE DEF new
      <4>4. wire' \in Seq(Piece) /\ Len(wire') = Len(wire) + 2
        <5>1. Aged(wire) \o new \in Seq(Piece)
          BY <1>2, <4>2
        <5>2. Len(Aged(wire) \o new) = Len(Aged(wire)) + Len(new)
          BY <1>2, <4>2, LengthOfBoth
        <5> QED BY <1>2, <4>2, <4>3, <5>1, <5>2
      <4>5. Len(kernel) + Len(wire) + 2 <= MaxPieces
        BY <4>1
      <4>6. Len(wire) \in Nat /\ Len(kernel) \in Nat /\ MaxPieces \in Nat
        BY <1>0
      <4>7. Len(kernel) + Len(wire') <= MaxPieces
        BY <4>4, <4>5, <4>6
      <4> QED BY <4>4, <4>7
    <3> QED BY <1>3, <3>1, <3>2 DEF Send
  <2>2. last' \in Result /\ Len(last'.frames) <= 1
    BY <1>3, WithoutType DEF Send, NoResult
  <2>3. NewRequest /\ pc' = "receive"
    BY <1>3 DEF Send
  <2>4. Len(kernel' \o wire') <= MaxPieces
    BY <1>1, <2>1, <2>3, LengthOfBoth
  <2> QED BY <1>1, <2>1, <2>2, <2>3, <2>4 DEF TypeOK
<1>4. CASE SendFails
  <2>1. wire' = Aged(wire) /\ NewRequest /\ pc' = pc
    BY <1>4 DEF SendFails
  <2>2. last' \in Result /\ Len(last'.frames) <= 1
    BY <1>4, WithoutType DEF SendFails, Code
  <2>3. Len(kernel' \o wire') <= MaxPieces
    BY <1>0, <1>1, <1>2, <2>1, LengthOfBoth
  <2> QED BY <1>1, <1>2, <2>1, <2>2, <2>3 DEF TypeOK
<1>5. CASE Receive
  <2> DEFINE b == Joined(buf, kernel)
  <2>1. b \in Seq(Piece)
    BY <1>0, JoinedKeeps
  <2>2. /\ kernel' = <<>> /\ UNCHANGED <<step, wire, quiet>>
        /\ \/ /\ Decodable(b) /\ buf' = SubSeq(b, 3, Len(b)) /\ pc' = "idle"
              /\ last' = ResultOf(b[1].frame, Plan[step])
           \/ /\ buf' = b \/ (Oversized(b) /\ buf' = Trimmed(b))
              /\ UNCHANGED <<last, pc>>
    BY <1>5 DEF Receive
  <2> HIDE DEF b
  <2>3. kernel' \in Seq(Piece) /\ Len(kernel' \o wire') <= MaxPieces
    BY <1>0, <2>2
  <2>4. CASE Decodable(b) /\ buf' = SubSeq(b, 3, Len(b)) /\ pc' = "idle"
              /\ last' = ResultOf(b[1].frame, Plan[step])
    <3>1. buf' \in Seq(Piece)
      BY <2>1, <2>4
    <3>2. last' \in Result /\ Len(last'.frames) <= 1
      BY <1>0, <2>1, <2>4, Found, ResultType
    <3> QED BY <2>2, <2>3, <2>4, <3>1, <3>2 DEF TypeOK
  <2>5. CASE (buf' = b \/ (Oversized(b) /\ buf' = Trimmed(b))) /\ UNCHANGED <<last, pc>>
    <3>1. buf' \in Seq(Piece)
      BY <2>1, <2>5, NoiseIsPiece, Waiting
    <3> QED BY <2>2, <2>3, <2>5, <3>1 DEF TypeOK
  <2> QED BY <2>2, <2>4, <2>5
<1>6. CASE Timeout
  <2>1. last' \in Result /\ Len(last'.frames) <= 1
    BY <1>6, WithoutType DEF Timeout, Code
  <2> QED BY <1>6, <2>1 DEF Timeout, TypeOK
<1>7. CASE Arrive
  <2>1. /\ wire' = Tail(wire) /\ kernel' = Append(kernel, Head(wire)) /\ wire # <<>>
        /\ UNCHANGED <<pc, step, buf, last, quiet>>
    BY <1>7 DEF Arrive
  <2>2. wire' \in Seq(Piece) /\ Len(wire') = Len(wire) - 1 /\ Head(wire) \in Piece
    BY <1>0, <2>1
  <2>3. kernel' \in Seq(Piece) /\ Len(kernel') = Len(kernel) + 1
    BY <1>0, <2>1, <2>2
  <2>4. Len(kernel' \o wire') <= MaxPieces
    BY <1>0, <2>2, <2>3, LengthOfBoth
  <2> QED BY <2>1, <2>2, <2>3, <2>4 DEF TypeOK
<1>8. CASE Garble \/ NoiseBurst
  <2>1. <<Noise>> \in Seq(Piece) /\ Len(<<Noise>>) = 1
    BY NoiseIsPiece
  <2>2. kernel' = Joined(kernel, <<Noise>>) /\ UNCHANGED <<pc, step, buf, last, quiet>>
    BY <1>8 DEF Garble, NoiseBurst
  <2>3. kernel' \in Seq(Piece) /\ Len(kernel') <= Len(kernel) + 1
    BY <1>0, <2>1, <2>2, JoinedKeeps
  <2>4. wire' \in Seq(Piece) /\ Len(kernel) + Len(wire') < MaxPieces
    <3>1. CASE Garble
      <4>1. wire' = Tail(wire) /\ wire # <<>>
        BY <3>1 DEF Garble
      <4>2. wire' \in Seq(Piece) /\ Len(wire') = Len(wire) - 1
        BY <1>0, <4>1
      <4> QED BY <1>0, <4>2
    <3>2. CASE NoiseBurst
      BY <1>0, <3>2, LengthOfBoth DEF NoiseBurst
    <3> QED BY <1>8, <3>1, <3>2
  <2>5. Len(kernel' \o wire') <= MaxPieces
    <3>1. Len(kernel') \in Nat /\ Len(wire') \in Nat
      BY <2>3, <2>4
    <3> QED BY <1>0, <2>3, <2>4, <3>1, LengthOfBoth
  <2> QED BY <2>2, <2>3, <2>4, <2>5 DEF TypeOK
<1>9. CASE Crosstalk
  <2> DEFINE new == PiecesOf(ForeignFrame)
  <2>1. /\ wire' = wire \o new /\ UNCHANGED <<pc, step, buf, kernel, last, quiet>>
        /\ Len(kernel \o wire) + 2 <= MaxPieces
    BY <1>9 DEF Crosstalk
  <2>2. new \in Seq(Piece) /\ Len(new) = 2
    BY ForeignType, FramePieces, PiecesType
  <2> HIDE DEF new
  <2>3. wire' \in Seq(Piece) /\ Len(wire') = Len(wire) + 2
    <3>1. wire \o new \in Seq(Piece)
      BY <1>0, <2>2
    <3>2. Len(wire \o new) = Len(wire) + Len(new)
      BY <1>0, <2>2, LengthOfBoth
    <3> QED BY <2>1, <2>2, <3>1, <3>2
  <2>4. Len(kernel' \o wire') <= MaxPieces
    BY <1>0, <2>1, <2>3, LengthOfBoth
  <2> QED BY <2>1, <2>3, <2>4 DEF TypeOK
<1>10. CASE UNCHANGED vars
  BY <1>10 DEF vars, TypeOK
<1> QED BY <1>3, <1>4, <1>5, <1>6, <1>7, <1>8, <1>9, <1>10 DEF Next

\* The state keeps its type for every plan, and what read_data() returns is a
\* number the integer of the codec can hold.
THEOREM ReaderType == Spec => []TypeOK
BY InitType, NextType, PTL DEF Spec

(***************************************************************************)
(* Exact readings.  While a read that started on a quiet line waits, every *)
(* answer on its way is the one to its own request.                        *)
(***************************************************************************)
Current(f) == f.fresh /\ f.meter = Plan[step].meter /\ f.item = Plan[step].item

Allowed == {p \in Piece : IsAnswer(p) => Current(p.frame)}

Clear ==
  pc = "receive" =>
    /\ last = NoResult
    /\ quiet => buf \in Seq(Allowed) /\ kernel \in Seq(Allowed) /\ wire \in Seq(Allowed)

Judged == last.frames # <<>> \/ last.code = "success"

Exact ==
  Judged =>
    \E f \in Frame : /\ last = ResultOf(f, Plan[step])
                     /\ quiet /\ f.meter # Other => Current(f)

LEMMA AllowedPieces == Allowed \subseteq Piece /\ Harmless \subseteq Allowed /\ Noise \in Allowed
BY NoiseIsPiece DEF Allowed, Harmless, IsAnswer

LEMMA EmptyAllowed == \A P : <<>> \in Seq(P)
OBVIOUS

LEMMA InitExact == Init => Clear /\ Exact
BY DEF Init, Clear, Exact, Judged, NoResult, Without

\* The request starts the read with a line that is clear, if it is quiet.
LEMMA SendClear ==
  ASSUME TypeOK, Send, quiet'
  PROVE  buf' \in Seq(Allowed') /\ kernel' \in Seq(Allowed') /\ wire' \in Seq(Allowed')
<1>0. /\ step \in Steps /\ NextStep \in Steps /\ step' = NextStep
      /\ kernel \in Seq(Piece) /\ wire \in Seq(Piece)
      /\ buf' = <<>> /\ kernel' = Aged(kernel)
      /\ ~Carries(kernel \o wire)
  BY NextStepType DEF TypeOK, Send, NewRequest
<1>1. ~Carries(kernel) /\ ~Carries(wire)
  BY <1>0, CarriesParts
<1>2. Harmless \subseteq Allowed'
  BY DEF Harmless, Allowed
<1>3. Aged(kernel) \in Seq(Allowed') /\ Aged(wire) \in Seq(Allowed')
  BY <1>0, <1>1, <1>2, AgedHarmless, Subsequence
<1>4. wire' \in Seq(Allowed')
  <2>1. CASE wire' = Aged(wire)
    BY <1>3, <2>1
  <2>2. CASE \E a \in Answers :
               wire' = Aged(wire) \o PiecesOf(AnswerTo(Plan[NextStep], a, TRUE))
    <3>1. PICK a \in Answers :
               wire' = Aged(wire) \o PiecesOf(AnswerTo(Plan[NextStep], a, TRUE))
      BY <2>2
    <3> DEFINE f == AnswerTo(Plan[NextStep], a, TRUE)
    <3>2. f \in Frame
      BY <1>0, AnswerType
    <3>3. f.fresh /\ f.meter = Plan[step'].meter /\ f.item = Plan[step'].item
      BY <1>0 DEF AnswerTo
    <3>4. wire' = Aged(wire) \o PiecesOf(f)
      BY <3>1
    <3> HIDE DEF f
    <3>5. [part |-> "head", frame |-> f] \in Allowed' /\ [part |-> "tail", frame |-> f] \in Allowed'
      BY <3>2, <3>3, FramePieces DEF Allowed, Current
    <3>6. PiecesOf(f) \in Seq(Allowed')
      BY <3>5, PiecesType
    <3> QED BY <1>3, <3>4, <3>6
  <2> QED BY <2>1, <2>2 DEF Send
<1> QED BY <1>0, <1>3, <1>4, EmptyAllowed

\* A step that leaves request and answer alone keeps what Exact says.
LEMMA ExactKept ==
  ASSUME Exact, UNCHANGED <<step, last, quiet>>
  PROVE  Exact'
BY DEF Exact, Judged, Current

LEMMA NextExact == TypeOK /\ Clear /\ Exact /\ [Next]_vars => Clear' /\ Exact'
<1> SUFFICES ASSUME TypeOK, Clear, Exact, [Next]_vars
             PROVE  Clear' /\ Exact'
  OBVIOUS
<1>1. CASE Send
  <2>1. last' = NoResult /\ ~Judged'
    BY <1>1 DEF Send, NoResult, Without, Judged
  <2> QED BY <1>1, <2>1, SendClear DEF Clear, Exact
<1>2. CASE SendFails
  <2>1. pc = "idle" /\ pc' = pc /\ ~Judged'
    BY <1>2 DEF SendFails, NewRequest, Without, Judged
  <2> QED BY <2>1 DEF Clear, Exact
<1>3. CASE Receive
  <2> DEFINE b == Joined(buf, kernel)
  <2>1. b \in Seq(Piece)
    BY JoinedKeeps DEF TypeOK
  <2>2. quiet => b \in Seq(Allowed)
    BY <1>3, JoinedKeeps DEF Receive, Clear
  <2>3. /\ pc = "receive" /\ kernel' = <<>> /\ UNCHANGED <<step, wire, quiet>>
        /\ \/ /\ Decodable(b) /\ pc' = "idle"
              /\ last' = ResultOf(b[1].frame, Plan[step])
           \/ /\ buf' = b \/ (Oversized(b) /\ buf' = Trimmed(b))
              /\ UNCHANGED <<last, pc>>
    BY <1>3 DEF Receive
  <2>4. Allowed' = Allowed
    BY <2>3 DEF Allowed, Current
  <2> HIDE DEF b
  <2>5. CASE Decodable(b) /\ pc' = "idle" /\ last' = ResultOf(b[1].frame, Plan[step])
    <3>1. b[1].frame \in Frame /\ 1 \in DOMAIN b /\ ~IsNoise(b[1])
      BY <2>1, <2>5, Found
    <3>2. ASSUME quiet, b[1].frame.meter # Other PROVE Current(b[1].frame)
      <4>1. b[1] \in Allowed
        BY <2>2, <3>1, <3>2
      <4>2. IsAnswer(b[1])
        BY <3>1, <3>2 DEF IsAnswer
      <4> QED BY <4>1, <4>2 DEF Allowed
    <3> DEFINE f == b[1].frame
    <3>3. f \in Frame /\ last' = ResultOf(f, Plan[step]) /\ (quiet /\ f.meter # Other => Current(f))
      BY <2>5, <3>1, <3>2
    <3> HIDE DEF f
    <3>4. Exact'
      BY <2>3, <3>3 DEF Exact, Current
    <3>5. Clear'
      BY <2>5 DEF Clear
    <3> QED BY <3>4, <3>5
  <2>6. CASE (buf' = b \/ (Oversized(b) /\ buf' = Trimmed(b))) /\ UNCHANGED <<last, pc>>
    <3>1. quiet => buf' \in Seq(Allowed)
      BY <2>2, <2>6, AllowedPieces, Waiting
    <3>2. Clear'
      BY <2>3, <2>4, <2>6, <3>1, EmptyAllowed DEF Clear
    <3>3. Exact'
      BY <2>3, <2>6, ExactKept
    <3> QED BY <3>2, <3>3
  <2> QED BY <2>3, <2>5, <2>6
<1>4. CASE Timeout
  <2>1. pc' = "idle" /\ ~Judged'
    BY <1>4 DEF Timeout, Without, Judged
  <2> QED BY <2>1 DEF Clear, Exact
<1>5. CASE Arrive \/ Garble \/ NoiseBurst \/ Crosstalk
  <2>1. UNCHANGED <<pc, step, buf, last, quiet>>
    BY <1>5 DEF Arrive, Garble, NoiseBurst, Crosstalk
  <2>2. Exact'
    BY <2>1, ExactKept
  <2>3. Allowed' = Allowed
    BY <2>1 DEF Allowed, Current
  <2>4. ASSUME kernel \in Seq(Allowed), wire \in Seq(Allowed)
        PROVE  kernel' \in Seq(Allowed) /\ wire' \in Seq(Allowed)
    <3>1. <<Noise>> \in Seq(Allowed)
      BY AllowedPieces
    <3>2. Joined(kernel, <<Noise>>) \in Seq(Allowed)
      BY <2>4, <3>1, JoinedKeeps
    <3>3. wire # <<>> => Tail(wire) \in Seq(Allowed) /\ Head(wire) \in Allowed
      BY <2>4
    <3>4. CASE Arrive
      BY <2>4, <3>3, <3>4 DEF Arrive
    <3>5. CASE Garble \/ NoiseBurst
      BY <2>4, <3>2, <3>3, <3>5 DEF Garble, NoiseBurst
    <3>6. CASE Crosstalk
      <4>1. ForeignFrame \in Frame /\ ForeignFrame.meter = Other
        BY ForeignType
      <4>2. /\ [part |-> "head", frame |-> ForeignFrame] \in Allowed
            /\ [part |-> "tail", frame |-> ForeignFrame] \in Allowed
        BY <4>1, FramePieces DEF Allowed, IsAnswer
      <4>3. PiecesOf(ForeignFrame) \in Seq(Allowed)
        BY <4>2, PiecesType
      <4>4. wire \o PiecesOf(ForeignFrame) \in Seq(Allowed)
        BY <2>4, <4>3
      <4> QED BY <2>4, <3>6, <4>4 DEF Crosstalk
    <3> QED BY <1>5, <3>4, <3>5, <3>6
  <2>5. Clear'
    BY <2>1, <2>3, <2>4 DEF Clear
  <2> QED BY <2>2, <2>5
<1>6. CASE UNCHANGED vars
  <2>1. UNCHANGED <<pc, step, buf, kernel, wire, last, quiet>>
    BY <1>6 DEF vars
  <2>2. Allowed' = Allowed
    BY <2>1 DEF Allowed, Current
  <2>3. Exact'
    BY <2>1, ExactKept
  <2> QED BY <2>1, <2>2, <2>3 DEF Clear
<1> QED BY <1>1, <1>2, <1>3, <1>4, <1>5, <1>6 DEF Next

LEMMA SpecExact == Spec => [](TypeOK /\ Clear /\ Exact)
BY InitType, NextType, InitExact, NextExact, PTL DEF Spec

\* For every plan of requests to any number of meters, whatever they answer
\* and whatever the line does to it, a read that starts on a quiet line looks at
\* no other meter's answer and at no other request's.
THEOREM QuietReadsExact == Spec => []QuietStartIsExact
<1>1. TypeOK /\ Exact => QuietStartIsExact
  <2> SUFFICES ASSUME Exact, quiet, last.frames # <<>>, last.frames[1].meter # Other
               PROVE  /\ last.frames[1].fresh
                      /\ last.code # "addressMismatch"
                      /\ last.code = "dataMismatch" => last.frames[1].kind = "tiny"
    BY DEF QuietStartIsExact
  <2>1. PICK f \in Frame : /\ last = ResultOf(f, Plan[step])
                           /\ quiet /\ f.meter # Other => Current(f)
    BY DEF Exact, Judged
  <2>0. last = ResultOf(f, Plan[step]) /\ f \in Frame
    BY <2>1
  <2>2. last.frames[1] = f /\ last.code = Verdict(f, Plan[step])
    BY <2>0 DEF ResultOf
  <2>3. f.fresh /\ f.meter = Plan[step].meter /\ f.item = Plan[step].item
    BY <2>1, <2>2 DEF Current
  <2> QED BY <2>2, <2>3 DEF Verdict
<1> QED BY <1>1, SpecExact, PTL

LEMMA NothingIsZero == decode_value(<<>>) = 0 /\ Number(Reversed(<<>>)) = 0
<1>1. <<>> \in Seq(Byte) /\ Reversed(<<>>) = <<>>
  BY DEF Reversed
<1>2. PICK p : IsNumbering(p, <<>>) /\ Number(<<>>) = p[0]
  BY <1>1, NumberLoop
<1> QED BY <1>1, <1>2 DEF decode_value, IsNumbering

\* The number a read returns is what the meter asked sent for the item asked for:
\* its decimal digits, whatever the width of the codec's integer, if the number
\* fits in it, and 0 for what are no decimal digits.
THEOREM ReadingsExact == Spec => []ReadingIsExact
<1>1. TypeOK /\ Exact => ReadingIsExact
  <2> SUFFICES ASSUME TypeOK, Exact, last.code = "success",
                      NEW raw, raw = ValueBytes(last.frames[1], Plan[step].item)
               PROVE  /\ last.frames[1].meter = Plan[step].meter
                      /\ last.frames[1].item = Plan[step].item
                      /\ quiet => last.frames[1].fresh
                      /\ AllBcd(raw) /\ Number(Reversed(raw)) <= MaxValue =>
                           last.value = Number(Reversed(raw))
                      /\ ~AllBcd(raw) => last.value = 0
    BY DEF ReadingIsExact
  <2> DEFINE n == Plan[step].item
  <2>1. PICK f \in Frame : /\ last = ResultOf(f, Plan[step])
                           /\ quiet /\ f.meter # Other => Current(f)
    BY DEF Exact, Judged
  <2>0. last = ResultOf(f, Plan[step]) /\ f \in Frame
    BY <2>1
  <2>2. last.frames[1] = f /\ Verdict(f, Plan[step]) = "success"
    BY <2>0 DEF ResultOf
  <2>3. f.meter = Plan[step].meter /\ f.item = n /\ ~(Len(f.value) < Length[n])
    BY <2>2, Accepted
  <2>4. Plan[step].meter \in Meter /\ n \in Item
    BY PlanType DEF TypeOK
  <2>5. quiet => f.fresh
    <3>1. f.meter # Other
      BY <2>3, <2>4, PlanAssumption
    <3> QED BY <2>1, <3>1 DEF Current
  <2>6. raw = ValueBytes(f, n) /\ last.value = decode_value(raw)
    BY <2>0, <2>2 DEF ResultOf
  <2>7. raw \in Seq(Byte)
    <3>1. Len(f.value) \in Nat /\ Length[n] \in Nat
      BY <2>4, LengthAssumption DEF Frame
    <3> QED BY <2>3, <2>4, <2>6, <3>1, ValueBytesType
  <2>8. AllBcd(raw) /\ Number(Reversed(raw)) <= MaxValue => last.value = Number(Reversed(raw))
    <3>1. CASE raw = <<>>
      BY <2>6, <3>1, NothingIsZero
    <3>2. CASE raw # <<>>
      BY <2>6, <2>7, <3>2, ValueExact
    <3> QED BY <3>1, <3>2
  <2>9. ASSUME ~AllBcd(raw) PROVE last.value = 0
    <3>1. raw # <<>> /\ Reversed(raw) \in Seq(Byte) /\ ~AllBcd(Reversed(raw))
      BY <2>7, <2>9, ReversedBytes DEF AllBcd
    <3>2. decode(Reversed(raw)) = 0
      BY <3>1, NotBcdIsZero
    <3> QED BY <2>6, <3>1, <3>2 DEF decode_value, decode_float
  <2> QED BY <2>2, <2>3, <2>5, <2>8, <2>9
<1> QED BY <1>1, SpecExact, PTL
=============================================================================
