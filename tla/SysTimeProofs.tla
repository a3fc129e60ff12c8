---------------------------- MODULE SysTimeProofs ----------------------------
(***************************************************************************)
(* Proofs about SysTime, for any values of the fields: why two readings    *)
(* that agree are the registers of one second, though the chip may update  *)
(* them in the middle of either.                                           *)
(***************************************************************************)
EXTENDS SysTime, SequenceTheorems, TLAPS

----------------------------------------------------------------------------
(* The inductive invariant                                                 *)

Readings == [DOMAIN Values -> Nat]

\* Each field has a value of its own.
IsTime(t) ==
  /\ t \in [DOMAIN Values -> 0 .. 99]
  /\ \A f \in DOMAIN Values : t[f] \in ValuesOf(f)

Suffix(s) == \E i \in 1 .. 7 : s = SubSeq(Fields, i, Len(Fields))

Whole(r, t) == \A f \in DOMAIN Values : r[f] = Register(t, f)

Types ==
  /\ mode \in Modes /\ IsTime(now) /\ IsTime(prev)
  /\ chip \in {"quiet", "announced", "updating"}
  /\ pc \in {"idle", "poll", "read"}
  /\ Suffix(todo)
  /\ again \in BOOLEAN /\ since \in 0 .. Gap
  /\ systime \in Readings /\ reading \in Readings

\* What has been read so far of the present time.
Clean == \A f \in DOMAIN Values : f \in ToSet(todo) \/ reading[f] = Register(now, f)

\* Of two updates in the course of a call a whole reading lies in between.
Apart ==
  /\ chip # "quiet" /\ pc # "idle" => since <= 1
  /\ chip # "quiet" /\ pc = "read" => since = 0

\* The reading before is of one second, unless the update it met is the last.
LastReading ==
  again => \/ since = 1
           \/ Whole(systime, now)
           \/ since = 0 /\ chip = "quiet" /\ Whole(systime, prev)

SysInv ==
  /\ Types
  /\ Apart
  /\ pc # "idle" => LastReading
  /\ pc = "read" => Clean \/ (since = 0 /\ chip # "announced")

----------------------------------------------------------------------------
(* Fields, times and registers                                             *)

LEMMA FieldNames ==
  /\ DOMAIN Values = {"second", "minute", "hour", "day", "month", "year"}
  /\ Len(Fields) = 6 /\ Fields \in Seq(DOMAIN Values)
<1>1. /\ Len(Fields) = 6 /\ DOMAIN Fields = 1 .. 6
      /\ Fields[1] = "second" /\ Fields[2] = "minute" /\ Fields[3] = "hour"
      /\ Fields[4] = "day" /\ Fields[5] = "month" /\ Fields[6] = "year"
  BY DEF Fields
<1>2. ToSet(Fields) = {"second", "minute", "hour", "day", "month", "year"}
  <2>1. ASSUME NEW i \in 1 .. 6
        PROVE  Fields[i] \in {"second", "minute", "hour", "day", "month", "year"}
    <3>1. i = 1 \/ i = 2 \/ i = 3 \/ i = 4 \/ i = 5 \/ i = 6
      OBVIOUS
    <3> QED
      BY <1>1, <3>1
  <2> QED
    BY <1>1, <2>1 DEF ToSet
<1>3. DOMAIN Values = ToSet(Fields)
  BY ClockAssumption
<1>4. Fields \in Seq({"second", "minute", "hour", "day", "month", "year"})
  BY DEF Fields
<1> QED
  BY <1>1, <1>2, <1>3, <1>4

LEMMA Elements ==
  ASSUME NEW S, NEW s \in Seq(S)
  PROVE  /\ Len(s) \in Nat /\ DOMAIN s = 1 .. Len(s)
         /\ \A i \in 1 .. Len(s) : s[i] \in S
         /\ \A x : x \in ToSet(s) <=> \E i \in 1 .. Len(s) : x = s[i]
         /\ ToSet(s) \subseteq S
<1>1. Len(s) \in Nat /\ s \in [1 .. Len(s) -> S]
  BY ElementOfSeq, LenProperties
<1>2. DOMAIN s = 1 .. Len(s) /\ \A i \in 1 .. Len(s) : s[i] \in S
  BY <1>1
<1>3. \A x : x \in ToSet(s) <=> \E i \in 1 .. Len(s) : x = s[i]
  BY <1>2 DEF ToSet
<1> QED
  BY <1>1, <1>2, <1>3, Zenon

LEMMA FirstAndRest ==
  ASSUME NEW S, NEW s \in Seq(S), s # <<>>
  PROVE  /\ Head(s) \in S /\ Tail(s) \in Seq(S)
         /\ ToSet(s) = {Head(s)} \cup ToSet(Tail(s))
<1>1. /\ Head(s) \in S /\ Tail(s) \in Seq(S) /\ Head(s) = s[1]
      /\ Len(s) \in Nat \ {0} /\ Len(Tail(s)) = Len(s) - 1
      /\ \A j \in 1 .. Len(Tail(s)) : Tail(s)[j] = s[j + 1]
  BY HeadTailProperties, LenProperties, EmptySeq
<1>2. Tail(s) \in Seq(S)
  BY <1>1
<1>3. \A x : x \in ToSet(Tail(s)) <=> \E i \in 1 .. Len(Tail(s)) : x = Tail(s)[i]
  BY <1>2, Elements, Zenon
<1>4. ASSUME NEW x \in ToSet(s)
      PROVE  x = Head(s) \/ x \in ToSet(Tail(s))
  <2>1. PICK j \in 1 .. Len(s) : x = s[j]
    BY Elements, Zenon
  <2>2. CASE j = 1
    BY <1>1, <2>1, <2>2
  <2>3. CASE j # 1
    <3>1. j - 1 \in 1 .. Len(Tail(s)) /\ x = Tail(s)[j - 1]
      BY <1>1, <2>1, <2>3
    <3> QED
      BY <1>3, <3>1, Zenon
  <2> QED
    BY <2>2, <2>3
<1>5. ASSUME NEW x \in ToSet(Tail(s))
      PROVE  x \in ToSet(s)
  <2>1. PICK j \in 1 .. Len(Tail(s)) : x = Tail(s)[j]
    BY <1>3, Zenon
  <2>2. j + 1 \in 1 .. Len(s) /\ x = s[j + 1]
    BY <1>1, <2>1
  <2> QED
    BY <2>2, Elements, Zenon
<1>6. Head(s) \in ToSet(s)
  <2>1. 1 \in 1 .. Len(s)
    BY <1>1
  <2> QED
    BY <1>1, <2>1, Elements, Zenon
<1> QED
  BY <1>1, <1>4, <1>5, <1>6

\* What is left to read, after the next field.
Left(i) == SubSeq(Fields, i, 6)

LEMMA Rest ==
  ASSUME NEW i \in 1 .. 7, Left(i) # <<>>
  PROVE  /\ i + 1 \in 1 .. 7
         /\ Left(i) \in Seq(DOMAIN Values) /\ Tail(Left(i)) = Left(i + 1)
<1>1. i = 1 \/ i = 2 \/ i = 3 \/ i = 4 \/ i = 5 \/ i = 6 \/ i = 7
  OBVIOUS
<1>2. Left(7) = <<>>
  BY DEF Left, Fields
<1>3. i \in 1 .. 6
  BY <1>1, <1>2
<1>4. /\ 6 \in i .. Len(Fields) /\ i \in 1 .. Len(Fields)
      /\ \A j \in i .. 6 : Fields[j] \in DOMAIN Values
  <2>1. \A j \in 1 .. Len(Fields) : Fields[j] \in DOMAIN Values
    BY FieldNames, Elements, Zenon
  <2> QED
    BY <1>3, <2>1, FieldNames
<1>5. Tail(Left(i)) = Left(i + 1)
  BY <1>4, FieldNames, HeadTailOfSubSeq, Zenon DEF Left
<1>6. Left(i) \in Seq(DOMAIN Values)
  BY <1>4, SubSeqProperties DEF Left
<1> QED
  BY <1>3, <1>5, <1>6

LEMMA ValueRange ==
  ASSUME NEW f \in DOMAIN Values
  PROVE  /\ Values[f] \in Seq(0 .. 99) /\ Len(Values[f]) \in Nat /\ Len(Values[f]) >= 1
         /\ FirstOf(f) \in ValuesOf(f) /\ LastOf(f) \in ValuesOf(f)
         /\ ValuesOf(f) \subseteq 0 .. 99
<1>1. Values[f] \in Seq(0 .. 99) /\ Values[f] # <<>>
  BY ClockAssumption
<1>2. Len(Values[f]) \in Nat /\ Len(Values[f]) >= 1
  BY <1>1, EmptySeq, LenProperties
<1>3. ToSet(Values[f]) \subseteq 0 .. 99
      /\ \A i \in 1 .. Len(Values[f]) : Values[f][i] \in ToSet(Values[f])
  BY <1>1, Elements, Zenon
<1>4. FirstOf(f) = Values[f][1] /\ LastOf(f) = Values[f][Len(Values[f])]
  BY <1>1 DEF FirstOf, LastOf, Last
<1>5. 1 \in 1 .. Len(Values[f]) /\ Len(Values[f]) \in 1 .. Len(Values[f])
  BY <1>2
<1> QED
  BY <1>1, <1>2, <1>3, <1>4, <1>5 DEF ValuesOf

LEMMA Hours == ValuesOf("hour") \subseteq 0 .. 23
BY ClockAssumption, Elements, Zenon DEF ValuesOf

LEMMA TimesAreTimes ==
  ASSUME NEW t \in Times
  PROVE  IsTime(t)
<1>1. DOMAIN t = DOMAIN Values
  BY FieldNames DEF Times
<1>2. ASSUME NEW f \in DOMAIN Values PROVE t[f] \in ValuesOf(f)
  BY FieldNames DEF Times
<1>3. t = [f \in DOMAIN t |-> t[f]]
  BY DEF Times
<1>4. \A f \in DOMAIN Values : t[f] \in 0 .. 99
  BY <1>2, ValueRange
<1>5. t \in [DOMAIN Values -> 0 .. 99]
  BY <1>1, <1>3, <1>4
<1> QED
  BY <1>2, <1>5 DEF IsTime

LEMMA NextIsValue ==
  ASSUME NEW f \in DOMAIN Values, NEW v \in ValuesOf(f), v # LastOf(f)
  PROVE  NextValue(f, v) \in ValuesOf(f)
<1> DEFINE n == Len(Values[f])
           P(i) == Values[f][i] = v
<1>1. /\ n \in Nat /\ n >= 1 /\ LastOf(f) = Values[f][n]
      /\ \A x : x \in ValuesOf(f) <=> \E i \in 1 .. n : x = Values[f][i]
  <2>1. Values[f] \in Seq(0 .. 99) /\ n \in Nat /\ n >= 1
    BY ValueRange
  <2>2. \A x : x \in ValuesOf(f) <=> \E i \in 1 .. n : x = Values[f][i]
    BY <2>1, Elements, Zenon DEF ValuesOf
  <2> QED
    BY <2>1, <2>2 DEF LastOf, Last
<1>2. PICK j \in 1 .. n : v = Values[f][j]
  BY <1>1, Zenon
<1>3. j \in 1 .. n - 1
  BY <1>1, <1>2
<1>4. (CHOOSE i \in 1 .. n - 1 : P(i)) \in 1 .. n - 1
  <2>1. \E i \in 1 .. n - 1 : P(i)
    BY <1>2, <1>3
  <2> HIDE DEF P
  <2> QED
    BY <2>1
<1>5. 1 + (CHOOSE i \in 1 .. n - 1 : P(i)) \in 1 .. n
  BY <1>1, <1>4
<1> QED
  BY <1>1, <1>5, Zenon DEF NextValue

\* The binary value of what a register shows is the value of the field.
LEMMA BinaryOfEncoded ==
  ASSUME NEW x \in 0 .. 99
  PROVE  Encoded(x) \in 0 .. 153 /\ Binary(Encoded(x)) = x
<1>1. PICK q \in 0 .. 9, r \in 0 .. 9 : x = 10 * q + r /\ x \div 10 = q /\ x % 10 = r
  <2>1. x \div 10 \in 0 .. 9 /\ x % 10 \in 0 .. 9 /\ x = 10 * (x \div 10) + (x % 10)
    OBVIOUS
  <2> QED
    BY <2>1
<1>2. Bcd(x) = 16 * q + r
  BY <1>1 DEF Bcd
<1>3. (16 * q + r) % 16 = r /\ (16 * q + r) \div 16 = q
  OBVIOUS
<1>4. CASE mode.binary
  BY <1>4 DEF Encoded, Binary
<1>5. CASE ~mode.binary
  BY <1>1, <1>2, <1>3, <1>5 DEF Encoded, Binary
<1> QED
  BY <1>4, <1>5

LEMMA HourRegister ==
  ASSUME NEW x \in 0 .. 23
  PROVE  Encoded(x) \in 0 .. 127 /\ Encoded(x) % 128 = Encoded(x) /\ Encoded(x) < 128
<1>1. Bcd(x) \in 0 .. 127
  BY DEF Bcd
<1>2. Encoded(x) \in 0 .. 127
  BY <1>1 DEF Encoded
<1> QED
  BY <1>2

LEMMA RegisterRange ==
  ASSUME mode.hours24, NEW t, IsTime(t), NEW f \in DOMAIN Values
  PROVE  Register(t, f) = Encoded(t[f]) /\ Register(t, f) \in Nat
<1>1. t[f] \in 0 .. 99
  BY DEF IsTime
<1>2. Register(t, f) = Encoded(t[f])
  BY DEF Register
<1>3. Encoded(t[f]) \in 0 .. 153
  BY <1>1, BinaryOfEncoded
<1> QED
  BY <1>2, <1>3

LEMMA ShownFields ==
  ASSUME NEW t, IsTime(t)
  PROVE  /\ Shown(t) = [f \in DOMAIN Values |-> IF f = "year" THEN t[f] + 2000 ELSE t[f]]
         /\ Shown(t) \in Readings
<1>1. DOMAIN t = DOMAIN Values /\ t = [f \in DOMAIN Values |-> t[f]]
  BY DEF IsTime
<1>2. Shown(t) = [f \in DOMAIN Values |-> IF f = "year" THEN t[f] + 2000 ELSE t[f]]
  BY <1>1 DEF Shown
<1>3. \A f \in DOMAIN Values : t[f] \in 0 .. 99
  BY DEF IsTime
<1> QED
  BY <1>2, <1>3 DEF Readings

\* The time that the registers of a whole reading are converted to.
LEMMA ConvertedIsShown ==
  ASSUME mode.hours24, NEW t, IsTime(t), NEW r \in Readings, Whole(r, t)
  PROVE  Converted(r) = Shown(t)
<1>1. DOMAIN r = DOMAIN Values /\ DOMAIN t = DOMAIN Values /\ t = [f \in DOMAIN Values |-> t[f]]
  BY DEF Readings, IsTime
<1>2. ASSUME NEW f \in DOMAIN Values
      PROVE  r[f] = Encoded(t[f]) /\ Binary(r[f]) = t[f]
  <2>1. r[f] = Encoded(t[f])
    BY RegisterRange DEF Whole
  <2>2. t[f] \in 0 .. 99
    BY DEF IsTime
  <2> QED
    BY <2>1, <2>2, BinaryOfEncoded
<1>3. r["hour"] % 128 = r["hour"]
  <2>1. "hour" \in DOMAIN Values
    BY FieldNames
  <2>2. t["hour"] \in 0 .. 23
    BY <2>1, Hours DEF IsTime
  <2>3. Encoded(t["hour"]) % 128 = Encoded(t["hour"])
    BY <2>2, HourRegister
  <2> QED
    BY <1>2, <2>1, <2>3
<1>4. ASSUME NEW f \in DOMAIN Values
      PROVE  Converted(r)[f] = IF f = "year" THEN t[f] + 2000 ELSE t[f]
  <2>1. CASE f = "hour"
    BY <1>1, <1>2, <1>3, <2>1 DEF Converted
  <2>2. CASE f = "year"
    BY <1>1, <1>2, <2>2 DEF Converted
  <2>3. CASE f # "hour" /\ f # "year"
    BY <1>1, <1>2, <2>3 DEF Converted
  <2> QED
    BY <2>1, <2>2, <2>3
<1>5. Shown(t) = [f \in DOMAIN Values |-> IF f = "year" THEN t[f] + 2000 ELSE t[f]]
  BY ShownFields
<1>6. Converted(r) = [f \in DOMAIN Values |-> Converted(r)[f]]
  BY <1>1 DEF Converted
<1> QED
  BY <1>4, <1>5, <1>6

\* One second later is a time.
LEMMA SuccIsTime ==
  ASSUME NEW t, IsTime(t)
  PROVE  IsTime(Succ(t))
<1> DEFINE carries(i) == \A j \in 1 .. i - 1 : t[Fields[j]] = LastOf(Fields[j])
           one(i) == IF ~carries(i) THEN t[Fields[i]]
                     ELSE IF t[Fields[i]] = LastOf(Fields[i]) THEN FirstOf(Fields[i])
                     ELSE NextValue(Fields[i], t[Fields[i]])
           index(f) == CHOOSE i \in 1 .. Len(Fields) : Fields[i] = f
<1>1. ASSUME NEW f \in DOMAIN Values
      PROVE  one(index(f)) \in ValuesOf(f)
  <2>1. PICK i \in 1 .. Len(Fields) : Fields[i] = f
    <3>1. f \in ToSet(Fields)
      BY ClockAssumption
    <3> QED
      BY <3>1, FieldNames, Elements, Zenon
  <2>2. Fields[index(f)] = f
    BY <2>1
  <2>3. t[f] \in ValuesOf(f)
    BY DEF IsTime
  <2>4. FirstOf(f) \in ValuesOf(f)
    BY ValueRange
  <2>5. t[f] # LastOf(f) => NextValue(f, t[f]) \in ValuesOf(f)
    BY <2>3, NextIsValue
  <2> HIDE DEF index, carries
  <2> QED
    BY <2>2, <2>3, <2>4, <2>5
<1>2. Succ(t) = [f \in DOMAIN Values |-> one(index(f))]
  <2>1. DOMAIN t = DOMAIN Values
    BY DEF IsTime
  <2> QED
    BY <2>1 DEF Succ
<1> HIDE DEF one, index
<1>3. \A f \in DOMAIN Values : one(index(f)) \in 0 .. 99
  BY <1>1, ValueRange
<1> QED
  BY <1>1, <1>2, <1>3 DEF IsTime

----------------------------------------------------------------------------
(* The steps                                                               *)

LEMMA Numbers == Gap \in Nat /\ Gap >= 1
BY ClockAssumption

LEMMA ConstructedIsReading == Constructed \in Readings
BY FieldNames DEF Constructed, Readings

\* What has been read stays what it is while neither the time nor it changes.
LEMMA Kept ==
  ASSUME UNCHANGED <<mode, now, prev>>
  PROVE  /\ systime' = systime => /\ Whole(systime, now)' <=> Whole(systime, now)
                                  /\ Whole(systime, prev)' <=> Whole(systime, prev)
         /\ reading' = reading /\ todo' = todo => (Clean' <=> Clean)
<1>1. systime' = systime => (Whole(systime, now)' <=> Whole(systime, now))
  BY DEF Whole, Register, Encoded, Bcd
<1>2. systime' = systime => (Whole(systime, prev)' <=> Whole(systime, prev))
  BY DEF Whole, Register, Encoded, Bcd
<1>3. reading' = reading /\ todo' = todo => (Clean' <=> Clean)
  BY DEF Clean, Register, Encoded, Bcd
<1> QED
  BY <1>1, <1>2, <1>3

LEMMA SysInit == Init => SysInv
<1> SUFFICES ASSUME Init PROVE SysInv
  OBVIOUS
<1>1. Suffix(todo)
  <2>1. SubSeq(Fields, 7, Len(Fields)) = <<>>
    BY FieldNames, SubSeqEmpty
  <2>2. todo = <<>> /\ 7 \in 1 .. 7
    BY DEF Init
  <2> QED
    BY <2>1, <2>2, Zenon DEF Suffix
<1>2. IsTime(now) /\ IsTime(prev)
  BY TimesAreTimes DEF Init
<1>3. Types
  <2>1. again \in BOOLEAN
    BY Zenon DEF Init
  <2>2. mode \in Modes /\ since \in 0 .. Gap /\ systime \in Readings /\ reading \in Readings
    BY ConstructedIsReading, Numbers DEF Init
  <2>3. chip = "quiet" /\ pc = "idle"
    BY DEF Init
  <2> QED
    BY <1>1, <1>2, <2>1, <2>2, <2>3 DEF Types
<1> QED
  BY <1>3 DEF Init, SysInv, Apart

LEMMA AnnounceStep == SysInv /\ Gap >= 2 /\ Announce => SysInv'
<1> SUFFICES ASSUME SysInv, Gap >= 2, Announce PROVE SysInv'
  OBVIOUS
<1>1. Types'
  BY Numbers DEF SysInv, Types, Announce
<1>2. Apart'
  BY DEF Apart, Announce
<1>3. pc # "idle" => since # 0 /\ since # 1
  BY DEF Announce
<1>4. (pc # "idle" => LastReading)'
  BY <1>3, Kept DEF SysInv, LastReading, Announce
<1>5. (pc = "read" => Clean)'
  BY <1>3, Kept DEF SysInv, Announce
<1> QED
  BY <1>1, <1>2, <1>4, <1>5 DEF SysInv

LEMMA UpdateStep == SysInv /\ Update => SysInv'
<1> SUFFICES ASSUME SysInv, Update PROVE SysInv'
  OBVIOUS
<1>1. Types'
  BY DEF SysInv, Types, Update
<1>2. Apart'
  BY DEF SysInv, Apart, Update
<1>3. (pc # "idle" => LastReading)'
  BY Kept DEF SysInv, LastReading, Update
<1>4. (pc = "read" => Clean \/ (since = 0 /\ chip # "announced"))'
  BY DEF SysInv, Apart, Update
<1> QED
  BY <1>1, <1>2, <1>3, <1>4 DEF SysInv

LEMMA SettleStep == SysInv /\ Settle => SysInv'
<1> SUFFICES ASSUME SysInv, Settle PROVE SysInv'
  OBVIOUS
<1>1. Types'
  <2>1. IsTime(now') /\ IsTime(prev')
    BY SuccIsTime DEF SysInv, Types, Settle
  <2> QED
    BY <2>1 DEF SysInv, Types, Settle
<1>2. Apart'
  BY DEF SysInv, Apart, Settle
<1>3. Whole(systime, now) => Whole(systime, prev)'
  BY DEF Whole, Register, Encoded, Bcd, Settle
<1>4. pc # "idle" => since = 0 \/ since = 1
  BY Numbers DEF SysInv, Types, Apart, Settle
<1>5. (pc # "idle" => LastReading)'
  BY <1>3, <1>4 DEF SysInv, LastReading, Settle
<1>6. (pc = "read" => Clean \/ (since = 0 /\ chip # "announced"))'
  BY DEF SysInv, Apart, Settle
<1> QED
  BY <1>1, <1>2, <1>5, <1>6 DEF SysInv

LEMMA CallStep == SysInv /\ Call => SysInv'
<1> SUFFICES ASSUME SysInv, Call PROVE SysInv'
  OBVIOUS
<1>1. Types'
  <2>1. again' \in BOOLEAN
    BY Zenon DEF Call
  <2>2. since' \in 0 .. Gap
    BY Numbers DEF Call
  <2> QED
    BY <2>1, <2>2 DEF SysInv, Types, Call
<1>2. Apart'
  BY DEF SysInv, Apart, Call
<1> QED
  BY <1>1, <1>2 DEF SysInv, LastReading, Call

LEMMA PollStep == SysInv /\ Poll => SysInv'
<1> SUFFICES ASSUME SysInv, Poll PROVE SysInv'
  OBVIOUS
<1>1. ToSet(todo') = DOMAIN Values /\ Suffix(todo')
  <2>1. ToSet(todo') = DOMAIN Values
    BY ClockAssumption DEF Poll
  <2>2. todo' = SubSeq(Fields, 1, Len(Fields))
    BY FieldNames, SubSeqFull DEF Poll
  <2> QED
    BY <2>1, <2>2 DEF Suffix
<1>2. Types'
  BY <1>1 DEF SysInv, Types, Poll
<1>3. Apart'
  BY DEF SysInv, Apart, Poll
<1>4. (pc # "idle" => LastReading)'
  BY Kept DEF SysInv, LastReading, Poll
<1>5. Clean'
  BY <1>1 DEF Clean, Poll
<1> QED
  BY <1>2, <1>3, <1>4, <1>5 DEF SysInv

LEMMA ReadStep == SysInv /\ mode.hours24 /\ Read => SysInv'
<1> SUFFICES ASSUME SysInv, mode.hours24, Read PROVE SysInv'
  OBVIOUS
<1>1. PICK i \in 1 .. 7 : todo = Left(i)
  BY FieldNames DEF SysInv, Types, Suffix, Left
<1>2. /\ todo' = Left(i + 1) /\ i + 1 \in 1 .. 7
      /\ todo \in Seq(DOMAIN Values) /\ todo # <<>>
  BY <1>1, Rest DEF Read
<1> DEFINE f == Head(todo)
<1>3. f \in DOMAIN Values /\ ToSet(todo) = {f} \cup ToSet(todo')
  BY <1>2, FirstAndRest DEF Read
<1>4. PICK v \in IF chip = "updating"
                   THEN {Register(now, f), Register(Succ(now), f), 255}
                   ELSE {Register(now, f)} :
             reading' = [reading EXCEPT ![f] = v]
  BY Zenon DEF Read
<1>5. v \in Nat
  <2>1. Register(now, f) \in Nat /\ Register(Succ(now), f) \in Nat
    BY <1>3, RegisterRange, SuccIsTime DEF SysInv, Types
  <2> QED
    BY <1>4, <2>1
<1>6. reading' \in Readings
  BY <1>3, <1>4, <1>5 DEF SysInv, Types, Readings
<1>7. Types'
  <2>1. Suffix(todo')
    BY <1>2, FieldNames DEF Suffix, Left
  <2> QED
    BY <1>6, <2>1 DEF SysInv, Types, Read
<1>8. Apart'
  BY DEF SysInv, Apart, Read
<1>9. (pc # "idle" => LastReading)'
  BY Kept DEF SysInv, LastReading, Read
<1>10. Clean /\ chip # "updating" => Clean'
  <2>1. SUFFICES ASSUME Clean, chip # "updating", NEW g \in DOMAIN Values, g \notin ToSet(todo')
                 PROVE  reading'[g] = Register(now, g)
    BY DEF Clean, Read, Register, Encoded, Bcd
  <2>2. DOMAIN reading = DOMAIN Values
    BY DEF SysInv, Types, Readings
  <2>3. CASE g = f
    BY <1>4, <2>1, <2>2, <2>3
  <2>4. CASE g # f
    BY <1>3, <1>4, <2>1, <2>2, <2>4 DEF Clean
  <2> QED
    BY <2>3, <2>4
<1>11. (pc = "read" => Clean \/ (since = 0 /\ chip # "announced"))'
  BY <1>10 DEF SysInv, Apart, Read
<1> QED
  BY <1>7, <1>8, <1>9, <1>11 DEF SysInv

LEMMA ReadAgainStep == SysInv /\ ReadAgain => SysInv'
<1> SUFFICES ASSUME SysInv, ReadAgain PROVE SysInv'
  OBVIOUS
<1>1. Types'
  BY Numbers DEF SysInv, Types, ReadAgain
<1>2. Apart'
  BY Numbers DEF SysInv, Apart, ReadAgain
<1>3. Clean => Whole(systime, now)'
  BY DEF Clean, Whole, Register, Encoded, Bcd, ReadAgain, ToSet
<1>4. since = 0 => since' = 1
  BY Numbers DEF ReadAgain
<1>5. LastReading'
  BY <1>3, <1>4 DEF SysInv, LastReading, ReadAgain
<1> QED
  BY <1>1, <1>2, <1>5 DEF SysInv, ReadAgain

\* What the call that ends returns.
LEMMA Returned ==
  ASSUME SysInv, mode.hours24, Finish
  PROVE  systime' = Shown(now) \/ (since = 0 /\ systime' = Shown(prev))
<1>1. IsTime(now) /\ IsTime(prev) /\ systime \in Readings
  BY DEF SysInv, Types
<1>2. Whole(systime, now) => systime' = Shown(now)
  BY <1>1, ConvertedIsShown DEF Finish
<1>3. Whole(systime, prev) => systime' = Shown(prev)
  BY <1>1, ConvertedIsShown DEF Finish
<1>4. Clean => Whole(systime, now)
  BY DEF Clean, Whole, Finish, Agree, ToSet
<1>5. CASE Clean
  BY <1>2, <1>4, <1>5
<1>6. CASE ~Clean
  <2>1. since = 0 /\ LastReading /\ again
    BY <1>6 DEF SysInv, Finish, Agree
  <2> QED
    BY <1>2, <1>3, <2>1 DEF LastReading
<1> QED
  BY <1>5, <1>6

LEMMA FinishStep == SysInv /\ mode.hours24 /\ Finish => SysInv'
<1> SUFFICES ASSUME SysInv, mode.hours24, Finish PROVE SysInv'
  OBVIOUS
<1>1. systime' \in Readings
  <2>1. Shown(now) \in Readings /\ Shown(prev) \in Readings
    BY ShownFields DEF SysInv, Types
  <2> QED
    BY <2>1, Returned
<1>2. Types'
  BY <1>1, ConstructedIsReading DEF SysInv, Types, Finish
<1>3. Apart'
  BY DEF Apart, Finish
<1> QED
  BY <1>2, <1>3 DEF SysInv, Finish

LEMMA SysStep ==
  ASSUME SysInv, Modes \subseteq [binary : BOOLEAN, hours24 : {TRUE}], Gap >= 2, [Next]_vars
  PROVE  SysInv'
<1>1. mode.hours24
  BY DEF SysInv, Types
<1>2. CASE UNCHANGED vars
  <2>1. Types'
    BY <1>2 DEF SysInv, Types, IsTime, vars
  <2>2. Apart' /\ (pc # "idle" => LastReading)'
    BY <1>2, Kept DEF SysInv, Apart, LastReading, vars
  <2>3. (pc = "read" => Clean \/ (since = 0 /\ chip # "announced"))'
    BY <1>2, Kept DEF SysInv, vars
  <2> QED
    BY <2>1, <2>2, <2>3 DEF SysInv
<1> QED
  BY <1>1, <1>2, AnnounceStep, UpdateStep, SettleStep, CallStep, PollStep, ReadStep,
     ReadAgainStep, FinishStep DEF Next, GetSystime

\* get_systime() (systime.cc:29): on a clock that counts 24 hours, and when at
\* least two readings fit between two updates, a call returns the present time,
\* or the one before an update that came during its last reading.
THEOREM ReadsATime ==
  ASSUME Modes \subseteq [binary : BOOLEAN, hours24 : {TRUE}], Gap >= 2
  PROVE  Spec => ReturnsATime
<1>1. SysInv /\ [Next]_vars => SysInv'
  BY SysStep
<1>2. SysInv /\ [Next]_vars
        => [Finish => \/ systime' = Shown(now)
                      \/ since = 0 /\ systime' = Shown(prev)]_vars
  <2>1. SysInv => mode.hours24
    BY DEF SysInv, Types
  <2> QED
    BY <2>1, Returned
<1> QED
  BY <1>1, <1>2, SysInit, PTL DEF Spec, ReturnsATime

=============================================================================
