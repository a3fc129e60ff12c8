------------------------------ MODULE SysTime ------------------------------
(***************************************************************************)
(* The real-time clock (krnl/systime.cc): get_systime() reads six CMOS     *)
(* registers one after the other while the chip may update them, until two *)
(* readings in a row agree, and converts the result.  The chip is          *)
(* external: it announces an update (bit 7 of register A), registers are   *)
(* undefined during the update, and then show the next second.             *)
(*                                                                         *)
(* Of the values of a field a few are enough, its last among them, where   *)
(* the carry is.                                                           *)
(***************************************************************************)
EXTENDS Integers, SequencesExt

CONSTANTS
  Modes,    \* the settings of status register B that occur
  Values,   \* for each field, the values it takes, in their order
  Gap       \* at least this many readings fit between two updates

\* The registers 0, 2, 4, 7, 8 and 9 in the order of try_get().
Fields == <<"second", "minute", "hour", "day", "month", "year">>

ASSUME ClockAssumption ==
  /\ Modes \subseteq [binary : BOOLEAN, hours24 : BOOLEAN]
  /\ DOMAIN Values = ToSet(Fields)
  /\ Gap \in Nat \ {0}
  /\ \A f \in DOMAIN Values :
       Values[f] \in Seq(0 .. 99) /\ Values[f] # <<>> /\ IsInjective(Values[f])
  /\ Values["hour"] \in Seq(0 .. 23)

FirstOf(f) == Head(Values[f])
LastOf(f)  == Last(Values[f])

ValuesOf(f) == ToSet(Values[f])
Times == [second : ValuesOf("second"), minute : ValuesOf("minute"),
          hour : ValuesOf("hour"), day : ValuesOf("day"),
          month : ValuesOf("month"), year : ValuesOf("year")]

VARIABLES
  mode,      \* status register B
  now,       \* the time
  chip,      \* "quiet", "announced" (the bit is set) or "updating"
  pc,        \* "idle", "poll" or "read"
  todo,      \* the fields the reading under way still has to read
  again,     \* the reading under way is not the first one
  systime,   \* static systime_t systime: the last reading, then the result
  reading,   \* the reading under way: cur_systime, or systime the first time
  prev,      \* the time before the last update (not in the code)
  since      \* readings begun since an update was announced, up to Gap (nor this)

vars == <<mode, now, chip, pc, todo, again, systime, reading, prev, since>>

TypeOK ==
  /\ mode \in Modes
  /\ now \in Times /\ prev \in Times
  /\ chip \in {"quiet", "announced", "updating"}
  /\ pc \in {"idle", "poll", "read"}
  /\ \E i \in 1 .. Len(Fields) + 1 : todo = SubSeq(Fields, i, Len(Fields))
  /\ again \in BOOLEAN
  /\ since \in 0 .. Gap
  /\ systime \in [DOMAIN Values -> Nat]
  /\ reading \in [DOMAIN Values -> Nat]

\* systime_t()
Constructed == [year |-> 2012, month |-> 12, day |-> 21,
                hour |-> 13, minute |-> 14, second |-> 10]

Init ==
  /\ mode \in Modes
  /\ now \in Times /\ prev = now
  /\ chip = "quiet" /\ pc = "idle" /\ todo = <<>>
  /\ again = FALSE /\ since = Gap
  /\ systime = Constructed
  /\ reading = Constructed

----------------------------------------------------------------------------
(* The chip                                                                *)

NextValue(f, v) ==
  Values[f][1 + CHOOSE i \in 1 .. Len(Values[f]) - 1 : Values[f][i] = v]

\* One second later: fields at their end start again, up to the first that is
\* not, which advances.
Succ(t) ==
  LET carries(i) == \A j \in 1 .. i - 1 : t[Fields[j]] = LastOf(Fields[j])
      one(i) == IF ~carries(i) THEN t[Fields[i]]
                ELSE IF t[Fields[i]] = LastOf(Fields[i]) THEN FirstOf(Fields[i])
                ELSE NextValue(Fields[i], t[Fields[i]])
  IN  [f \in DOMAIN t |-> one(CHOOSE i \in 1 .. Len(Fields) : Fields[i] = f)]

Bcd(x) == 16 * (x \div 10) + (x % 10)
Encoded(x) == IF mode.binary THEN x ELSE Bcd(x)

\* In 12-hour mode midnight and noon are 12, and bit 7 says "afternoon".
Register(t, f) ==
  IF f # "hour" \/ mode.hours24 THEN Encoded(t[f])
  ELSE LET h == t.hour % 12
       IN  Encoded(IF h = 0 THEN 12 ELSE h) + (IF t.hour >= 12 THEN 128 ELSE 0)

\* Updates are a second apart, and a reading takes far less.
Announce ==
  /\ chip = "quiet"
  /\ pc = "idle" \/ since = Gap
  /\ chip' = "announced"
  /\ since' = 0
  /\ UNCHANGED <<mode, now, prev, pc, todo, again, systime, reading>>

Update ==
  /\ chip = "announced"
  /\ chip' = "updating"
  /\ UNCHANGED <<mode, now, prev, pc, todo, again, systime, reading, since>>

Settle ==
  /\ chip = "updating"
  /\ chip' = "quiet"
  /\ now' = Succ(now)
  /\ prev' = now
  /\ UNCHANGED <<mode, pc, todo, again, systime, reading, since>>

----------------------------------------------------------------------------
(* get_systime()                                                           *)

\* A call starts its first reading, long after the last call.
Call ==
  /\ pc = "idle"
  /\ pc' = "poll"
  /\ again' = FALSE
  /\ since' = IF chip = "quiet" THEN Gap ELSE 1
  /\ UNCHANGED <<mode, now, prev, chip, todo, systime, reading>>

\* while (read(0xa) & 0x80)
Poll ==
  /\ pc = "poll" /\ chip = "quiet"
  /\ pc' = "read"
  /\ todo' = Fields
  /\ UNCHANGED <<mode, now, prev, chip, again, systime, reading, since>>

Read ==
  /\ pc = "read" /\ todo # <<>>
  /\ LET f == Head(todo)
     IN  \E v \in IF chip = "updating"
                    THEN {Register(now, f), Register(Succ(now), f), 255}
                    ELSE {Register(now, f)} :
           reading' = [reading EXCEPT ![f] = v]
  /\ todo' = Tail(todo)
  /\ UNCHANGED <<mode, now, prev, chip, pc, again, systime, since>>

Agree == again /\ reading = systime

\* The loop goes on: systime = cur_systime, try_get(&cur_systime).
Mut_ReadAgain ==
  /\ pc = "read" /\ todo = <<>> /\ ~Agree
  /\ pc' = "poll"
  /\ again' = TRUE
  /\ since' = IF since = Gap THEN Gap ELSE since + 1
  /\ UNCHANGED <<mode, now, prev, chip, todo, systime, reading>>
ReadAgain ==
  /\ pc = "read" /\ todo = <<>> /\ ~Agree
  /\ pc' = "poll"
  /\ again' = TRUE
  /\ systime' = reading
  /\ since' = IF since = Gap THEN Gap ELSE since + 1
  /\ UNCHANGED <<mode, now, prev, chip, todo, reading>>

Binary(x) == IF mode.binary THEN x ELSE (x % 16) + (x \div 16) * 10

\* The bit is masked in any mode, and looked at in 12-hour mode only.
Converted(r) ==
  LET hour == Binary(r.hour % 128)
      pm   == ~mode.hours24 /\ r.hour >= 128
  IN  [f \in DOMAIN r |->
         CASE f = "hour" -> IF pm THEN (hour + 12) % 24 ELSE hour
           [] f = "year" -> Binary(r.year) + 2000
           [] OTHER      -> Binary(r[f])]

Mut_Finish ==
  /\ pc = "read" /\ todo = <<>>
  /\ pc' = "idle"
  /\ systime' = Converted(reading)
  /\ reading' = Constructed
  /\ UNCHANGED <<mode, now, prev, chip, todo, again, since>>
Finish ==
  /\ pc = "read" /\ todo = <<>> /\ Agree
  /\ pc' = "idle"
  /\ systime' = Converted(systime)
  /\ reading' = Constructed
  /\ UNCHANGED <<mode, now, prev, chip, todo, again, since>>

----------------------------------------------------------------------------

GetSystime == Call \/ Poll \/ Read \/ ReadAgain \/ Finish
Next == Announce \/ Update \/ Settle \/ GetSystime

Spec == Init /\ [][Next]_vars

\* The chip completes its updates; polling in a loop sees the bit clear, which
\* it is for nearly all of each second.
Fairness ==
  /\ WF_vars(Update) /\ WF_vars(Settle)
  /\ WF_vars(Read \/ ReadAgain \/ Finish)
  /\ SF_vars(Poll)

FairSpec == Spec /\ Fairness

----------------------------------------------------------------------------
(* Properties                                                              *)

\* What a reader of the clock expects for the time t.
Shown(t) == [t EXCEPT !.year = @ + 2000]

\* A call returns the present time, or the one before an update that came
\* during its last reading: never fields of two different seconds, nor a
\* register caught in its update.
ReturnsATime ==
  [][Finish => \/ systime' = Shown(now)
               \/ since = 0 /\ systime' = Shown(prev)]_vars

\* "convert 12 hour to 24 hour if necessary" (systime.cc:59): the hour that is
\* returned is that of the time read.
HourIsRight ==
  [][pc # "idle" /\ pc' = "idle" => systime'.hour \in {now.hour, prev.hour}]_vars

\* The loop of readings ends.
Returns == pc = "poll" ~> pc = "idle"

=============================================================================
