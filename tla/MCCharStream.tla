----------------------------- MODULE MCCharStream -----------------------------
(***************************************************************************)
(* Positions with every field, with empty ones and without a fix, those    *)
(* that each port can read; the positions of which the ESP port loses a    *)
(* digit; and messages of every length about the sizes of their buffers,   *)
(* up to one character less than twice as long, whose text has what the    *)
(* reads look for in it.                                                   *)
(***************************************************************************)
EXTENDS CharStream

Date == <<"1", "3", "1", "1", "1", "7">>
Time == <<"0", "9", "1", "9", "1", "8", ".", "0", "0">>

GNSSFix == << <<"2">>, <<"0", "9">>, <<"0">>, <<"5">>, <<"3", "1", ".", "2">>, <<"N">>,
              <<"1", "2", "1", ".", "4">>, <<"E">>, Date, Time, <<"3", "2", ".", "9">>, <<"0", ".", "5">>,
              <<"2", "5", "5">>, <<"1", ".", "1">>, <<".", "8">>, <<"7">> >>

GPSFix == << <<"3", "1", "2", ".", "3">>, <<"N">>, <<"0", "2", "1", "7", ".">>, <<"E">>, Date, Time,
             <<"-", "4", ".", "1">>, <<"0", ".", "5">>, <<"2", "5">> >>

Without(i) == [GPSFix EXCEPT ![i] = <<>>]

\* altitude, speed and course, which are peeked at
Unmoving == [GPSFix EXCEPT ![7] = <<>>, ![8] = <<>>, ![9] = <<>>]

Answers(fn, positions) == {[fn |-> fn, sent |-> s] : s \in positions}

NoPositions == Answers("getGNSSInfo", {NoGNSSFix}) \cup Answers("getGPSInfo", {NoGPSFix})
                 \cup Answers("getAGPSData", {<< <<"s", "u">> >>})

Positions ==
  NoPositions
    \cup Answers("getGNSSInfo", {GNSSFix})
    \cup Answers("getGPSInfo", {GPSFix, [GPSFix EXCEPT ![8] = <<"0">>], [GPSFix EXCEPT ![9] = Time]}
                                 \cup {Without(i) : i \in 2 .. 9})
    \cup Answers("getAGPSData", {<< <<"5", "3">> >>, << <<"9">> >>})

EspPositions ==
  NoPositions
    \cup Answers("getGPSInfo", {Unmoving} \cup {[Unmoving EXCEPT ![i] = <<>>] : i \in 2 .. 6})

Messages ==
  {[fn |-> "process", sent |-> [topic |-> SubSeq(<<"a", ",", "1", "\n", "b">>, 1, t),
                                payload |-> SubSeq(<<"c", "\n", ",", "OK", "2", "d", "\r", "e", ",", "f", "g">>, 1, p)]] :
     t \in 0 .. 5, p \in {0, 1, 5, 6, 10, 11}}

On(port, inputs) == {[port |-> port, fn |-> i.fn, sent |-> i.sent] : i \in inputs}

SomeInputs == On("arduino", Positions \cup Messages) \cup On("esp", EspPositions \cup Messages)

ASSUME LegibleAssumption == \A i \in SomeInputs : Legible(i)

\* Both with a fix, and not legible on this port.
FixesOnEsp == On("esp", Answers("getGPSInfo", {GPSFix}) \cup Answers("getGNSSInfo", {GNSSFix}))
=============================================================================
