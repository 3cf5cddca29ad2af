--------------------------- MODULE MCSessionReader ---------------------------
EXTENDS SessionReader

(* Two cars; FastF1 publishes a provisional classification, a corrected    *)
(* one in which the cars exchange their numbers and places and a lap is    *)
(* gone, one in which the second driver has no id yet, and broken data.    *)
Row(driver, number, short, position, completed) ==
    [driver |-> driver, number |-> number, abbreviation |-> short,
     named |-> short = None, position |-> position, completed |-> completed,
     time |-> 9]

Lap(number, short, lap, time) ==
    [number |-> number, abbreviation |-> short, lap |-> lap, time |-> time,
     start |-> IF lap = 1 THEN -5 ELSE 60]

Provisional ==
    [rows |-> <<Row("ham", "44", "HAM", 1, 2), Row("VER", "1", "ver", 2, 1)>>,
     laps |-> <<Lap("44", "HAM", 1, 8), Lap("44", None, 2, 8), Lap("1", "VER", 1, 8)>>]

Corrected ==
    [rows |-> <<Row("ver", "44", "VER", 1, 2), Row("ham", "1", "HAM", 2, 2)>>,
     laps |-> <<Lap("44", None, 1, 8), Lap(None, "ham", 1, 7), Lap("1", "HAM", 2, 7)>>]

Anonymous ==
    [rows |-> <<Row("ham", "44", "HAM", 1, 2), Row("nan", "1", None, 2, 1)>>,
     laps |-> <<Lap("44", None, 1, 8), Lap("1", "VER", 1, 8)>>]

Broken ==
    {[rows |-> <<Row("ham", "44", "HAM", 1, 2), Row("ver", "44", "VER", 2, 2)>>,
      laps |-> << >>],
     [rows |-> <<Row("ham", "44", "HAM", 1, 2), Row("ver", "1", "VER", 1, 2)>>,
      laps |-> << >>],
     [rows |-> <<Row("ham", "44", "HAM", 1, 2)>>,
      laps |-> <<Lap("1", "HAM", 1, 8)>>],
     [rows |-> <<Row("ham", "44", "HAM", 1, 2)>>,
      laps |-> <<Lap("44", "HAM", 1, -8)>>],
     [rows |-> <<Row("ham", "44", "HAM", 1, 2)>>,
      laps |-> <<Lap("44", None, 1, 8), Lap(None, "HAM", 1, 7)>>]}

Feeds == {Provisional, Corrected, Anonymous} \cup Broken

Spellings == {"ham", "HAM", "ver", "VER", "44", "1", "nan"}

(* "nan" is what FastF1 writes where it has no driver id.                  *)
Names ==
    [s \in Spellings |->
        CASE s \in {"ham", "HAM"} -> "HAM"
          [] s \in {"ver", "VER"} -> "VER"
          [] s = "nan" -> None
          [] OTHER -> s]
=============================================================================
