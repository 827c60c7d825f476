-------------------------- MODULE MCHindsightDesk --------------------------
(***************************************************************************)
(* Small histories for HindsightDesk: two days of five raw files, prints   *)
(* of a fortnight on two or three lines, trials of two decisions or twelve.*)
(***************************************************************************)
EXTENDS HindsightDesk

File(source, name, cells) == [source |-> source, name |-> name, cells |-> cells]
Cell(column, day, value) == [column |-> column, day |-> day, value |-> value]

MCRawFiles ==
  {{File("investing", "BDI", {Cell("price", 1, a), Cell("price", 2, 100)}),
    File("investing", "BDI", {Cell("price", 1, b)}),
    File("investing", Unnamed, {Cell("price", 3, 7)}),
    File("handybulk", Unnamed, {Cell("BDI", 1, c), Cell("BDI", 2, d), Cell("TC", 2, 100)}),
    File("portwatch", Unnamed, {Cell("calls", 1, 4), Cell("calls", 2, Blank)})} :
     a \in {100, 110}, b \in {100, 119, 130, Blank}, c \in {99, 105, Blank}, d \in {80, 79, 126}}

\* The prints of a fortnight with a gap.
PrintsOf(lines) ==
  [i \in DOMAIN lines |-> [day |-> IF i < 3 THEN i ELSE i + 2, line |-> lines[i]]]
MCHistories ==
  {PrintsOf(lines) : lines \in [1 .. 9 -> {1, 2}]}
  \cup {PrintsOf(<<1, 1>> \o lines) : lines \in [1 .. 6 -> {1, 2, 3}]}

Decision(early, size, realised, horizons, ceiling) ==
  [early |-> early, class |-> size, spot |-> 1000, realised |-> realised,
   horizons |-> horizons, ceiling |-> ceiling]
MCDecisions ==
  {Decision(early, size, realised, horizons, ceiling) :
     early \in BOOLEAN, size \in {"panamax", "capesize"}, realised \in {950, 985, 1200},
     horizons \in {{90}, {7, 90}}, ceiling \in {900, 980}}
MCTrials ==
  {<<one, two>> : one \in MCDecisions, two \in MCDecisions}
  \cup {[i \in 1 .. 12 |-> Decision(i < 4, "panamax", 900 + ((step * i) % 210), {30}, 860 + 20 * i)] :
         step \in {10, 50, 110}}

MCValueOf == <<-3, 5, 2>>
=============================================================================
