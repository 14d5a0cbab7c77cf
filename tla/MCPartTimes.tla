---------------------------- MODULE MCPartTimes ----------------------------
(* Two zones, one whose clocks go forward and one whose clocks go back; an  *)
(* airport in the table, one that is not, and a place.                      *)
EXTENDS PartTimes, TLC

CONSTANTS east, west, a, b, x, r1, r2

StdOf == (east :> 2) @@ (west :> 0)
ShiftOf == (east :> 1) @@ (west :> -1)
ChangeOf == (east :> 5) @@ (west :> 6)
ZoneOf == (a :> east) @@ (b :> west) @@ (x :> Blank)

Alike == Permutations({r1, r2})

End(at, tz, src, place) == [at |-> at, tz |-> tz, src |-> src, place |-> place, pinned |-> FALSE]
Row(s, e) == [side \in Side |-> IF side = "start" THEN s ELSE e]
Both(v) == [s \in Side |-> v]
Tracked(from, to, row) ==
  [code |-> Row(from, to), resolved |-> FALSE,
   time |-> Row(row["start"].at, IF row["end"].at = Blank THEN row["start"].at ELSE row["end"].at)]
FloatingAt(d) == End(d, Blank, "floating", Blank)

\* A stay typed by hand, one imported, a transfer, and three flights, two of
\* which know of no arrival.
InitialParts ==
  LET stay == Row(FloatingAt(4), FloatingAt(7))
      imported == Row(End(4, Blank, "unknown", Blank), End(6, Blank, "unknown", b))
      transfer == Row(End(3, east, "confirmed", a), End(6, west, "inferred", Blank))
      departure == Row(FloatingAt(7), FloatingAt(7))
      unlike == Row(FloatingAt(7), End(7, west, "inferred", Blank)) IN
  {[part |-> r, flight |-> Blank] : r \in {stay, imported, transfer}}
  \cup {[part |-> r, flight |-> Tracked(x, x, r)] : r \in {departure, unlike}}
  \cup {[part |-> transfer, flight |-> Tracked(a, x, transfer)]}

NoEdit == [local |-> Both(Blank), at |-> Both(Blank), zone |-> Both(Keep), src |-> Both(Keep),
           coords |-> Both(Blank), pin |-> Both(Keep), address |-> Both(FALSE),
           airport |-> Both(Blank), ident |-> FALSE]
At(s, v, other) == [side \in Side |-> IF side = s THEN v ELSE other]
\* A zone comes with a source, but for a client that leaves it to anchoring.
AllEdits ==
  {[NoEdit EXCEPT !.local = At("end", 8, Blank), !.zone = At("end", east, Keep),
                  !.src = At("end", "confirmed", Keep)],
   [NoEdit EXCEPT !.local = At("start", 5, Blank), !.zone = At("start", west, Keep),
                  !.src = At("start", "confirmed", Keep), !.airport = At("end", a, Blank)],
   [NoEdit EXCEPT !.zone = Row(east, Blank), !.src = At("end", "unknown", Keep)],
   [NoEdit EXCEPT !.at = At("end", 5, Blank), !.zone = At("end", Blank, Keep), !.src = Both("floating")],
   [NoEdit EXCEPT !.coords = At("start", b, Blank), !.pin = At("start", TRUE, Keep)],
   [NoEdit EXCEPT !.local = At("start", 8, Blank), !.at = At("end", 8, Blank),
                  !.coords = At("start", b, Blank), !.pin = At("start", TRUE, Keep)],
   [NoEdit EXCEPT !.pin = At("end", FALSE, Keep), !.address = At("start", TRUE, FALSE)],
   [NoEdit EXCEPT !.airport = At("start", a, Blank)],
   [NoEdit EXCEPT !.ident = TRUE]}

Provider ==
  {[code |-> Row(a, x), time |-> Row(3, 6), place |-> Row(Blank, b)],
   [code |-> Row(x, a), time |-> Row(4, Keep), place |-> Both(Blank)]}
=============================================================================
