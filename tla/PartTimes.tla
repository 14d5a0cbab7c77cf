----------------------------- MODULE PartTimes -----------------------------
(* The times of one plan part.  Each end of a part holds an instant, a zone  *)
(* and the source of the zone, a place that may be pinned by hand, and, for  *)
(* a flight, a second copy of the instants in flight_details.  They are      *)
(* written by a traveller's edit (updatePlanPart and what it calls), by the  *)
(* geocoder that runs in the background after a plan is saved (PlanParts),   *)
(* by the zone backfill job, and by the poller.  None of them holds the row  *)
(* between reading it and writing it.                                        *)
EXTENDS Integers

CONSTANTS
  Blank, Keep,         \* SQL NULL or an empty string; a nil field of a payload
  Zone, Std, Shift, Change, \* each zone's offset, and its one clock change
  Place, ZoneAt,       \* coordinates, and the zone of each or Blank
  Airport, Listed,     \* airport codes, and those in the embedded table
  Editors, Edits,      \* concurrent edit requests, and what they may ask
  Answers,             \* what the flight provider may say of a flight
  Parts,               \* the parts to start from, with their flight_details
  Finds,               \* the places a geocoder may answer
  MaxRequests, MaxFailures

Side == {"start", "end"}
Zoneless == {"unknown", "floating"}
Source == Zoneless \cup {"confirmed", "inferred"}
Geocoder == "geocoder"
Worker == Editors \cup {Geocoder}

EndType ==
  [at : Int \cup {Blank}, tz : Zone \cup {Blank}, src : Source,
   place : Place \cup {Blank}, pinned : BOOLEAN]
FlightType ==
  [code : [Side -> Airport \cup {Blank}], time : [Side -> Int], resolved : BOOLEAN]
EditType ==
  [local : [Side -> Int \cup {Blank}], at : [Side -> Int \cup {Blank}],
   zone : [Side -> Zone \cup {Blank, Keep}], src : [Side -> Source \cup {Keep}],
   coords : [Side -> Place \cup {Blank}], pin : [Side -> BOOLEAN \cup {Keep}],
   address : [Side -> BOOLEAN], airport : [Side -> Airport \cup {Blank}], ident : BOOLEAN]
AnswerType ==
  [code : [Side -> Airport], time : [Side -> Int \cup {Keep}], place : [Side -> Place \cup {Blank}]]

ASSUME TimesAssumption ==
  /\ Blank \notin Zone \cup Place \cup Worker \cup EditType \cup FlightType
  /\ Keep \notin Zone \cup Place \cup {Blank}
  /\ Blank \notin Int /\ Keep \notin Int /\ Keep \notin Source /\ Keep \notin BOOLEAN
  /\ Geocoder \notin Editors
  /\ Listed \subseteq Airport /\ Airport \subseteq Place /\ Finds \subseteq Place
  /\ ZoneAt \in [Place -> Zone \cup {Blank}] /\ \A c \in Listed : ZoneAt[c] \in Zone
  /\ Std \in [Zone -> Int] /\ Shift \in [Zone -> Int] /\ Change \in [Zone -> Int]
  /\ Edits \subseteq EditType /\ Answers \subseteq AnswerType

---------------------------------------------------------------------------
\* Package timing.

Offset(z, t) == Std[z] + (IF t >= Change[z] THEN Shift[z] ELSE 0)
Wall(t, z) == t + Offset(z, t)

\* Every instant that reads d in z: none when the clocks skip d, two when they
\* repeat it.
candidates(d, z) == {t \in {d - Std[z], d - Std[z] - Shift[z]} : Wall(t, z) = d}

\* Go's time.Date of a skipped reading: the offset in force at the first guess.
Normalised(d, z) == d - Offset(z, d - Offset(z, d))

Anchor(d, z) ==
  IF candidates(d, z) = {} THEN Normalised(d, z)
  ELSE CHOOSE t \in candidates(d, z) : \A u \in candidates(d, z) : t <= u

AirportZone(code, place) ==
  IF code \in Listed THEN ZoneAt[code] ELSE IF place # Blank THEN ZoneAt[place] ELSE Blank

\* The reading an end shows: the digits themselves while it has no zone.
Shown(e) == IF e.tz = Blank THEN e.at ELSE Wall(e.at, e.tz)

---------------------------------------------------------------------------
VARIABLES
  part,      \* [Side -> end]: the row of plan_parts
  flight,    \* the row of flight_details: codes, schedule, resolved; or Blank
  job,       \* [Worker -> what its request or goroutine holds]
  fixes,     \* the planned fixes of the backfill job, or Blank
  spent,     \* requests and jobs started, failures
  said,      \* [Side -> what was last said about that end]
  disturbed, \* [Worker -> ends another wrote since this one read them]
  lost,      \* ends whose last word was written over by a stale writer, or
             \* typed in one zone and pinned into another by the same request
  strayed    \* how the schedule came apart from the part since the last sync
timesVars == <<part, flight, job, fixes, spent, said, disturbed, lost, strayed>>

Nothing == [at |-> Keep, tz |-> Keep, src |-> Keep, place |-> Keep, pinned |-> Keep]
NoChange == [s \in Side |-> Nothing]
\* timed: the ends whose time the caller's payload gives.
Idle == [pc |-> "idle", stage |-> "edit", in |-> Blank, timed |-> {}, pl |-> NoChange,
         seen |-> Blank, fd |-> Blank, route |-> Blank]

TimesInit ==
  /\ \E p \in Parts : part = p.part /\ flight = p.flight
  /\ job = [w \in Worker |-> Idle]
  /\ fixes = Blank
  /\ spent = [requests |-> 0, failures |-> 0]
  /\ said = [s \in Side |-> [wall |-> part[s].src # "unknown", time |-> Shown(part[s])]]
  /\ disturbed = [w \in Worker |-> {}]
  /\ lost = {}
  /\ strayed = {}

Begins == spent.requests < MaxRequests /\ spent' = [spent EXCEPT !.requests = @ + 1]
Step(w, rec) == job' = [job EXCEPT ![w] = rec]
ReadsNow(w) == disturbed' = [disturbed EXCEPT ![w] = {}]
Rows == <<part, flight, fixes, said, lost, strayed>>

\* Which ends a new row changes, and who else had read them.
Moved(new) == {s \in Side : new[s] # part[s]}
Disturbs(new, w) ==
  disturbed' = [v \in Worker |->
    IF v = w THEN {} ELSE disturbed[v] \cup (IF job[v].pc = "idle" THEN {} ELSE Moved(new))]
MovesTime(new) == \E s \in Side : new[s].at # part[s].at

---------------------------------------------------------------------------
\* Store.UpdatePlanPart: read the part when a zone is touched, anchor floating
\* digits that get a zone and no time, validate, one UPDATE, and read it back.

\* An end without a time that loses its zone has no digits to float.
anchorFloating(c, cur) ==
  IF c.at # Keep \/ c.tz = Keep THEN c
  ELSE IF cur.at = Blank
    THEN (IF c.tz = Blank /\ c.src = Keep THEN [c EXCEPT !.src = "unknown"] ELSE c)
  ELSE IF cur.src # "floating" THEN c
  ELSE IF c.tz = Blank THEN [c EXCEPT !.src = "floating"]
  ELSE [c EXCEPT !.src = "confirmed", !.at = Anchor(cur.at, c.tz)]

TouchesZone(c) == c.tz # Keep \/ c.src # Keep
Writes(j) == [j EXCEPT !.pc = IF \E s \in Side : TouchesZone(j.pl[s]) THEN "read" ELSE "write"]
Or(new, old) == IF new = Keep THEN old ELSE new
ApplyEnd(e, c) ==
  [at |-> Or(c.at, e.at), tz |-> Or(c.tz, e.tz), src |-> Or(c.src, e.src),
   place |-> Or(c.place, e.place), pinned |-> Or(c.pinned, e.pinned)]
Apply(row, pl) == [s \in Side |-> ApplyEnd(row[s], pl[s])]

\* ResolveSource, and the CHECK constraints of migration 0055.
Matches(e) == (e.tz = Blank) = (e.src \in Zoneless)
ResolveSource(c, cur) == TouchesZone(c) => (c.tz # Keep => c.src # Keep) /\ Matches(ApplyEnd(cur, c))

Ends(w) == Step(w, Idle) /\ ReadsNow(w)

ReadPart(w) ==
  LET pl == [s \in Side |-> anchorFloating(job[w].pl[s], part[s])] IN
  /\ job[w].pc = "read"
  /\ IF \A s \in Side : ResolveSource(pl[s], part[s])
     THEN Step(w, [job[w] EXCEPT !.pc = "write", !.pl = pl]) /\ UNCHANGED disturbed
     ELSE Ends(w)
  /\ UNCHANGED <<Rows, spent>>

\* What a write says of an end.  A time that is given is what was said.  A new
\* zone moves the reading of a true instant and keeps the digits of a floating
\* one; a pin keeps the reading of both; an edit that gives a zone or takes it
\* away, and no time, says anew that the instant stands as it is.  A reading
\* the new zone skips becomes the one it was moved to.
Given(t) == [wall |-> TRUE, time |-> t]
TrueInstant(t) == [wall |-> FALSE, time |-> t]
Instant(t, src) == IF src = "floating" THEN Given(t) ELSE TrueInstant(t)
Skipped(old, new) == new.tz # Blank /\ candidates(Shown(old), new.tz) = {}
Reread(old, new) == Given(Shown(IF Skipped(old, new) THEN new ELSE old))
Told(s, old, new, relabels) ==
  IF old.at = Blank \/ (old.at = new.at /\ old.tz = new.tz /\ old.src = new.src) THEN said[s]
  ELSE IF old.src = "floating" /\ new.src # "unknown" THEN Reread(old, new)
  ELSE IF relabels /\ (old.tz = Blank \/ old.tz # new.tz) THEN Instant(old.at, new.src)
  ELSE IF old.src = "unknown" \/ old.tz = new.tz THEN said[s]
  ELSE Reread(old, new)
Relabels(in, s) == in.zone[s] # Keep \/ in.src[s] # Keep
Typed(in, s, new) ==
  IF in.local[s] # Blank THEN Given(in.local[s]) ELSE Instant(in.at[s], new.src)

TimesGiven(w) == IF job[w].stage = "edit" THEN job[w].timed ELSE {}

\* pinZones takes a time that is given as it stands: a reading typed without a
\* zone has been anchored in the old one by then.
Repinned(w, new) ==
  {s \in TimesGiven(w) : job[w].in.local[s] # Blank /\ job[w].in.zone[s] = Keep /\ new[s].tz # part[s].tz}

\* An arrival equal to the departure stands for none and is anchored with it.
GoesWithStart(w, s) ==
  job[w].stage = "anchor" /\ s = "end" /\ job[w].seen["end"].at = job[w].seen["start"].at

\* A write over an end that changed since it was read loses that change.
Loses(w, written, new) ==
  lost' = (lost \ TimesGiven(w)) \cup (written \cap disturbed[w]) \cup Repinned(w, new)

\* Whether the caller has a use for the part it gets back.
EditsFlight(j) == j.in # Blank /\ (j.in.ident \/ \E s \in Side : j.in.airport[s] # Blank)
ReadsBack(j) ==
  CASE j.stage = "anchor" -> TRUE
    [] j.stage = "geocode" -> j.fd # Blank /\ ~j.fd.resolved /\ j.timed # {}
    [] OTHER -> flight # Blank /\ (j.timed # {} \/ EditsFlight(j))

WritePart(w) ==
  LET j == job[w]
      new == Apply(part, j.pl)
      written == {s \in Side : j.pl[s] # Nothing} IN
  /\ j.pc = "write"
  /\ IF \A s \in Side : Matches(new[s])
     THEN /\ part' = new
          /\ said' = [s \in Side |->
               IF s \in TimesGiven(w) THEN Typed(j.in, s, new[s])
               ELSE IF s \in written /\ GoesWithStart(w, s) THEN Reread(j.seen["start"], new[s])
               ELSE Told(s, part[s], new[s], j.stage = "edit" /\ Relabels(j.in, s))]
          /\ Loses(w, written, new)
          /\ Disturbs(new, w)
          /\ strayed' = IF flight # Blank /\ MovesTime(new) /\ j.timed = {}
                          THEN strayed \cup {"moved without a time"}
                        ELSE IF flight # Blank /\ MovesTime(new)
                             /\ (flight.resolved \/ (j.fd # Blank /\ j.fd.resolved))
                          THEN strayed \cup {"tracked"} ELSE strayed
          /\ Step(w, IF ReadsBack(j) THEN [j EXCEPT !.pc = "reread", !.seen = Blank] ELSE Idle)
          /\ UNCHANGED <<flight, fixes, spent>>
     ELSE Ends(w) /\ UNCHANGED <<Rows, spent>>

\* The schedule is synced when the caller's own payload gave a time: one that
\* anchorFloating added to it on the way is not in it.
ReadBack(w) ==
  /\ job[w].pc = "reread"
  /\ Step(w, [job[w] EXCEPT !.seen = part,
                !.pc = IF job[w].stage # "edit" THEN "sync"
                       ELSE IF job[w].timed # {} THEN "flight" ELSE "route"])
  /\ ReadsNow(w)
  /\ UNCHANGED <<Rows, spent>>

---------------------------------------------------------------------------
\* PATCH of a plan part: updatePlanPart.

\* resolveLocalEdit: the zone sent with the time, else the part's current one.
LocalZone(in, s) == IF in.zone[s] # Keep THEN in.zone[s] ELSE part[s].tz
Change0(in, s) ==
  LET z == LocalZone(in, s) floats == in.local[s] # Blank /\ z = Blank IN
  [at |-> IF in.local[s] = Blank THEN (IF in.at[s] = Blank THEN Keep ELSE in.at[s])
          ELSE IF floats THEN in.local[s] ELSE Anchor(in.local[s], z),
   tz |-> in.zone[s],
   src |-> IF floats THEN "floating" ELSE in.src[s],
   place |-> IF in.coords[s] = Blank THEN Keep ELSE in.coords[s],
   pinned |-> in.pin[s]]
Refused(in) ==
  \E s \in Side : in.local[s] # Blank /\
    (in.at[s] # Blank \/ (LocalZone(in, s) # Blank /\ candidates(in.local[s], LocalZone(in, s)) = {}))
Timed(in) == {s \in Side : in.local[s] # Blank \/ in.at[s] # Blank}

StartEdit(w, in) ==
  /\ w \in Editors /\ job[w].pc = "idle" /\ Begins
  /\ ~Refused(in)
  /\ Step(w, [Idle EXCEPT !.pc = "locate", !.in = in, !.timed = Timed(in),
                    !.pl = [s \in Side |-> Change0(in, s)]])
  /\ ReadsNow(w)
  /\ UNCHANGED Rows

\* A slip: a pinned end is looked up too.
LooksUpPinned(in, s) ==
  in.coords[s] = Blank /\ (in.address[s] \/ (in.pin[s] = FALSE /\ part[s].pinned))

\* An end is looked up again when its address changed or it was just unpinned.
LooksUp(in, s) ==
  /\ Or(in.pin[s], part[s].pinned) = FALSE
  /\ in.coords[s] = Blank
  /\ in.address[s] \/ (in.pin[s] = FALSE /\ part[s].pinned)

Locate(w) ==
  /\ job[w].pc = "locate"
  /\ \E found \in [{s \in Side : LooksUp(job[w].in, s)} -> Finds \cup {Keep}] :
       Step(w, [job[w] EXCEPT !.pc = "pin",
                  !.pl = [s \in Side |-> IF s \in DOMAIN found
                                         THEN [@[s] EXCEPT !.place = found[s]] ELSE @[s]]])
  /\ UNCHANGED <<Rows, spent, disturbed>>

\* startPinned, endPinned, endFollowsStart: the place an end takes its zone from.
Pins(in, s) == in.pin[s] = TRUE /\ in.coords[s] # Blank
endFollowsStart == part["end"].src \in Zoneless \/ part["end"].tz = part["start"].tz
PinnedPlace(in, pl, s) ==
  IF Pins(in, s) THEN in.coords[s]
  ELSE IF s = "end" /\ Pins(in, "start") /\ part[s].place = Blank /\ pl[s].place = Keep /\ endFollowsStart
    THEN in.coords["start"] ELSE Blank
keepWallClock(e, z) == Anchor(Shown(e), z)

Rezoned(in, pl, s) ==
  LET p == PinnedPlace(in, pl, s)
      z == IF p = Blank THEN Blank ELSE ZoneAt[p]
      e == part[s] IN
  IF z = Blank \/ e.at = Blank \/ TouchesZone(pl[s]) THEN pl[s]
  ELSE [pl[s] EXCEPT !.tz = z, !.src = "confirmed",
                     !.at = IF @ = Keep /\ z # e.tz /\ e.src # "unknown" THEN keepWallClock(e, z) ELSE @]

pinZones(w) ==
  LET j == job[w] IN
  /\ j.pc = "pin"
  /\ Step(w, Writes([j EXCEPT !.pl = [s \in Side |-> Rezoned(j.in, @, s)]]))
  /\ UNCHANGED <<Rows, spent, disturbed>>

---------------------------------------------------------------------------
\* syncFlightSchedule and anchorFloatingFlightPart.

Codes(fd, j) ==
  [s \in Side |->
     IF j.in = Blank \/ fd.resolved \/ j.in.ident \/ j.in.airport[s] = Blank THEN fd.code[s]
     ELSE j.in.airport[s]]
\* The coordinates that go with a code the edit changes are the table's own.
CodePlace(fd, j, s) ==
  IF Codes(fd, j)[s] = fd.code[s] THEN j.seen[s].place
  ELSE IF Codes(fd, j)[s] \in Listed THEN Codes(fd, j)[s] ELSE Blank

anchorFlightEnd(e, z) ==
  IF e.at = Blank \/ e.tz # Blank \/ e.src # "floating" \/ z = Blank THEN Nothing
  ELSE [Nothing EXCEPT !.at = Anchor(e.at, z), !.tz = z, !.src = "confirmed"]

\* An arrival equal to the departure stands for none and goes with it.
anchorFloatingFlightPart(fd, j) ==
  LET zone(s) == AirportZone(Codes(fd, j)[s], CodePlace(fd, j, s))
      start == anchorFlightEnd(j.seen["start"], zone("start")) IN
  [s \in Side |->
     IF s = "start" \/ j.seen["end"].at = j.seen["start"].at THEN start
     ELSE anchorFlightEnd(j.seen["end"], zone("end"))]

\* What the request has left to do.
Proceeds(w) ==
  IF EditsFlight(job[w])
  THEN Step(w, [job[w] EXCEPT !.pc = "route", !.stage = "edit"]) /\ UNCHANGED disturbed
  ELSE Ends(w)

ReadFlight(w) ==
  LET pl == anchorFloatingFlightPart(flight, job[w]) IN
  /\ job[w].pc = "flight"
  /\ IF flight.resolved THEN Proceeds(w)
     ELSE /\ Step(w, IF pl = NoChange THEN [job[w] EXCEPT !.pc = "sync", !.fd = flight]
                     ELSE Writes([job[w] EXCEPT !.stage = "anchor", !.fd = flight, !.pl = pl]))
          /\ UNCHANGED disturbed
  /\ strayed' = IF flight.resolved THEN strayed \cup {"tracked"} ELSE strayed
  /\ UNCHANGED <<part, flight, fixes, said, lost, spent>>

\* The arrival is the part's own unless it is before the departure; else the
\* old block time is carried across.
Schedule(row, fd) ==
  [s \in Side |->
     IF s = "start" THEN row["start"].at
     ELSE IF row["end"].at # Blank /\ row["end"].at >= row["start"].at THEN row["end"].at
     ELSE row["start"].at + fd.time["end"] - fd.time["start"]]

\* A part begins as a handler stored it: under the constraints of its table,
\* with the schedule of its flight the part's own.
ASSUME PartsAssumption ==
  \A p \in Parts :
    /\ p.part \in [Side -> EndType] /\ p.part["start"].at # Blank
    /\ \A s \in Side : Matches(p.part[s])
    /\ p.flight # Blank => p.flight \in FlightType /\ p.flight.time = Schedule(p.part, p.flight)

\* A slip: a schedule whose arrival alone moves is not written.
DepartureMoves(new, old) == new["start"] # old["start"]
Moves(new, old) == new # old

\* One UPDATE ... WHERE resolved = false, skipped when nothing seems to change.
SyncFlightSchedule(w) ==
  LET j == job[w] new == Schedule(j.seen, j.fd) IN
  /\ j.pc = "sync"
  /\ flight' = IF Moves(new, j.fd.time) /\ ~flight.resolved THEN [flight EXCEPT !.time = new] ELSE flight
  /\ strayed' = IF flight.resolved THEN strayed \cup {"tracked"}
                ELSE IF disturbed[w] = {} /\ j.fd.time = flight.time /\ j.seen = part THEN {}
                ELSE strayed \cup {"overlap"}
  /\ Proceeds(w)
  /\ UNCHANGED <<part, fixes, spent, said, lost>>

---------------------------------------------------------------------------
\* applyFlightEdit: a new number is resolved again; a hand-typed airport is
\* honoured only while the flight is unresolved.

AirportCoords(code, place) ==
  IF place # Blank THEN place ELSE IF code \in Listed THEN code ELSE Blank
KeepRoute == [s \in Side |-> [code |-> Keep, time |-> Keep, at |-> Keep, tz |-> Keep,
                              src |-> Keep, place |-> Keep]]

\* providerZone: an instant from the provider is never floating.
RouteUpdateFromResolved(rf) ==
  [s \in Side |->
     LET z == AirportZone(rf.code[s], rf.place[s]) IN
     [code |-> rf.code[s], time |-> rf.time[s], at |-> rf.time[s], tz |-> z,
      src |-> IF z = Blank THEN "unknown" ELSE "confirmed",
      place |-> AirportCoords(rf.code[s], rf.place[s])]]

confirmAirportZone(c, e) ==
  [KeepRoute["start"] EXCEPT
     !.code = c, !.place = AirportCoords(c, Blank),
     !.tz = IF c \in Listed THEN ZoneAt[c] ELSE Keep,
     !.src = IF c \in Listed THEN "confirmed" ELSE Keep,
     !.at = IF c \in Listed /\ e.src = "floating" /\ e.at # Blank THEN Anchor(e.at, ZoneAt[c]) ELSE Keep]
manualRouteUpdate(fd, row, in) ==
  [s \in Side |->
     IF in.airport[s] \notin {Blank, fd.code[s]} THEN confirmAirportZone(in.airport[s], row[s])
     ELSE KeepRoute[s]]

applyFlightEdit(w) ==
  LET j == job[w]
      Sends(up, resolved) == Step(w, [j EXCEPT !.pc = "update", !.route = [to |-> up, resolved |-> resolved]])
      manual == manualRouteUpdate(flight, j.seen, j.in) IN
  /\ j.pc = "route"
  /\ IF j.in.ident
       THEN \/ \E rf \in Answers : Sends(RouteUpdateFromResolved(rf), TRUE)
            \/ Sends(KeepRoute, FALSE)
     ELSE IF flight.resolved \/ manual = KeepRoute THEN Ends(w)
     ELSE Sends(manual, Keep)
  /\ IF job'[w].pc = "idle" THEN TRUE ELSE UNCHANGED disturbed
  /\ UNCHANGED <<Rows, spent>>

\* Store.UpdateFlightPartRoute, one transaction that locks the part.  A
\* schedule field that still holds the digits of an end it anchors goes along.
UpdateFlightPartRoute(w) ==
  LET up == job[w].route.to
      c0(s) == [Nothing EXCEPT !.at = up[s].at, !.tz = up[s].tz, !.src = up[s].src, !.place = up[s].place]
      pl == [s \in Side |-> anchorFloating(c0(s), part[s])]
      new == Apply(part, pl)
      times == [s \in Side |-> Or(up[s].time, flight.time[s])]
      Carries(s) == up[s].at = Keep /\ up[s].time = Keep /\ pl[s].at # Keep
      follows(s) ==
        IF Carries(s) /\ times[s] = part[s].at THEN pl[s].at
        ELSE IF s = "end" /\ Carries("start") /\ part["end"].at = Blank /\ times["end"] = part["start"].at
          THEN pl["start"].at ELSE times[s] IN
  /\ job[w].pc = "update"
  /\ IF \A s \in Side : ResolveSource(pl[s], part[s])
     THEN /\ part' = new
          /\ flight' = [code |-> [s \in Side |-> Or(up[s].code, flight.code[s])],
                        time |-> [s \in Side |-> follows(s)],
                        resolved |-> Or(job[w].route.resolved, flight.resolved)]
          /\ said' = [s \in Side |->
               IF up[s].time # Keep THEN TrueInstant(new[s].at)
               ELSE Told(s, part[s], new[s], up[s].tz # Keep)]
          /\ lost' = (lost \ {s \in Side : up[s].time # Keep})
                          \cup {s \in disturbed[w] : up[s].time = Keep /\ up[s].at # Keep}
          /\ strayed' = IF \E s, v \in Side : pl[s].at # Keep /\ up[v].time = Keep
                        THEN strayed \cup {"half a route"} ELSE strayed
          /\ Disturbs(new, w) /\ Step(w, Idle)
          /\ UNCHANGED <<fixes, spent>>
     ELSE Ends(w) /\ UNCHANGED <<Rows, spent>>

---------------------------------------------------------------------------
\* geocode.PlanParts, in the background after a plan is saved.

StartGeocode ==
  /\ job[Geocoder].pc = "idle" /\ Begins
  /\ Step(Geocoder, [Idle EXCEPT !.pc = "lookup", !.stage = "geocode", !.seen = part])
  /\ ReadsNow(Geocoder)
  /\ UNCHANGED Rows

zoneless(e) == e.src \in Zoneless /\ e.at # Blank
Zoned(e, z) ==
  [Nothing EXCEPT !.tz = z, !.src = "confirmed",
                  !.at = IF e.src = "floating" THEN Anchor(e.at, z) ELSE Keep]

\* An end with no coordinates of its own takes the other's zone.
ResolvePartTZ(row, placed) ==
  LET zone(s) == IF placed[s] = Blank THEN Blank ELSE ZoneAt[placed[s]]
      primary == IF placed["start"] # Blank THEN zone("start") ELSE zone("end")
      z(s) == IF s = "end" /\ zone("end") # Blank THEN zone("end") ELSE primary IN
  [s \in Side |-> IF zoneless(row[s]) /\ z(s) # Blank THEN Zoned(row[s], z(s)) ELSE Nothing]

\* A flight's ends take their own airports' zones and never each other's.
ResolveFlightTZ(row, fd, placed) ==
  LET z(s) == AirportZone(fd.code[s], placed[s])
      start == IF zoneless(row["start"]) /\ z("start") # Blank
               THEN Zoned(row["start"], z("start")) ELSE Nothing IN
  [s \in Side |->
     IF s = "start" THEN start
     ELSE IF ~zoneless(row["end"]) THEN Nothing
     ELSE IF row["end"].src = "floating" /\ row["end"].at = row["start"].at
       THEN (IF start.at # Keep THEN start ELSE Nothing)
     ELSE IF z("end") # Blank THEN Zoned(row["end"], z("end")) ELSE Nothing]

\* The answers come seconds later; flight_details is read after them.  An
\* address that is the owner's home pins the end to it.
GeocodeEnds ==
  LET j == job[Geocoder]
      open == {s \in Side : j.seen[s].place = Blank /\ ~j.seen[s].pinned} IN
  /\ j.pc = "lookup"
  /\ \E found \in [open -> Finds \cup {Keep}], home \in SUBSET open :
       LET placed == [s \in Side |-> IF s \in open THEN (IF found[s] = Keep THEN Blank ELSE found[s])
                                     ELSE j.seen[s].place]
           zones == IF flight = Blank THEN ResolvePartTZ(j.seen, placed)
                    ELSE ResolveFlightTZ(j.seen, flight, placed)
           pl == [s \in Side |-> IF s \in open
                    THEN [zones[s] EXCEPT !.place = found[s],
                            !.pinned = IF s \in home /\ found[s] # Keep THEN TRUE ELSE Keep]
                    ELSE zones[s]] IN
       /\ \A s \in home : found[s] # Keep
       /\ IF pl = NoChange THEN Ends(Geocoder)
          ELSE Step(Geocoder, Writes([j EXCEPT !.pl = pl, !.fd = flight,
                                             !.timed = {s \in Side : pl[s].at # Keep}])) /\ UNCHANGED disturbed
  /\ UNCHANGED <<Rows, spent>>

---------------------------------------------------------------------------
\* cmd/backfill-part-zones: plan from a read, apply under a guard.  A zone
\* borrowed from a neighbour or the trip is any zone, recorded as inferred; an
\* end with nothing to borrow stays floating.

FixZone(s) ==
  LET code == IF flight = Blank THEN Blank ELSE flight.code[s]
      place == IF part[s].place # Blank THEN part[s].place
               ELSE IF s = "end" /\ code = Blank THEN part["start"].place ELSE Blank
      own == IF place # Blank /\ ZoneAt[place] # Blank THEN ZoneAt[place]
             ELSE IF code \in Listed THEN ZoneAt[code] ELSE Blank IN
  IF own # Blank THEN {[tz |-> own, src |-> "confirmed"]}
  ELSE {[tz |-> z, src |-> "inferred"] : z \in Zone} \cup {[tz |-> Blank, src |-> "unknown"]}

FloatingEnds == {s \in Side : part[s].src = "floating" /\ part[s].at # Blank}

PlanFixes ==
  /\ fixes = Blank /\ Begins /\ FloatingEnds # {}
  /\ \E z \in [FloatingEnds -> UNION {FixZone(s) : s \in FloatingEnds}] :
       /\ \A s \in FloatingEnds : z[s] \in FixZone(s)
       /\ fixes' = [s \in {f \in FloatingEnds : z[f].tz # Blank} |->
            [old |-> part[s].at, at |-> Anchor(part[s].at, z[s].tz), tz |-> z[s].tz, src |-> z[s].src]]
  /\ UNCHANGED <<part, flight, job, said, disturbed, lost, strayed>>

\* A slip: the digits planned from are not compared.
GuardedBySource(s) == part[s].src = "floating"
Guarded(s) == part[s].src = "floating" /\ part[s].at = fixes[s].old
ApplyZoneFixes ==
  LET hit == {s \in DOMAIN fixes : Guarded(s)}
      new == [s \in Side |-> IF s \in hit
                THEN [part[s] EXCEPT !.at = fixes[s].at, !.tz = fixes[s].tz, !.src = fixes[s].src]
                ELSE part[s]] IN
  /\ fixes # Blank
  /\ part' = new /\ fixes' = Blank
  /\ said' = [s \in Side |-> Told(s, part[s], new[s], FALSE)]
  /\ Disturbs(new, Blank)
  /\ strayed' = IF flight # Blank /\ MovesTime(new) THEN strayed \cup {"backfill"} ELSE strayed
  /\ UNCHANGED <<flight, job, spent, lost>>

---------------------------------------------------------------------------
\* The poller: RefreshFlightPartSchedule writes both copies in one statement,
\* MarkFlightPartResolved freezes them, BackfillFlightPart fills blanks only.

Poll == Begins /\ flight # Blank

RefreshFlightPartSchedule(rf) ==
  LET Fresh(s) == [part[s] EXCEPT !.at = rf.time[s], !.src = IF part[s].tz = Blank THEN "unknown" ELSE @]
      new == [s \in Side |-> Fresh(s)] IN
  /\ Poll /\ ~flight.resolved
  /\ \A s \in Side : rf.time[s] # Keep
  /\ rf.time["end"] > rf.time["start"]
  /\ part' = new /\ flight' = [flight EXCEPT !.time = rf.time]
  /\ said' = [s \in Side |-> TrueInstant(rf.time[s])]
  /\ lost' = {} /\ strayed' = {}
  /\ Disturbs(new, Blank)
  /\ UNCHANGED <<job, fixes>>

MarkFlightPartResolved ==
  /\ Poll /\ ~flight.resolved
  /\ flight' = [flight EXCEPT !.resolved = TRUE]
  /\ UNCHANGED <<part, job, fixes, said, disturbed, lost, strayed>>

BackfillFlightPart(rf) ==
  LET new == [s \in Side |-> [part[s] EXCEPT !.place = IF @ = Blank THEN AirportCoords(rf.code[s], rf.place[s]) ELSE @]] IN
  /\ Poll
  /\ part' = new
  /\ flight' = [flight EXCEPT !.code = [s \in Side |-> IF @[s] = Blank THEN rf.code[s] ELSE @[s]]]
  /\ Disturbs(new, Blank)
  /\ UNCHANGED <<job, fixes, said, lost, strayed>>

\* A statement fails: the request or the goroutine gives up where it stands.
Fails(w) ==
  /\ job[w].pc \in {"read", "write", "reread", "flight", "sync", "route", "update"}
  /\ spent.failures < MaxFailures
  /\ spent' = [spent EXCEPT !.failures = @ + 1]
  /\ Ends(w)
  /\ strayed' = IF (job[w].pc \in {"reread", "flight", "sync"} /\ job[w].timed # {})
                   \/ job[w].stage = "anchor"
                THEN strayed \cup {"failure"} ELSE strayed
  /\ UNCHANGED <<part, flight, fixes, said, lost>>

TimesNext ==
  \/ \E w \in Editors : \E in \in Edits : StartEdit(w, in)
  \/ \E w \in Editors : Locate(w) \/ pinZones(w) \/ ReadFlight(w) \/ applyFlightEdit(w)
                        \/ UpdateFlightPartRoute(w)
  \/ \E w \in Worker : ReadPart(w) \/ WritePart(w) \/ ReadBack(w) \/ SyncFlightSchedule(w) \/ Fails(w)
  \/ StartGeocode \/ GeocodeEnds
  \/ PlanFixes \/ ApplyZoneFixes
  \/ \E rf \in Answers : RefreshFlightPartSchedule(rf) \/ BackfillFlightPart(rf)
  \/ MarkFlightPartResolved

TimesSpec == TimesInit /\ [][TimesNext]_timesVars

---------------------------------------------------------------------------
AtRest == \A w \in Worker : job[w].pc = "idle"

\* An end means what was last said about it: the reading that was typed or
\* that a pin must keep, or the true instant that a provider or a calendar
\* gave, however many zones it was given since and by whom, unless a writer
\* that had read the end before then wrote it after.  The backfill's guard
\* (zone_backfill.go:116) leaves it out of the exception.
TimeIsAsSaid ==
  \A s \in Side \ lost :
    part[s].at # Blank =>
      IF said[s].wall THEN Shown(part[s]) = said[s].time ELSE part[s].at = said[s].time

\* At rest the part and flight_details of an unresolved flight are two views
\* of the same instants (handlers_plans.go:1158), but for the paths that move
\* a part and leave the schedule: a write whose caller gave no time, whatever
\* the store anchors on the way (an edit of the zone or the pin alone, a
\* geocoder that found unknown digits and writes after they were made
\* floating; planparts.go:97), an airport typed on a floating flight, the
\* backfill, a failure in between, an edit while the flight was tracked, and
\* two writers at once.
ScheduleStraysKnowingly ==
  AtRest /\ flight # Blank /\ ~flight.resolved /\ strayed = {} =>
    flight.time = Schedule(part, flight)

\* A pinned place that has coordinates is moved by the step of a request that
\* names coordinates or an airport, or that unpins the place, or of a writer
\* that had read the end before it was pinned; a pin whose request gave no
\* coordinates is filled in by anyone.
PinsHold ==
  [][\A s \in Side :
       part[s].pinned /\ part[s].place \notin {Blank, part'[s].place} =>
         \E w \in Worker : job'[w] # job[w] /\
           \/ job[w].pc = "update"
           \/ job[w].pc = "write" /\ s \in disturbed[w]
           \/ job[w].pc = "write" /\ job[w].in # Blank /\ job[w].in.coords[s] # Blank
           \/ job[w].pc = "write" /\ job[w].in # Blank /\ job[w].in.pin[s] = FALSE]_timesVars
=============================================================================
