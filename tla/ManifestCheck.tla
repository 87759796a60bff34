---------------------------- MODULE ManifestCheck ----------------------------
(* The observer's check of the admission manifest that the apiserver loaded   *)
(* (ADM-4): two scrapes of /metrics by one epoch, the first for the restart   *)
(* marker S0 and a later one for the marker and the samples, each read as its *)
(* bytes arrive (observer/src/exposition.rs, ExpositionReader), and the       *)
(* comparison (admission.rs, check_loaded_manifest; observe.rs, adm4).        *)
(*                                                                            *)
(* A line is what it says and its size; a byte is the line it is of, or LF.   *)
EXTENDS Integers, Sequences, SequencesExt

CONSTANTS Scrapes,            \* the pairs of expositions: lines, and whether the last one is ended
          Givens,             \* the configuration's hash and plugin, the snapshot's gitVersion, the wall readings
          WELL_FORMED,        \* the hashes of the right form
          DECIMALS,           \* the texts of decimal numbers
          ACCEPTED_KUBERNETES_VERSION,
          NO_WALL,            \* a wall reading before the epoch
          MAX_WALL_SECONDS,
          EXPOSITION_LINE,    \* LINE_LIMIT (16 KiB)
          SAMPLE_LIMIT,       \* 16
          MaxPush             \* the most bytes that arrive at once

VARIABLES scrapes, given,     \* what the apiserver sends, and what else the verdict rests on
          scrape,             \* the scrape in hand: its number, the bytes pushed and the reader
          observed            \* S0, and how the check ended

manifestVars == <<scrapes, given, scrape, observed>>

\* LF, which no line is.
Ended == [lf |-> TRUE]

-----------------------------------------------------------------------------
(* ExpositionReader *)

FreshReader == [held |-> <<>>, markers |-> <<>>, samples |-> <<>>, failed |-> "none"]

\* The value: after a space, with nothing behind it.
ValueText(value) == IF value.spaced /\ value.text # "" /\ ~value.trailing THEN value.text ELSE "malformed"

IsDecimalNumber(text) == text \in DECIMALS

\* The label set: each of the three labels once, in any order.
Labels(labels) ==
  IF /\ Len(labels) = 3 /\ \A i \in 1 .. 3 : labels[i].good
     /\ {labels[i].name : i \in 1 .. 3} = {"plugin", "apiserver_id_hash", "hash"}
  THEN LET value(name) == labels[CHOOSE i \in 1 .. 3 : labels[i].name = name].value
       IN <<[plugin |-> value("plugin"), server |-> value("apiserver_id_hash"), hash |-> value("hash")]>>
  ELSE <<>>

Fails(r, why) == [r EXCEPT !.failed = why]
Full(r) == Len(r.markers) + Len(r.samples) >= SAMPLE_LIMIT

\* One complete line.
TakeLine(r, line) ==
  CASE line.name = "info" ->
         LET sample == Labels(line.labels)
         IN IF sample = <<>> \/ ValueText(line.value) # "1" THEN Fails(r, "Malformed")
            ELSE IF Full(r) THEN Fails(r, "Samples")
            ELSE IF sample[1] \in Range(r.samples) THEN Fails(r, "Repeated")
            ELSE [r EXCEPT !.samples = @ \o sample]
    [] line.name = "start" ->
         IF line.labels # <<>> \/ ~IsDecimalNumber(ValueText(line.value)) THEN Fails(r, "Malformed")
         ELSE IF Full(r) THEN Fails(r, "Samples")
         ELSE [r EXCEPT !.markers = Append(@, line.value.text)]
    [] OTHER -> r

\* One more byte; the first refusal sticks.
TakeByte(r, byte) ==
  IF r.failed # "none" THEN r
  ELSE IF byte # Ended
  THEN IF Len(r.held) >= EXPOSITION_LINE THEN Fails(r, "LineLength") ELSE [r EXCEPT !.held = Append(@, byte)]
  ELSE IF r.held = <<>> THEN r
  ELSE TakeLine([r EXCEPT !.held = <<>>], r.held[1])

\* Mutant: a push begins a line.
PushAtLine(r, bytes) == FoldLeft(TakeByte, [r EXCEPT !.held = <<>>], bytes)

Push(r, bytes) == FoldLeft(TakeByte, r, bytes)

\* The exposition at the answer's end, or why it is refused.
FinishExposition(r) == IF r.failed = "none" /\ r.held # <<>> THEN "FinalLine" ELSE r.failed

-----------------------------------------------------------------------------
(* check_loaded_manifest and utc::window *)

WellFormedHash(hash) == hash \in WELL_FORMED

\* The verdict on the samples of an exposition.
CheckLoadedManifest(samples) ==
  LET expected == SelectSeq(samples, LAMBDA sample : sample.plugin = given.plugin)
      foreign == \E i \in 1 .. Len(samples) : samples[i].plugin # given.plugin
      accepted == given.version = ACCEPTED_KUBERNETES_VERSION /\ given.plugin # "" /\ ~foreign
  IN IF ~accepted \/ Len(expected) # 1 \/ ~WellFormedHash(given.pinned) THEN "Adm4Unavailable"
     ELSE IF ~WellFormedHash(expected[1].hash) THEN "Adm4Unavailable"
     ELSE IF expected[1].hash = given.pinned THEN "Match" ELSE "Adm4Mismatch"

\* Mutant: the window ends with the later reading.
ObservationWindowEmpty(start, end) ==
  IF start = NO_WALL \/ end = NO_WALL THEN <<>>
  ELSE LET last == IF end > start THEN end ELSE start
       IN IF last > MAX_WALL_SECONDS THEN <<>> ELSE <<start, last>>

\* The window's two ends, or none that can be rendered.
ObservationWindow(start, end) ==
  IF start = NO_WALL \/ end = NO_WALL THEN <<>>
  ELSE LET last == (IF end > start THEN end ELSE start) + 1
       IN IF last > MAX_WALL_SECONDS THEN <<>> ELSE <<start, last>>

\* check_binding: the window starts before it ends.  Its other checks repeat
\* what is known here: the nonce is in the form the configuration was refused
\* without, and the times are texts of canonical_utc.
CheckBinding(window) == window[1] < window[2]

Adm4(samples) ==
  LET window == ObservationWindow(given.start, given.end)
  IN IF window = <<>> THEN "Clock"
     ELSE IF ~CheckBinding(window) THEN "Adm4Input"
     ELSE CheckLoadedManifest(samples)

-----------------------------------------------------------------------------
(* The epoch's scrapes *)

\* What an exposition is sent as.
BytesOf(text) ==
  FlattenSeq([i \in 1 .. Len(text.lines) |->
    [b \in 1 .. text.lines[i].size |-> text.lines[i]]
    \o (IF i < Len(text.lines) \/ text.ended THEN <<Ended>> ELSE <<>>)])

NewScrape(number) == [number |-> number, pushed |-> 0, reader |-> FreshReader]

EndEpoch(outcome) == observed' = [observed EXCEPT !.outcome = outcome] /\ UNCHANGED scrape

\* More bytes of the answer arrive: a refusal ends the epoch.
Arrive(n) ==
  LET bytes == BytesOf(scrapes[scrape.number])
      r == Push(scrape.reader, SubSeq(bytes, scrape.pushed + 1, scrape.pushed + n))
  IN /\ observed.outcome = "none" /\ scrape.pushed + n <= Len(bytes)
     /\ IF r.failed # "none" THEN EndEpoch("Answer")
        ELSE scrape' = [scrape EXCEPT !.pushed = @ + n, !.reader = r] /\ UNCHANGED observed
     /\ UNCHANGED <<scrapes, given>>

\* The answer is complete.
Scraped(number) ==
  /\ observed.outcome = "none" /\ scrape.number = number
  /\ scrape.pushed = Len(BytesOf(scrapes[number]))
  /\ UNCHANGED <<scrapes, given>>

\* The one start-time sample of a whole exposition, or none.
Marker(r) == IF FinishExposition(r) = "none" /\ Len(r.markers) = 1 THEN r.markers[1] ELSE "none"

\* The epoch's first scrape gives S0.
StartScrape ==
  /\ Scraped(1)
  /\ IF Marker(scrape.reader) = "none" THEN EndEpoch("Answer")
     ELSE observed' = [observed EXCEPT !.s0 = Marker(scrape.reader)] /\ scrape' = NewScrape(2)

CheckMarker(r) ==
  CASE Marker(r) = "none" -> "Answer"
    [] Marker(r) # observed.s0 -> "ApiserverRestart"
    [] OTHER -> "none"

\* A later one is compared with it and judged.
CycleScrape ==
  LET r == scrape.reader
  IN Scraped(2) /\ EndEpoch(IF CheckMarker(r) # "none" THEN CheckMarker(r) ELSE Adm4(r.samples))

-----------------------------------------------------------------------------
Unscraped == scrape = NewScrape(1) /\ observed = [s0 |-> "none", outcome |-> "none"]

ManifestInit == scrapes \in Scrapes /\ given \in Givens /\ Unscraped

ManifestNext == StartScrape \/ CycleScrape \/ \E n \in 1 .. MaxPush : Arrive(n)

ManifestSpec == ManifestInit /\ [][ManifestNext]_manifestVars

-----------------------------------------------------------------------------
(* Properties *)

\* An exposition as a whole: every line within the limit and ended, every kept
\* one in form and of another label set, and not too many.
Kept(text, name) == SelectSeq(text.lines, LAMBDA line : line.size > 0 /\ line.name = name)
SampleOf(line, label) == {l.value : l \in {x \in Range(line.labels) : x.name = label}}
InForm(text) ==
  /\ text.lines = <<>> \/ text.ended \/ Last(text.lines).size = 0
  /\ \A line \in Range(text.lines) : line.size <= EXPOSITION_LINE
  /\ Len(Kept(text, "info")) + Len(Kept(text, "start")) <= SAMPLE_LIMIT
  /\ \A line \in Range(Kept(text, "start")) :
       line.labels = <<>> /\ line.value.spaced /\ ~line.value.trailing /\ line.value.text \in DECIMALS
  /\ \A line \in Range(Kept(text, "info")) :
       /\ line.value.spaced /\ ~line.value.trailing /\ line.value.text = "1"
       /\ \A label \in Range(line.labels) : label.good
       /\ Len(line.labels) = 3
       /\ \A name \in {"plugin", "apiserver_id_hash", "hash"} : \E label \in Range(line.labels) : label.name = name
  /\ \A i, j \in 1 .. Len(Kept(text, "info")) :
       i # j => Range(Kept(text, "info")[i].labels) # Range(Kept(text, "info")[j].labels)

\* What the two expositions say as a whole: refused if either is out of form or
\* has not exactly one start, then a restart if they name two starts, then a
\* clock that has no such window, and else the verdict of the one sample.
Verdict ==
  LET starts(text) == Kept(text, "start")
      later == Kept(scrapes[2], "info")
      usable(wall) == wall # NO_WALL /\ wall < MAX_WALL_SECONDS
      known == /\ given.version = ACCEPTED_KUBERNETES_VERSION /\ Len(later) = 1
               /\ SampleOf(later[1], "plugin") = {given.plugin} /\ SampleOf(later[1], "hash") \subseteq WELL_FORMED
  IN CASE \E text \in Range(scrapes) : ~InForm(text) \/ Len(starts(text)) # 1 -> "Answer"
       [] OTHER ->
            IF starts(scrapes[1])[1].value.text # starts(scrapes[2])[1].value.text THEN "ApiserverRestart"
            ELSE IF ~usable(given.start) \/ ~usable(given.end) THEN "Clock"
            ELSE IF ~known THEN "Adm4Unavailable"
            ELSE IF SampleOf(later[1], "hash") = {given.pinned} THEN "Match" ELSE "Adm4Mismatch"

\* However the bytes of the two scrapes are cut, the check ends with the verdict
\* of the expositions as a whole: a manifest matches only if the apiserver that
\* gave S0 reports the pinned hash and nothing else, and a clock that stands
\* still or turns back between the readings is never an input error.
\* (exposition.rs push and finish, observe.rs check_marker and adm4, utc.rs window)
MatchIsLoaded == observed.outcome # "none" => observed.outcome = Verdict
=============================================================================
