--------------------------- MODULE CollectionEntry --------------------------
(***************************************************************************)
(* The form of one stop in the mini app: CollectorQrScreen and             *)
(* CollectorEntryScreen of CollectorFlow.tsx, with container-code.ts,      *)
(* media-picker.ts, collection-entry-validation.ts and the vote of         *)
(* oil-image-analyzer.ts.                                                  *)
(*                                                                         *)
(* Lookup, picker, analysis, GPS and the write to the outbox all run while *)
(* the collector goes on editing, and each comes back to whatever the form *)
(* is by then.  An action is what runs from one await to the next.  What   *)
(* runs on after the screen was left reaches nothing (mountedRef).         *)
(*                                                                         *)
(* A photo stands for what the analyzer would say of it alone.  Liters are *)
(* either as forecast or one of Deviation, volumes so far off that the     *)
(* screen wants them confirmed.                                            *)
(***************************************************************************)
EXTENDS Naturals, Sequences, FiniteSets

CONSTANTS
  Code,       \* what may stand in the code field
  OwnCode,    \* the code of the container of this stop
  Look,       \* what a photo may look like: [grade, sure]
  Deviation,  \* volumes far off the forecast
  MaxPhotos,  \* bound: photos ever taken
  MaxRuns,    \* bound: analyses ever started
  Null        \* null

ASSUME EntryAssumption ==
  /\ OwnCode \in Code /\ MaxPhotos \in Nat /\ MaxRuns \in Nat
  /\ \A look \in Look : look.grade \in {"A", "B", "C", "broken", Null} /\ look.sure \in BOOLEAN

VARIABLE form

entryVars == <<form>>

-----------------------------------------------------------------------------
Grade == {"A", "B", "C"}

Photo == [id : 1..MaxPhotos, grade : Grade \cup {"broken", Null}, sure : BOOLEAN]

PhotoIds(ps) == {ps[i].id : i \in DOMAIN ps}

Without(ps, i) == SubSeq(ps, 1, i - 1) \o SubSeq(ps, i + 1, Len(ps))

(* reduce over A, B and C: the first of the grades most photos have.       *)
Votes(ps, g) == Cardinality({i \in DOMAIN ps : ps[i].grade = g})

Winner(ps) ==
  CASE Votes(ps, "A") >= Votes(ps, "B") /\ Votes(ps, "A") >= Votes(ps, "C") -> "A"
    [] Votes(ps, "B") > Votes(ps, "A") /\ Votes(ps, "B") >= Votes(ps, "C") -> "B"
    [] OTHER -> "C"

Graded(ps) == {i \in DOMAIN ps : ps[i].grade \in Grade}

(* A photo analyzeOilImages cannot decode; it is no photo that shows too   *)
(* little, which merely has no vote.                                       *)
Broken(ps) == \E i \in DOMAIN ps : ps[i].grade = "broken"

(* analyzeOilImages: no grade when a photo cannot be decoded or none has a *)
(* grade, and no confidence unless all that have one agree.                *)
Analysis(ps) ==
  LET first == CHOOSE i \in Graded(ps) : ps[i].grade = Winner(ps)
                 /\ \A j \in Graded(ps) : ps[j].grade = Winner(ps) => i <= j
      agree == Cardinality({ps[i].grade : i \in Graded(ps)}) = 1
  IN IF Broken(ps) \/ Graded(ps) = {} THEN [of |-> PhotoIds(ps), grade |-> Null, sure |-> FALSE]
     ELSE [of |-> PhotoIds(ps), grade |-> Winner(ps), sure |-> agree /\ ps[first].sure]

Verdict == [of : SUBSET (1..MaxPhotos), grade : Grade \cup {Null}, sure : BOOLEAN]

Volume == Deviation \cup {"near", "invalid"}

(* override is the verdict and the grade that were on the screen when the  *)
(* collector confirmed to keep the grade; the code stores that it is set.  *)
Confirmation == [verdict : Verdict, grade : Grade]

Source == {"gps", "centre"}

(* What submit stores; a place it may still have to find out.              *)
Payload ==
  [code : Code, grade : Grade, volume : Volume, photos : Seq(Photo), verdict : Verdict \cup {Null},
   override : Confirmation \cup {Null}, geo : Source \cup {Null}]

(* An analysis that runs.                                                  *)
Run == [no : 1..MaxRuns, photos : Seq(Photo)]

(* picker is the photos the open picker has kept, taken and run how many   *)
(* photos and analyses there were, payload what is being stored.           *)
FormState ==
  [screen : {"qr", "entry", "saving", "storing", "success"}, code : Code, lookup : Code \cup {Null},
   container : {OwnCode, Null}, mismatch : BOOLEAN, grade : Grade \cup {Null}, flagged : BOOLEAN,
   volume : Volume, ack : Deviation \cup {Null}, photos : Seq(Photo),
   picker : Seq(Photo) \cup {Null}, taken : 0..MaxPhotos, run : 0..MaxRuns,
   runs : SUBSET Run, verdict : Verdict \cup {Null},
   failed : BOOLEAN, override : Confirmation \cup {Null}, geo : Source \cup {Null},
   locating : BOOLEAN, payload : Payload \cup {Null}]

-----------------------------------------------------------------------------
(* The two screens as they open.                                           *)
Opened ==
  [screen |-> "qr", code |-> OwnCode, lookup |-> Null, container |-> Null, mismatch |-> FALSE,
   grade |-> Null, flagged |-> FALSE, volume |-> "near", ack |-> Null, photos |-> <<>>,
   picker |-> Null, taken |-> 0, run |-> 0, runs |-> {}, verdict |-> Null, failed |-> FALSE,
   override |-> Null, geo |-> Null, locating |-> FALSE, payload |-> Null]

Leave ==
  /\ form.screen \in {"qr", "entry"}
  /\ form' = Opened

(* The field stays editable while a code is looked up and afterwards.      *)
EditCode(c) ==
  /\ form.screen = "qr"
  /\ form' = [form EXCEPT !.code = c]

(* By camera or by hand: lookup forgets the container it found before.     *)
Lookup(c) ==
  /\ form.screen = "qr"
  /\ form.lookup = Null
  /\ form' = [form EXCEPT !.lookup = c, !.container = Null, !.mismatch = FALSE]

LookupFails ==
  /\ form.screen = "qr"
  /\ form.lookup # Null
  /\ form' = [form EXCEPT !.lookup = Null]

Expected_mutant(c) == TRUE

Expected(c) == c = OwnCode

Resolved ==
  LET c == form.lookup
  IN /\ form.screen = "qr"
     /\ c # Null
     /\ form' = [form EXCEPT !.lookup = Null, !.code = c,
                             !.mismatch = ~Expected(c),
                             !.container = IF Expected(c) THEN c ELSE Null]

(* The entry takes the container that was found and the code in the field. *)
Continue ==
  /\ form.screen = "qr"
  /\ form.container # Null
  /\ form' = [form EXCEPT !.screen = "entry", !.lookup = Null]

-----------------------------------------------------------------------------
Editing == form.screen = "entry"

(* A new grade, by hand or by taking the suggestion.                       *)
SelectGrade(g) ==
  /\ Editing
  /\ form' = [form EXCEPT !.grade = g, !.override = Null]

(* FLAG, or suspected adulteration: both want a photo.                     *)
Flag ==
  /\ Editing
  /\ form' = [form EXCEPT !.flagged = ~form.flagged]

(* The effect drops the confirmation of another deviation.                 *)
EnterVolume(v) ==
  /\ Editing
  /\ v # form.volume
  /\ form' = [form EXCEPT !.volume = v, !.ack = Null]

AcknowledgeDeviation ==
  /\ Editing
  /\ form.volume \in Deviation
  /\ form' = [form EXCEPT !.ack = IF form.ack = Null THEN form.volume ELSE Null]

Disagrees(f) ==
  /\ f.grade # Null
  /\ f.verdict # Null
  /\ f.verdict.grade \notin {Null, f.grade}
  /\ f.verdict.sure

(* The box is there while the grade differs from a suggestion.             *)
AcknowledgeOverride ==
  /\ Editing
  /\ Disagrees(form)
  /\ form' = [form EXCEPT !.override =
                IF form.override = Null THEN [verdict |-> form.verdict, grade |-> form.grade] ELSE Null]

-----------------------------------------------------------------------------
(* analyzePhotos(ps) with what its caller sets before.                     *)
Analyze(f, ps) ==
  [f EXCEPT !.run = f.run + 1, !.verdict = Null, !.failed = FALSE,
            !.runs = f.runs \cup (IF ps = <<>> THEN {} ELSE {[no |-> f.run + 1, photos |-> ps]})]

Changed_mutant(f, ps) == Analyze([f EXCEPT !.photos = ps], ps)

(* addPhoto and removePhoto.                                               *)
Changed(f, ps) == Analyze([f EXCEPT !.photos = ps, !.override = Null], ps)

(* One picker at a time; it keeps the photos of the moment it was opened.  *)
OpenPicker ==
  /\ Editing
  /\ form.picker = Null
  /\ form.taken < MaxPhotos
  /\ form' = [form EXCEPT !.picker = form.photos, !.taken = form.taken + 1]

(* The picker may be open while the form is saved.                         *)
Picked(look) ==
  LET photo == [id |-> form.taken, grade |-> look.grade, sure |-> look.sure]
  IN /\ form.screen \in {"entry", "saving", "storing"}
     /\ form.picker # Null
     /\ form.run < MaxRuns
     /\ form' = Changed([form EXCEPT !.picker = Null], Append(form.picker, photo))

(* Cancelled, refused or unreadable.                                       *)
PickerEnds ==
  /\ form.screen \in {"entry", "saving", "storing"}
  /\ form.picker # Null
  /\ form' = [form EXCEPT !.picker = Null]

RemovePhoto(i) ==
  /\ Editing
  /\ form.run < MaxRuns
  /\ i \in DOMAIN form.photos
  /\ form' = Changed(form, Without(form.photos, i))

Retry ==
  /\ Editing
  /\ form.failed
  /\ form.run < MaxRuns
  /\ form' = Analyze(form, form.photos)

Newest_mutant(r) == TRUE

(* run === analysisRunRef.current.                                         *)
Newest(r) == r.no = form.run

Analyzed(r) ==
  /\ form.screen \in {"entry", "saving", "storing"}
  /\ r \in form.runs
  /\ form' = [form EXCEPT !.runs = @ \ {r},
                          !.verdict = IF Newest(r) THEN Analysis(r.photos) ELSE @]

AnalysisFails(r) ==
  /\ form.screen \in {"entry", "saving", "storing"}
  /\ r \in form.runs
  /\ form' = [form EXCEPT !.runs = @ \ {r},
                          !.verdict = IF Newest(r) THEN Null ELSE @,
                          !.failed = IF Newest(r) THEN TRUE ELSE @]

-----------------------------------------------------------------------------
RetryGps ==
  /\ Editing
  /\ ~form.locating
  /\ form' = [form EXCEPT !.locating = TRUE]

GpsAnswers ==
  /\ form.screen \in {"entry", "saving", "storing"}
  /\ form.locating
  /\ form' \in {[form EXCEPT !.locating = FALSE, !.geo = "gps"],
                [form EXCEPT !.locating = FALSE]}

(* getCollectionSubmitBlockReasons: nothing blocks.                        *)
NeedsPhoto(f) == f.grade \in {"B", "C"} \/ f.flagged

Unblocked(f) ==
  /\ f.grade # Null
  /\ f.volume # "invalid"
  /\ NeedsPhoto(f) => f.photos # <<>>
  /\ f.volume \in Deviation => f.ack = f.volume
  /\ Disagrees(f) => f.override # Null

(* submit sees the form as it was when it was pressed, except for the      *)
(* place, which it may have to find out.                                   *)
Submit ==
  /\ Editing
  /\ Unblocked(form)
  /\ form' = [form EXCEPT
       !.screen = IF form.geo = Null THEN "saving" ELSE "storing",
       !.payload = [code |-> form.code, grade |-> form.grade, volume |-> form.volume,
                    photos |-> form.photos, verdict |-> form.verdict,
                    override |-> form.override, geo |-> form.geo]]

(* By GPS, or else the centre of the ward.                                 *)
Located(geo) ==
  /\ form.screen = "saving"
  /\ form' = [form EXCEPT !.screen = "storing", !.geo = geo, !.payload.geo = geo]

(* No place to be had, or the outbox cannot be written.                    *)
SubmitFails ==
  /\ form.screen \in {"saving", "storing"}
  /\ form' = [form EXCEPT !.screen = "entry", !.payload = Null]

Enqueued ==
  /\ form.screen = "storing"
  /\ form' = [form EXCEPT !.screen = "success"]

-----------------------------------------------------------------------------
EntryInit == form = Opened

Identify ==
  \/ Leave
  \/ \E c \in Code : EditCode(c) \/ Lookup(c)
  \/ LookupFails
  \/ Resolved
  \/ Continue

FillIn ==
  \/ \E g \in Grade : SelectGrade(g)
  \/ Flag
  \/ \E v \in Volume : EnterVolume(v)
  \/ AcknowledgeDeviation
  \/ AcknowledgeOverride

Photograph ==
  \/ OpenPicker
  \/ \E look \in Look : Picked(look)
  \/ PickerEnds
  \/ \E i \in DOMAIN form.photos : RemovePhoto(i)
  \/ Retry
  \/ \E r \in form.runs : Analyzed(r) \/ AnalysisFails(r)

Confirm ==
  \/ RetryGps
  \/ GpsAnswers
  \/ Submit
  \/ \E geo \in Source : Located(geo)
  \/ SubmitFails
  \/ Enqueued

EntryNext == Identify \/ FillIn \/ Photograph \/ Confirm

EntrySpec == EntryInit /\ [][EntryNext]_entryVars

-----------------------------------------------------------------------------
IsSubmitted == form.screen = "success"

(* Types; what is stored has a place, and the photo an open picker will    *)
(* bring has its number.                                                   *)
EntryTypeOK ==
  /\ form \in FormState
  /\ form.picker # Null => form.taken > 0
  /\ form.screen \in {"saving", "storing", "success"} => form.payload \in Payload
  /\ form.screen \in {"storing", "success"} => form.payload.geo \in Source

(* What the analyzer is said to have suggested, on the screen and in the   *)
(* collection that is stored, is its verdict on the photos that go with    *)
(* it, however the analyses overtake each other (analysisRunRef).          *)
VerdictIsOfThePhotos ==
  /\ form.verdict # Null => form.verdict = Analysis(form.photos)
  /\ IsSubmitted /\ form.payload.verdict # Null => form.payload.verdict = Analysis(form.payload.photos)

(* A grade that is kept against a suggestion was confirmed by the          *)
(* collector against that very suggestion: no confirmation outlives the    *)
(* grade or the photos it was given for (setOverrideAcknowledged).         *)
OverrideIsOfTheVerdict ==
  IsSubmitted /\ Disagrees(form.payload) =>
    form.payload.override = [verdict |-> form.payload.verdict, grade |-> form.payload.grade]

-----------------------------------------------------------------------------
(* Why this holds: only the newest analysis is heard, and it looks at the  *)
(* photos of the form; a confirmation is of what it would say; and what is *)
(* being stored was put together while nothing blocked it.                 *)
HeardIsOfThePhotos ==
  /\ \A r \in form.runs : r.no <= form.run /\ (Newest(r) => r.photos = form.photos)
  /\ form.verdict # Null => form.verdict = Analysis(form.photos)
  /\ form.override # Null =>
       form.override = [verdict |-> Analysis(form.photos), grade |-> form.grade]

PayloadStands ==
  form.screen \in {"saving", "storing", "success"} =>
    /\ form.payload.verdict # Null => form.payload.verdict = Analysis(form.payload.photos)
    /\ Disagrees(form.payload) =>
         form.payload.override = [verdict |-> form.payload.verdict, grade |-> form.payload.grade]

EntryInv == EntryTypeOK /\ HeardIsOfThePhotos /\ PayloadStands
=============================================================================
