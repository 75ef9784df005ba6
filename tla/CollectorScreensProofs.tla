----------------------- MODULE CollectorScreensProofs -----------------------
(***************************************************************************)
(* Theorems of CollectionEntry, the form of a stop, and of Devices, the    *)
(* camera and the location, for any number of codes, photos, analyses,     *)
(* deviations, scans, screens and tokens.                                  *)
(*                                                                         *)
(* The inductive invariant of the form is EntryInv.  What an analysis      *)
(* computes is kept out of it except for its type: it matters only which   *)
(* photos it is of.  A token is redeemed once because it is sent once, and *)
(* what is known of a token follows its only request: it has not reached   *)
(* Zalo before Exchange, and no request of it is posted after.             *)
(***************************************************************************)
EXTENDS CollectionEntry, Devices, SequenceTheorems, TLAPS

(* Analysis of the photos of a form says one thing or nothing.             *)
LEMMA AnalysisTypeCorrect ==
  ASSUME NEW ps \in Seq(Photo)
  PROVE  Analysis(ps) \in Verdict
<1>1. PhotoIds(ps) \in SUBSET (1..MaxPhotos)
  <2>1. \A i \in DOMAIN ps : ps[i] \in Photo
    OBVIOUS
  <2> QED BY <2>1 DEF PhotoIds, Photo
<1>2. Winner(ps) \in Grade
  <2>1. Winner(ps) \in {"A", "B", "C"}
    <3>. HIDE DEF Votes
    <3> QED BY DEF Winner
  <2> QED BY <2>1 DEF Grade
<1> DEFINE first == CHOOSE i \in Graded(ps) : ps[i].grade = Winner(ps)
                      /\ \A j \in Graded(ps) : ps[j].grade = Winner(ps) => i <= j
           agree == Cardinality({ps[i].grade : i \in Graded(ps)}) = 1
<1>3. (agree /\ ps[first].sure) \in BOOLEAN
  OBVIOUS
<1>4. Analysis(ps) = IF Broken(ps) \/ Graded(ps) = {} THEN [of |-> PhotoIds(ps), grade |-> Null, sure |-> FALSE]
                     ELSE [of |-> PhotoIds(ps), grade |-> Winner(ps), sure |-> agree /\ ps[first].sure]
  BY DEF Analysis
<1> HIDE DEF first, agree
<1> QED BY <1>1, <1>2, <1>3, <1>4 DEF Verdict

LEMMA WithoutTypeCorrect ==
  ASSUME NEW S, NEW ps \in Seq(S), NEW i \in DOMAIN ps
  PROVE  Without(ps, i) \in Seq(S)
<1>1. i \in 1..Len(ps) /\ Len(ps) \in Nat
  OBVIOUS
<1>2. SubSeq(ps, 1, i - 1) \in Seq(S) /\ SubSeq(ps, i + 1, Len(ps)) \in Seq(S)
  BY <1>1, SubSeqProperties
<1> QED BY <1>2, ConcatProperties DEF Without

-----------------------------------------------------------------------------
(* The marks on the form.                                                  *)
LEMMA MarksTypeCorrect ==
  \A f \in FormState, b \in BOOLEAN :
    /\ [f EXCEPT !.mismatch = b] \in FormState /\ [f EXCEPT !.flagged = b] \in FormState
    /\ [f EXCEPT !.failed = b] \in FormState /\ [f EXCEPT !.locating = b] \in FormState
<1>1. \A f \in FormState, b \in BOOLEAN :
        [f EXCEPT !.mismatch = b] \in FormState /\ [f EXCEPT !.flagged = b] \in FormState
  BY DEF FormState
<1>2. \A f \in FormState, b \in BOOLEAN : [f EXCEPT !.failed = b] \in FormState
  BY DEF FormState
<1>3. \A f \in FormState, b \in BOOLEAN : [f EXCEPT !.locating = b] \in FormState
  BY DEF FormState
<1> QED BY <1>1, <1>2, <1>3

LEMMA RunsTypeCorrect ==
  ASSUME NEW f \in FormState, NEW runs \in SUBSET Run
  PROVE  [f EXCEPT !.runs = runs] \in FormState
BY DEF FormState

(* Most steps leave alone what the invariant relates.                      *)
LEMMA UntouchedStep ==
  ASSUME EntryInv, form' \in FormState,
         /\ form'.grade = form.grade /\ form'.photos = form.photos /\ form'.run = form.run
         /\ form'.runs = form.runs /\ form'.verdict = form.verdict /\ form'.override = form.override
         /\ form'.taken = form.taken,
         form'.picker = form.picker \/ form'.picker = Null,
         \/ form'.screen = form.screen /\ form'.payload = form.payload
         \/ form'.screen \in {"qr", "entry"}
  PROVE  EntryInv'
<1>1. EntryTypeOK'
  BY DEF EntryInv, EntryTypeOK
<1>2. HeardIsOfThePhotos'
  BY DEF EntryInv, HeardIsOfThePhotos, Newest
<1>3. PayloadStands'
  BY DEF EntryInv, PayloadStands, Disagrees
<1> QED BY <1>1, <1>2, <1>3 DEF EntryInv

LEMMA IdentifyStep ==
  ASSUME EntryInv, Identify
  PROVE  EntryInv'
<1>0. form \in FormState
  BY DEF EntryInv, EntryTypeOK
<1>1. CASE Leave
  <2>1. form' = Opened
    BY <1>1 DEF Leave
  <2>2. Opened \in FormState /\ Opened.runs = {} /\ Opened.verdict = Null /\ Opened.override = Null
        /\ Opened.screen = "qr" /\ Opened.picker = Null
    BY EntryAssumption DEF Opened, Volume, FormState
  <2> QED BY <2>1, <2>2 DEF EntryInv, EntryTypeOK, HeardIsOfThePhotos, PayloadStands
<1>2. ASSUME NEW c \in Code, EditCode(c)
      PROVE  EntryInv'
  <2>1. form' \in FormState
    BY <1>0, <1>2 DEF EditCode, FormState
  <2> QED BY <1>0, <1>2, <2>1, UntouchedStep DEF EditCode, FormState
<1>3. ASSUME NEW c \in Code, Lookup(c)
      PROVE  EntryInv'
  <2>1. [form EXCEPT !.lookup = c, !.container = Null] \in FormState
    BY <1>0 DEF FormState
  <2>2. form' \in FormState
    BY <1>3, <2>1, MarksTypeCorrect DEF Lookup
  <2> QED BY <1>0, <1>3, <2>2, UntouchedStep DEF Lookup, FormState
<1>4. CASE LookupFails
  <2>1. form' \in FormState
    BY <1>0, <1>4 DEF LookupFails, FormState
  <2> QED BY <1>0, <1>4, <2>1, UntouchedStep DEF LookupFails, FormState
<1>5. CASE Resolved
  <2> DEFINE c == form.lookup
             hit == ~Expected(c)
             found == IF Expected(c) THEN c ELSE Null
  <2>1. c \in Code /\ hit \in BOOLEAN /\ found \in {OwnCode, Null}
    BY <1>0, <1>5 DEF Resolved, Expected, FormState
  <2>2. form' = [form EXCEPT !.lookup = Null, !.code = c, !.mismatch = hit, !.container = found]
    BY <1>5 DEF Resolved
  <2> HIDE DEF c, hit, found
  <2>3. form' \in FormState
    <3>1. [form EXCEPT !.lookup = Null, !.code = c] \in FormState
      BY <1>0, <2>1 DEF FormState
    <3>2. [form EXCEPT !.lookup = Null, !.code = c, !.mismatch = hit] \in FormState
      BY <2>1, <3>1, MarksTypeCorrect
    <3>3. \A f \in FormState : [f EXCEPT !.container = found] \in FormState
      BY <2>1 DEF FormState
    <3> QED BY <2>2, <3>2, <3>3
  <2> QED BY <1>0, <2>2, <2>3, UntouchedStep DEF FormState
<1>6. CASE Continue
  <2>1. form' \in FormState
    BY <1>0, <1>6 DEF Continue, FormState
  <2> QED BY <1>0, <1>6, <2>1, UntouchedStep DEF Continue, FormState
<1> QED BY <1>1, <1>2, <1>3, <1>4, <1>5, <1>6 DEF Identify

LEMMA FillInStep ==
  ASSUME EntryInv, FillIn
  PROVE  EntryInv'
<1>0. form \in FormState
  BY DEF EntryInv, EntryTypeOK
<1>1. ASSUME NEW g \in Grade, SelectGrade(g)
      PROVE  EntryInv'
  <2>1. form' \in FormState
    BY <1>0, <1>1 DEF SelectGrade, FormState
  <2>2. /\ form'.screen = "entry" /\ form'.override = Null /\ form'.photos = form.photos
        /\ form'.run = form.run /\ form'.runs = form.runs /\ form'.verdict = form.verdict
        /\ form'.picker = form.picker /\ form'.taken = form.taken
    BY <1>0, <1>1 DEF SelectGrade, Editing, FormState
  <2> QED BY <2>1, <2>2 DEF EntryInv, EntryTypeOK, HeardIsOfThePhotos, PayloadStands, Newest
<1>2. CASE Flag
  <2> DEFINE flagged == ~form.flagged
  <2>1. flagged \in BOOLEAN /\ form' = [form EXCEPT !.flagged = flagged]
    BY <1>2 DEF Flag
  <2> HIDE DEF flagged
  <2>2. form' \in FormState
    BY <1>0, <2>1, MarksTypeCorrect
  <2> QED BY <1>0, <2>1, <2>2, UntouchedStep DEF FormState
<1>3. ASSUME NEW v \in Volume, EnterVolume(v)
      PROVE  EntryInv'
  <2>1. form' \in FormState
    BY <1>0, <1>3 DEF EnterVolume, FormState
  <2> QED BY <1>0, <1>3, <2>1, UntouchedStep DEF EnterVolume, FormState
<1>4. CASE AcknowledgeDeviation
  <2> DEFINE ack == IF form.ack = Null THEN form.volume ELSE Null
  <2>1. form' = [form EXCEPT !.ack = ack] /\ ack \in Deviation \cup {Null}
    BY <1>4 DEF AcknowledgeDeviation
  <2> HIDE DEF ack
  <2>2. form' \in FormState
    BY <1>0, <2>1 DEF FormState
  <2> QED BY <1>0, <2>1, <2>2, UntouchedStep DEF FormState
<1>5. CASE AcknowledgeOverride
  <2> DEFINE override == IF form.override = Null THEN [verdict |-> form.verdict, grade |-> form.grade]
                         ELSE Null
  <2>1. /\ form' = [form EXCEPT !.override = override]
        /\ form.verdict # Null /\ form.verdict \in Verdict /\ form.grade \in Grade
        /\ form.screen = "entry"
    BY <1>0, <1>5 DEF AcknowledgeOverride, Disagrees, FormState, Editing
  <2>2. override \in Confirmation \cup {Null}
    BY <2>1 DEF Confirmation
  <2>3. form.verdict = Analysis(form.photos)
    BY <2>1 DEF EntryInv, HeardIsOfThePhotos
  <2>4. override # Null => override = [verdict |-> Analysis(form.photos), grade |-> form.grade]
    BY <2>3
  <2> HIDE DEF override
  <2>5. form' \in FormState
    BY <1>0, <2>1, <2>2 DEF FormState
  <2>6. /\ form'.screen = "entry" /\ form'.override = override /\ form'.photos = form.photos
        /\ form'.run = form.run /\ form'.runs = form.runs /\ form'.verdict = form.verdict
        /\ form'.grade = form.grade /\ form'.picker = form.picker /\ form'.taken = form.taken
    BY <1>0, <2>1 DEF FormState
  <2> QED BY <2>4, <2>5, <2>6 DEF EntryInv, EntryTypeOK, HeardIsOfThePhotos, PayloadStands, Newest
<1> QED BY <1>1, <1>2, <1>3, <1>4, <1>5 DEF FillIn

-----------------------------------------------------------------------------
(* Other photos, or another analysis of the same: every analysis that runs *)
(* is older than the one that starts, which is of the photos of the form.  *)
LEMMA AnalyzeStep ==
  ASSUME EntryInv, NEW f \in FormState, NEW ps \in Seq(Photo),
         f.photos = ps, f.screen = form.screen, f.payload = form.payload,
         f.run = form.run, f.runs = form.runs, f.taken = form.taken, f.grade = form.grade,
         f.override \in {Null, form.override},
         f.override # Null => ps = form.photos,
         f.picker \in {Null, form.picker},
         form.run < MaxRuns, form' = Analyze(f, ps)
  PROVE  EntryInv'
<1> USE EntryAssumption
<1> DEFINE next == f.run + 1
           new == IF ps = <<>> THEN {} ELSE {[no |-> next, photos |-> ps]}
           runs == f.runs \cup new
<1>1. /\ form \in FormState /\ form.run \in Nat /\ next \in 1..MaxRuns /\ next \in 0..MaxRuns
      /\ form.runs \subseteq Run
  BY DEF EntryInv, EntryTypeOK, FormState
<1>2. runs \in SUBSET Run
  BY <1>1 DEF Run
<1>3. form' = [f EXCEPT !.run = next, !.verdict = Null, !.failed = FALSE, !.runs = runs]
  BY DEF Analyze
<1>4. \A r \in runs : r.no <= next /\ (r.no = next => r.photos = ps)
  <2>1. \A r \in form.runs : r.no <= form.run /\ r.no \in Nat
    BY <1>1 DEF EntryInv, HeardIsOfThePhotos, Run
  <2> QED BY <1>1, <2>1
<1> HIDE DEF next, runs
<1>5. form' \in FormState
  <2>1. [f EXCEPT !.run = next, !.verdict = Null] \in FormState
    BY <1>1 DEF FormState
  <2>2. [f EXCEPT !.run = next, !.verdict = Null, !.failed = FALSE] \in FormState
    BY <2>1, MarksTypeCorrect
  <2> QED BY <1>2, <1>3, <2>2, RunsTypeCorrect
<1>6. /\ form'.run = next /\ form'.runs = runs /\ form'.verdict = Null /\ form'.photos = ps
      /\ form'.screen = form.screen /\ form'.payload = form.payload /\ form'.taken = form.taken
      /\ form'.picker = f.picker /\ form'.override = f.override /\ form'.grade = form.grade
  BY <1>3 DEF FormState
<1>7. EntryTypeOK'
  BY <1>5, <1>6 DEF EntryInv, EntryTypeOK
<1>8. HeardIsOfThePhotos'
  BY <1>4, <1>6 DEF EntryInv, HeardIsOfThePhotos, Newest
<1>9. PayloadStands'
  BY <1>6 DEF EntryInv, PayloadStands, Disagrees
<1> QED BY <1>7, <1>8, <1>9 DEF EntryInv

(* An analysis ends, with a verdict or without.                            *)
LEMMA HeardStep ==
  ASSUME EntryInv, form' \in FormState,
         form'.runs \subseteq form.runs,
         form'.verdict \in {form.verdict, Null, Analysis(form.photos)},
         /\ form'.photos = form.photos /\ form'.screen = form.screen /\ form'.payload = form.payload
         /\ form'.taken = form.taken /\ form'.picker = form.picker /\ form'.override = form.override
         /\ form'.grade = form.grade /\ form'.run = form.run
  PROVE  EntryInv'
<1>1. EntryTypeOK'
  BY DEF EntryInv, EntryTypeOK
<1>2. HeardIsOfThePhotos'
  BY DEF EntryInv, HeardIsOfThePhotos, Newest
<1>3. PayloadStands'
  BY DEF EntryInv, PayloadStands, Disagrees
<1> QED BY <1>1, <1>2, <1>3 DEF EntryInv

LEMMA PhotographStep ==
  ASSUME EntryInv, Photograph
  PROVE  EntryInv'
<1> USE EntryAssumption
<1>0. form \in FormState /\ form.photos \in Seq(Photo)
  BY DEF EntryInv, EntryTypeOK, FormState
<1>1. CASE OpenPicker
  <2>1. /\ form.screen = "entry" /\ form.taken \in Nat /\ form.taken + 1 \in 0..MaxPhotos
        /\ form' = [form EXCEPT !.picker = form.photos, !.taken = form.taken + 1]
    BY <1>0, <1>1 DEF OpenPicker, Editing, FormState
  <2>2. form' \in FormState
    BY <1>0, <2>1 DEF FormState
  <2>3. /\ form'.screen = "entry" /\ form'.taken > 0 /\ form'.photos = form.photos
        /\ form'.run = form.run /\ form'.runs = form.runs /\ form'.verdict = form.verdict
        /\ form'.grade = form.grade /\ form'.override = form.override
    BY <1>0, <2>1 DEF FormState
  <2> QED BY <2>2, <2>3 DEF EntryInv, EntryTypeOK, HeardIsOfThePhotos, PayloadStands, Newest
<1>2. ASSUME NEW look \in Look, Picked(look)
      PROVE  EntryInv'
  <2> DEFINE photo == [id |-> form.taken, grade |-> look.grade, sure |-> look.sure]
             ps == Append(form.picker, photo)
             f == [[form EXCEPT !.picker = Null] EXCEPT !.photos = ps, !.override = Null]
  <2>1. /\ form.picker # Null /\ form.picker \in Seq(Photo) /\ form.taken \in 1..MaxPhotos
        /\ form.run < MaxRuns
    BY <1>0, <1>2 DEF Picked, FormState, EntryInv, EntryTypeOK
  <2>2. photo \in Photo
    BY <2>1 DEF Photo, Grade
  <2>3. form' = Analyze(f, ps)
    BY <1>2 DEF Picked, Changed
  <2> HIDE DEF photo
  <2>4. ps \in Seq(Photo)
    BY <2>1, <2>2
  <2> HIDE DEF ps
  <2>5. f \in FormState
    BY <1>0, <2>4 DEF FormState
  <2>6. f.photos = ps /\ f.screen = form.screen /\ f.payload = form.payload
        /\ f.run = form.run /\ f.runs = form.runs /\ f.taken = form.taken /\ f.grade = form.grade
        /\ f.override = Null /\ f.picker = Null
    BY <1>0 DEF FormState
  <2> HIDE DEF f
  <2>7. f.override # Null => ps = form.photos
    BY <2>6
  <2> QED BY <2>1, <2>3, <2>4, <2>5, <2>6, <2>7, AnalyzeStep
<1>3. CASE PickerEnds
  <2>1. form' \in FormState
    BY <1>0, <1>3 DEF PickerEnds, FormState
  <2> QED BY <1>0, <1>3, <2>1, UntouchedStep DEF PickerEnds, FormState
<1>4. ASSUME NEW i \in DOMAIN form.photos, RemovePhoto(i)
      PROVE  EntryInv'
  <2> DEFINE ps == Without(form.photos, i)
             f == [form EXCEPT !.photos = ps, !.override = Null]
  <2>1. ps \in Seq(Photo) /\ form.run < MaxRuns
    BY <1>0, <1>4, WithoutTypeCorrect DEF RemovePhoto
  <2>2. form' = Analyze(f, ps)
    BY <1>4 DEF RemovePhoto, Changed
  <2> HIDE DEF ps
  <2>3. f \in FormState
    BY <1>0, <2>1 DEF FormState
  <2>4. f.photos = ps /\ f.screen = form.screen /\ f.payload = form.payload
        /\ f.run = form.run /\ f.runs = form.runs /\ f.taken = form.taken /\ f.grade = form.grade
        /\ f.override = Null /\ f.picker = form.picker
    BY <1>0 DEF FormState
  <2> HIDE DEF f
  <2>5. f.override # Null => ps = form.photos
    BY <2>4
  <2> QED BY <2>1, <2>2, <2>3, <2>4, <2>5, AnalyzeStep
<1>5. CASE Retry
  BY <1>0, <1>5, AnalyzeStep DEF Retry
<1>6. ASSUME NEW r \in form.runs, Analyzed(r)
      PROVE  EntryInv'
  <2> DEFINE verdict == IF Newest(r) THEN Analysis(r.photos) ELSE form.verdict
             runs == form.runs \ {r}
  <2>1. form' = [form EXCEPT !.runs = runs, !.verdict = verdict]
    BY <1>0, <1>6 DEF Analyzed, FormState
  <2>2. r.photos \in Seq(Photo) /\ runs \in SUBSET Run
    BY <1>0 DEF Run, FormState
  <2>3. verdict \in {form.verdict, Analysis(form.photos)} /\ verdict \in Verdict \cup {Null}
    BY <1>0, <2>2, AnalysisTypeCorrect DEF FormState, EntryInv, HeardIsOfThePhotos
  <2>4. runs \subseteq form.runs
    OBVIOUS
  <2> HIDE DEF verdict, runs
  <2>5. form' \in FormState
    BY <1>0, <2>1, <2>2, <2>3 DEF FormState
  <2>6. /\ form'.runs = runs /\ form'.verdict = verdict /\ form'.photos = form.photos
        /\ form'.screen = form.screen /\ form'.payload = form.payload /\ form'.taken = form.taken
        /\ form'.picker = form.picker /\ form'.override = form.override /\ form'.grade = form.grade
        /\ form'.run = form.run
    BY <1>0, <2>1 DEF FormState
  <2> QED BY <2>3, <2>4, <2>5, <2>6, HeardStep
<1>7. ASSUME NEW r \in form.runs, AnalysisFails(r)
      PROVE  EntryInv'
  <2> DEFINE verdict == IF Newest(r) THEN Null ELSE form.verdict
             failed == IF Newest(r) THEN TRUE ELSE form.failed
             runs == form.runs \ {r}
  <2>1. form' = [form EXCEPT !.runs = runs, !.verdict = verdict, !.failed = failed]
    BY <1>0, <1>7 DEF AnalysisFails, FormState
  <2>2. /\ verdict \in {form.verdict, Null} /\ verdict \in Verdict \cup {Null}
        /\ failed \in BOOLEAN /\ runs \in SUBSET Run /\ runs \subseteq form.runs
    BY <1>0 DEF FormState
  <2> HIDE DEF verdict, failed, runs
  <2>3. [form EXCEPT !.runs = runs, !.verdict = verdict] \in FormState
    BY <1>0, <2>2 DEF FormState
  <2>4. form' \in FormState
    BY <2>1, <2>2, <2>3, MarksTypeCorrect
  <2>5. /\ form'.runs = runs /\ form'.verdict = verdict /\ form'.photos = form.photos
        /\ form'.screen = form.screen /\ form'.payload = form.payload /\ form'.taken = form.taken
        /\ form'.picker = form.picker /\ form'.override = form.override /\ form'.grade = form.grade
        /\ form'.run = form.run
    BY <1>0, <2>1 DEF FormState
  <2> QED BY <2>2, <2>4, <2>5, HeardStep
<1> QED BY <1>1, <1>2, <1>3, <1>4, <1>5, <1>6, <1>7 DEF Photograph

-----------------------------------------------------------------------------
(* What is stored is put together while nothing blocks it: the grade was   *)
(* confirmed against the verdict that goes with it.                        *)
LEMMA SubmitStep ==
  ASSUME EntryInv, Submit
  PROVE  EntryInv'
<1> DEFINE payload == [code |-> form.code, grade |-> form.grade, volume |-> form.volume,
                       photos |-> form.photos, verdict |-> form.verdict,
                       override |-> form.override, geo |-> form.geo]
           screen == IF form.geo = Null THEN "saving" ELSE "storing"
<1>1. form \in FormState /\ form.grade # Null
  BY DEF EntryInv, EntryTypeOK, Submit, Unblocked
<1>2. payload \in Payload
  BY <1>1 DEF FormState, Payload
<1>3. screen \in {"saving", "storing"} /\ (screen = "storing" => payload.geo \in Source)
  BY <1>1 DEF FormState
<1>4. /\ payload.verdict # Null => payload.verdict = Analysis(payload.photos)
      /\ Disagrees(payload) =>
           payload.override = [verdict |-> payload.verdict, grade |-> payload.grade]
  BY DEF EntryInv, HeardIsOfThePhotos, Submit, Unblocked, Disagrees
<1>5. form' = [form EXCEPT !.screen = screen, !.payload = payload]
  BY DEF Submit
<1> HIDE DEF payload, screen
<1>6. form' \in FormState
  BY <1>1, <1>2, <1>3, <1>5 DEF FormState
<1>7. /\ form'.screen = screen /\ form'.payload = payload /\ form'.photos = form.photos
      /\ form'.run = form.run /\ form'.runs = form.runs /\ form'.verdict = form.verdict
      /\ form'.grade = form.grade /\ form'.override = form.override /\ form'.picker = form.picker
      /\ form'.taken = form.taken
  BY <1>1, <1>5 DEF FormState
<1>8. EntryTypeOK'
  BY <1>2, <1>3, <1>6, <1>7 DEF EntryInv, EntryTypeOK
<1>9. HeardIsOfThePhotos'
  BY <1>7 DEF EntryInv, HeardIsOfThePhotos, Newest
<1>10. PayloadStands'
  BY <1>4, <1>7 DEF PayloadStands
<1> QED BY <1>8, <1>9, <1>10 DEF EntryInv

(* The rest of saving leaves the payload alone but for its place.          *)
LEMMA StoringStep ==
  ASSUME EntryInv, form' \in FormState, form.screen \in {"saving", "storing"},
         form'.screen \in {"storing", "success"},
         form'.payload \in Payload, form'.payload.geo \in Source,
         /\ form'.payload.verdict = form.payload.verdict /\ form'.payload.photos = form.payload.photos
         /\ form'.payload.grade = form.payload.grade /\ form'.payload.override = form.payload.override,
         /\ form'.grade = form.grade /\ form'.photos = form.photos /\ form'.run = form.run
         /\ form'.runs = form.runs /\ form'.verdict = form.verdict /\ form'.override = form.override
         /\ form'.taken = form.taken /\ form'.picker = form.picker
  PROVE  EntryInv'
<1>1. EntryTypeOK'
  BY DEF EntryInv, EntryTypeOK
<1>2. HeardIsOfThePhotos'
  BY DEF EntryInv, HeardIsOfThePhotos, Newest
<1>3. PayloadStands'
  BY DEF EntryInv, PayloadStands, Disagrees
<1> QED BY <1>1, <1>2, <1>3 DEF EntryInv

LEMMA ConfirmStep ==
  ASSUME EntryInv, Confirm
  PROVE  EntryInv'
<1>0. form \in FormState
  BY DEF EntryInv, EntryTypeOK
<1>1. CASE RetryGps
  <2>1. form' \in FormState
    BY <1>0, <1>1, MarksTypeCorrect DEF RetryGps
  <2> QED BY <1>0, <1>1, <2>1, UntouchedStep DEF RetryGps, FormState
<1>2. CASE GpsAnswers
  <2>1. [form EXCEPT !.locating = FALSE] \in FormState
    BY <1>0, MarksTypeCorrect
  <2>2. [form EXCEPT !.locating = FALSE, !.geo = "gps"] \in FormState
    BY <2>1 DEF FormState, Source
  <2>3. form' \in FormState
    BY <1>2, <2>1, <2>2 DEF GpsAnswers
  <2>4. /\ form'.grade = form.grade /\ form'.photos = form.photos /\ form'.run = form.run
        /\ form'.runs = form.runs /\ form'.verdict = form.verdict /\ form'.override = form.override
        /\ form'.taken = form.taken /\ form'.picker = form.picker
        /\ form'.screen = form.screen /\ form'.payload = form.payload
    BY <1>0, <1>2 DEF GpsAnswers, FormState
  <2> QED BY <2>3, <2>4, UntouchedStep
<1>3. ASSUME NEW geo \in Source, Located(geo)
      PROVE  EntryInv'
  <2> DEFINE payload == [form.payload EXCEPT !.geo = geo]
  <2>1. form.screen = "saving" /\ form.payload \in Payload
    BY <1>3 DEF Located, EntryInv, EntryTypeOK
  <2>2. /\ payload \in Payload /\ payload.geo = geo /\ payload.verdict = form.payload.verdict
        /\ payload.photos = form.payload.photos /\ payload.grade = form.payload.grade
        /\ payload.override = form.payload.override
    BY <2>1 DEF Payload
  <2>3. form' = [form EXCEPT !.screen = "storing", !.geo = geo, !.payload = payload]
    BY <1>0, <1>3 DEF Located, FormState
  <2> HIDE DEF payload
  <2>4. form' \in FormState
    <3>1. [form EXCEPT !.screen = "storing", !.geo = geo] \in FormState
      <4>1. \A f \in FormState : [f EXCEPT !.screen = "storing"] \in FormState
        BY DEF FormState
      <4>2. \A f \in FormState, g \in Source : [f EXCEPT !.geo = g] \in FormState
        BY DEF FormState
      <4> QED BY <1>0, <4>1, <4>2
    <3>2. \A f \in FormState, p \in Payload : [f EXCEPT !.payload = p] \in FormState
      BY DEF FormState
    <3> QED BY <1>0, <2>2, <2>3, <3>1, <3>2
  <2>5. /\ form'.grade = form.grade /\ form'.photos = form.photos /\ form'.run = form.run
        /\ form'.runs = form.runs /\ form'.verdict = form.verdict /\ form'.override = form.override
        /\ form'.taken = form.taken /\ form'.picker = form.picker
        /\ form'.screen = "storing" /\ form'.payload = payload
    BY <1>0, <2>3 DEF FormState
  <2> QED BY <2>1, <2>2, <2>4, <2>5, StoringStep
<1>4. CASE SubmitFails
  <2>1. form' \in FormState
    BY <1>0, <1>4 DEF SubmitFails, FormState
  <2> QED BY <1>0, <1>4, <2>1, UntouchedStep DEF SubmitFails, FormState
<1>5. CASE Enqueued
  <2>1. form' \in FormState
    BY <1>0, <1>5 DEF Enqueued, FormState
  <2>2. form.screen = "storing" /\ form.payload \in Payload /\ form.payload.geo \in Source
    BY <1>5 DEF Enqueued, EntryInv, EntryTypeOK
  <2>3. /\ form'.grade = form.grade /\ form'.photos = form.photos /\ form'.run = form.run
        /\ form'.runs = form.runs /\ form'.verdict = form.verdict /\ form'.override = form.override
        /\ form'.taken = form.taken /\ form'.picker = form.picker
        /\ form'.screen = "success" /\ form'.payload = form.payload
    BY <1>0, <1>5 DEF Enqueued, FormState
  <2> QED BY <2>1, <2>2, <2>3, StoringStep
<1> QED BY <1>1, <1>2, <1>3, <1>4, <1>5, SubmitStep DEF Confirm

-----------------------------------------------------------------------------
LEMMA EntryInitially == EntryInit => EntryInv
<1>1. Opened \in FormState /\ Opened.runs = {} /\ Opened.verdict = Null /\ Opened.override = Null
      /\ Opened.screen = "qr" /\ Opened.picker = Null
  BY EntryAssumption DEF Opened, Volume, FormState
<1> QED BY <1>1 DEF EntryInit, EntryInv, EntryTypeOK, HeardIsOfThePhotos, PayloadStands

LEMMA EntryStep == EntryInv /\ [EntryNext]_entryVars => EntryInv'
<1> SUFFICES ASSUME EntryInv, [EntryNext]_entryVars
             PROVE  EntryInv'
  OBVIOUS
<1>1. CASE EntryNext
  BY <1>1, IdentifyStep, FillInStep, PhotographStep, ConfirmStep DEF EntryNext
<1>2. CASE UNCHANGED entryVars
  BY <1>2 DEF entryVars, EntryInv, EntryTypeOK, HeardIsOfThePhotos, PayloadStands, Newest
<1> QED BY <1>1, <1>2

LEMMA EntryInvariant == EntrySpec => []EntryInv
BY EntryInitially, EntryStep, PTL DEF EntrySpec

(* Every reachable form is typed, and what is being stored has a place     *)
(* (CollectorEntryScreen).                                                 *)
THEOREM EntryTypeCorrect == EntrySpec => []EntryTypeOK
<1>1. EntryInv => EntryTypeOK
  BY DEF EntryInv
<1> QED BY <1>1, EntryInvariant, PTL

(* The suggestion that is shown or stored is the verdict on the photos     *)
(* that go with it, however the analyses overtake each other               *)
(* (analysisRunRef).                                                       *)
THEOREM VerdictsAreOfThePhotos == EntrySpec => []VerdictIsOfThePhotos
<1>1. EntryInv => VerdictIsOfThePhotos
  BY DEF EntryInv, HeardIsOfThePhotos, PayloadStands, VerdictIsOfThePhotos, IsSubmitted
<1> QED BY <1>1, EntryInvariant, PTL

(* A grade kept against a suggestion was confirmed against that very one   *)
(* (setOverrideAcknowledged).                                              *)
THEOREM OverridesAreOfTheVerdict == EntrySpec => []OverrideIsOfTheVerdict
<1>1. EntryInv => OverrideIsOfTheVerdict
  BY DEF EntryInv, PayloadStands, OverrideIsOfTheVerdict, IsSubmitted
<1> QED BY <1>1, EntryInvariant, PTL

-----------------------------------------------------------------------------

Camera ==
  [over : BOOLEAN, camera : {"asked", "live", "stopped", "refused"},
   frames : {"none", "starting", "due", "decoding"}, photo : {"none", "decoding"}]

-----------------------------------------------------------------------------
(* Every scan stays a scan, whose camera is off when it is over.           *)
Released(s) == s \in Camera /\ (s.camera = "live" => ~s.over)

ScansOK == \A id \in Scan : scan[id] = Off \/ Released(scan[id])

ScanTypeOK == scan \in [Scan -> Camera \cup {Off}]

LEMMA FinishedIsReleased ==
  ASSUME NEW s \in Camera, s.over => s.camera # "live"
  PROVE  Released(Finished(s))
BY DEF Released, Finished, Camera

LEMMA ScanStep ==
  ASSUME ScanTypeOK, ScansOK, NEW id \in Scan, NEW s \in Camera, Released(s), Sets(id, s)
  PROVE  ScanTypeOK' /\ ScansOK'
BY DEF ScanTypeOK, ScansOK, Sets

(* What each of the callbacks makes of a scan, which is open or over.      *)
LEMMA CallbacksRelease ==
  ASSUME NEW s, Released(s)
  PROVE  /\ s.camera = "asked" => Released(CameraOpened(s))
         /\ s.camera = "asked" => Released(Finished([s EXCEPT !.camera = "refused"]))
         /\ \A f \in {"none", "due", "decoding"} : Released([s EXCEPT !.frames = f])
         /\ Released(Finished([s EXCEPT !.frames = "none"]))
         /\ \A p \in {"none", "decoding"} : Released([s EXCEPT !.photo = p])
         /\ Released(Finished([s EXCEPT !.photo = "none"]))
         /\ Released(Finished(s))
<1>. s \in Camera /\ (s.camera = "live" => ~s.over)
  BY DEF Released
<1>1. \A c \in {"live", "stopped", "refused"} : [s EXCEPT !.camera = c] \in Camera
  BY DEF Camera
<1>2. \A f \in {"none", "starting", "due", "decoding"} : [s EXCEPT !.frames = f] \in Camera
  BY DEF Camera
<1>3. \A p \in {"none", "decoding"} : [s EXCEPT !.photo = p] \in Camera
  BY DEF Camera
<1>4. s.camera = "asked" => Released(CameraOpened(s))
  BY DEF Released, CameraOpened, Camera
<1>5. s.camera = "asked" => Released(Finished([s EXCEPT !.camera = "refused"]))
  BY <1>1, FinishedIsReleased DEF Camera
<1>6. \A f \in {"none", "due", "decoding"} : Released([s EXCEPT !.frames = f])
  BY <1>2 DEF Released, Camera
<1>7. Released(Finished([s EXCEPT !.frames = "none"]))
  BY <1>2, FinishedIsReleased DEF Camera
<1>8. \A p \in {"none", "decoding"} : Released([s EXCEPT !.photo = p])
  BY <1>3 DEF Released, Camera
<1>9. Released(Finished([s EXCEPT !.photo = "none"]))
  BY <1>3, FinishedIsReleased DEF Camera
<1>10. Released(Finished(s))
  BY FinishedIsReleased
<1>. QED
  BY <1>4, <1>5, <1>6, <1>7, <1>8, <1>9, <1>10

LEMMA ScanInduction ==
  ASSUME ScanTypeOK, ScansOK, [DevicesNext]_deviceVars
  PROVE  ScanTypeOK' /\ ScansOK'
<1>0. \A id \in Scan : scan[id] # Off => Released(scan[id])
  BY DEF ScansOK
<1>a. \A s : Released(s) => s \in Camera
  BY DEF Released
<1>1. CASE OpenScan
  <2>1. PICK id \in Scan :
          Sets(id, [over |-> FALSE, camera |-> "asked", frames |-> "none", photo |-> "none"])
    BY <1>1 DEF OpenScan
  <2>2. Released([over |-> FALSE, camera |-> "asked", frames |-> "none", photo |-> "none"])
    BY DEF Released, Camera
  <2>. QED
    BY <2>1, <2>2, <1>a, ScanStep
<1>2. CASE CameraOpens
  <2>1. PICK id \in Scan : scan[id] # Off /\ scan[id].camera = "asked" /\ Sets(id, CameraOpened(scan[id]))
    BY <1>2 DEF CameraOpens
  <2>2. Released(CameraOpened(scan[id]))
    BY <1>0, <2>1, CallbacksRelease
  <2>. QED
    BY <2>1, <2>2, <1>a, ScanStep
<1>3. CASE CameraRefused
  <2>1. PICK id \in Scan : /\ scan[id] # Off /\ scan[id].camera = "asked"
                           /\ Sets(id, Finished([scan[id] EXCEPT !.camera = "refused"]))
    BY <1>3 DEF CameraRefused
  <2>2. Released(Finished([scan[id] EXCEPT !.camera = "refused"]))
    BY <1>0, <2>1, CallbacksRelease
  <2>. QED
    BY <2>1, <2>2, <1>a, ScanStep
<1>4. CASE NextFrame
  <2>1. PICK id \in Scan : scan[id] # Off /\ Sets(id, [scan[id] EXCEPT !.frames = "due"])
    BY <1>4 DEF NextFrame
  <2>2. Released([scan[id] EXCEPT !.frames = "due"])
    BY <1>0, <2>1, CallbacksRelease
  <2>. QED
    BY <2>1, <2>2, <1>a, ScanStep
<1>5. CASE Frame
  <2>1. PICK id \in Scan : /\ scan[id] # Off
                           /\ Sets(id, [scan[id] EXCEPT !.frames = IF scan[id].over THEN "none" ELSE "decoding"])
    BY <1>5 DEF Frame
  <2>2. Released([scan[id] EXCEPT !.frames = IF scan[id].over THEN "none" ELSE "decoding"])
    BY <1>0, <2>1, CallbacksRelease
  <2>. QED
    BY <2>1, <2>2, <1>a, ScanStep
<1>6. CASE FrameSettles
  <2>1. PICK id \in Scan : scan[id] # Off /\ Sets(id, Finished([scan[id] EXCEPT !.frames = "none"]))
    BY <1>6 DEF FrameSettles
  <2>2. Released(Finished([scan[id] EXCEPT !.frames = "none"]))
    BY <1>0, <2>1, CallbacksRelease
  <2>. QED
    BY <2>1, <2>2, <1>a, ScanStep
<1>7. CASE ChoosePhoto
  <2>1. PICK id \in Scan : scan[id] # Off /\ Sets(id, [scan[id] EXCEPT !.photo = "decoding"])
    BY <1>7 DEF ChoosePhoto
  <2>2. Released([scan[id] EXCEPT !.photo = "decoding"])
    BY <1>0, <2>1, CallbacksRelease
  <2>. QED
    BY <2>1, <2>2, <1>a, ScanStep
<1>8. CASE PhotoDecoded
  <2>1. PICK id \in Scan, code \in BOOLEAN :
          /\ scan[id] # Off
          /\ Sets(id, IF code THEN Finished([scan[id] EXCEPT !.photo = "none"])
                      ELSE [scan[id] EXCEPT !.photo = "none"])
    BY <1>8 DEF PhotoDecoded
  <2>2. Released(IF code THEN Finished([scan[id] EXCEPT !.photo = "none"])
                 ELSE [scan[id] EXCEPT !.photo = "none"])
    BY <1>0, <2>1, CallbacksRelease
  <2>. QED
    BY <2>1, <2>2, <1>a, ScanStep
<1>9. CASE EndScan
  <2>1. PICK id \in Scan : scan[id] # Off /\ Sets(id, Finished(scan[id]))
    BY <1>9 DEF EndScan
  <2>2. Released(Finished(scan[id]))
    BY <1>0, <2>1, CallbacksRelease
  <2>. QED
    BY <2>1, <2>2, <1>a, ScanStep
<1>10. CASE LocationNext \/ UNCHANGED deviceVars
  <2>1. UNCHANGED scan
    BY <1>10 DEF LocationNext, GetLocation, CallerGivesUp, NextStage, LocationFails, Coordinates,
                 LocationToken, Arrives, Moves, Exchange, RequestFails, ExchangeAnswered, deviceVars
  <2>. QED
    BY <2>1 DEF ScanTypeOK, ScansOK
<1>. QED
  BY <1>1, <1>2, <1>3, <1>4, <1>5, <1>6, <1>7, <1>8, <1>9, <1>10 DEF DevicesNext, ScanNext

(* The camera is off when no scan is open, for any number of scans and     *)
(* however permissions, timers, buttons, frames and photos race            *)
(* (scanBrowserQrCode).                                                    *)
THEOREM CamerasAreReleased == DevicesSpec => []CameraIsReleased
<1>1. DevicesInit => ScanTypeOK /\ ScansOK
  BY DEF DevicesInit, ScanInit, ScanTypeOK, ScansOK
<1>2. ScanTypeOK /\ ScansOK /\ [DevicesNext]_deviceVars => ScanTypeOK' /\ ScansOK'
  BY ScanInduction
<1>3. ScanTypeOK /\ ScansOK => CameraIsReleased
  BY DEF ScansOK, Released, CameraIsReleased
<1>. QED
  BY <1>1, <1>2, <1>3, PTL DEF DevicesSpec

-----------------------------------------------------------------------------
LocationTypeOK ==
  /\ stage \in {Off, "sdk-load", "permission", "access-token", "location-result"} \cup GpsToken
  /\ asking \in [Caller -> {"idle", "waiting", "gps", "centre", "failed"}]
  /\ usedGps \subseteq GpsToken
  /\ posted \subseteq [token : GpsToken,
                       at : {"sent", "admitted", "ok", "unauthorized", "unavailable"}]
  /\ redeemed \in [GpsToken -> Nat]

(* A request is the only one of its token, and comes before the exchange   *)
(* or after it.                                                            *)
OneRequest ==
  /\ \A r \in posted : r.token \in usedGps
  /\ \A r, q \in posted : r.token = q.token => r = q

NotYet == \A r \in posted : r.at \in {"sent", "admitted"} => redeemed[r.token] = 0

Unused == \A t \in GpsToken : t \notin usedGps => redeemed[t] = 0

TokensOK == LocationTypeOK /\ OneRequest /\ NotYet /\ Unused /\ TokenRedeemedOnce

LEMMA EndsTyped ==
  ASSUME LocationTypeOK, NEW place \in {"gps", "failed"}, Told(place)
  PROVE  /\ stage' = Off
         /\ asking' \in [Caller -> {"idle", "waiting", "gps", "centre", "failed"}]
BY DEF LocationTypeOK, Told

(* What leaves tokens and requests alone.                                  *)
LEMMA TokensUntouched ==
  ASSUME TokensOK, UNCHANGED <<usedGps, posted, redeemed>>,
         stage' \in {Off, "sdk-load", "permission", "access-token", "location-result"} \cup GpsToken,
         asking' \in [Caller -> {"idle", "waiting", "gps", "centre", "failed"}]
  PROVE  TokensOK'
BY DEF TokensOK, LocationTypeOK, OneRequest, NotYet, Unused, TokenRedeemedOnce

(* A request that is done with.                                            *)
LEMMA RequestGone ==
  ASSUME TokensOK, NEW r \in posted, posted' = posted \ {r}, UNCHANGED <<usedGps, redeemed>>,
         stage' \in {Off, "sdk-load", "permission", "access-token", "location-result"} \cup GpsToken,
         asking' \in [Caller -> {"idle", "waiting", "gps", "centre", "failed"}]
  PROVE  TokensOK'
BY DEF TokensOK, LocationTypeOK, OneRequest, NotYet, Unused, TokenRedeemedOnce

LEMMA LocationInduction ==
  ASSUME TokensOK, [DevicesNext]_deviceVars
  PROVE  TokensOK'
<1>0. LocationTypeOK
  BY DEF TokensOK
<1>a. /\ stage \in {Off, "sdk-load", "permission", "access-token", "location-result"} \cup GpsToken
      /\ asking \in [Caller -> {"idle", "waiting", "gps", "centre", "failed"}]
  BY <1>0 DEF LocationTypeOK
<1>1. CASE GetLocation
  <2>1. /\ UNCHANGED <<usedGps, posted, redeemed>>
        /\ stage' = IF stage = Off THEN "sdk-load" ELSE stage
        /\ asking' \in [Caller -> {"idle", "waiting", "gps", "centre", "failed"}]
    BY <1>1, <1>a DEF GetLocation
  <2>. QED
    BY <2>1, <1>a, TokensUntouched
<1>2. CASE CallerGivesUp
  <2>1. /\ UNCHANGED <<stage, usedGps, posted, redeemed>>
        /\ asking' \in [Caller -> {"idle", "waiting", "gps", "centre", "failed"}]
    BY <1>2, <1>a DEF CallerGivesUp
  <2>. QED
    BY <2>1, <1>a, TokensUntouched
<1>3. CASE NextStage
  <2>1. /\ UNCHANGED <<asking, usedGps, posted, redeemed>>
        /\ stage' \in {"permission", "access-token", "location-result"}
    BY <1>3 DEF NextStage
  <2>. QED
    BY <2>1, <1>a, TokensUntouched
<1>4. CASE LocationFails
  <2>1. UNCHANGED <<usedGps, posted, redeemed>> /\ Told("failed")
    BY <1>4 DEF LocationFails
  <2>2. stage' = Off /\ asking' \in [Caller -> {"idle", "waiting", "gps", "centre", "failed"}]
    BY <2>1, <1>0, EndsTyped
  <2>. QED
    BY <2>1, <2>2, TokensUntouched
<1>5. CASE Coordinates
  <2>1. UNCHANGED <<usedGps, posted, redeemed>> /\ Told("gps")
    BY <1>5 DEF Coordinates
  <2>2. stage' = Off /\ asking' \in [Caller -> {"idle", "waiting", "gps", "centre", "failed"}]
    BY <2>1, <1>0, EndsTyped
  <2>. QED
    BY <2>1, <2>2, TokensUntouched
<1>6. CASE LocationToken
  <2>1. PICK t \in GpsToken :
          /\ IF t \in usedGps
             THEN Told("failed") /\ UNCHANGED <<usedGps, posted>>
             ELSE /\ stage' = t
                  /\ usedGps' = usedGps \cup {t}
                  /\ posted' = posted \cup {[token |-> t, at |-> "sent"]}
                  /\ UNCHANGED asking
          /\ UNCHANGED redeemed
    BY <1>6 DEF LocationToken
  <2>2. CASE t \in usedGps
    <3>1. stage' = Off /\ asking' \in [Caller -> {"idle", "waiting", "gps", "centre", "failed"}]
      BY <2>1, <2>2, <1>0, EndsTyped
    <3>. QED
      BY <2>1, <2>2, <3>1, TokensUntouched
  <2>3. CASE t \notin usedGps
    <3>1. redeemed[t] = 0 /\ \A r \in posted : r.token # t
      BY <2>3 DEF TokensOK, Unused, OneRequest
    <3>. QED
      BY <2>1, <2>3, <3>1 DEF TokensOK, LocationTypeOK, OneRequest, NotYet, Unused, TokenRedeemedOnce
  <2>. QED
    BY <2>2, <2>3
<1>7. CASE Arrives
  <2>1. PICK r \in posted, at \in {"admitted", "unauthorized"} :
          r.at = "sent" /\ Moves(r, at) /\ UNCHANGED redeemed
    BY <1>7 DEF Arrives
  <2>. DEFINE q == [r EXCEPT !.at = at]
  <2>2. /\ q \in [token : GpsToken, at : {"sent", "admitted", "ok", "unauthorized", "unavailable"}]
        /\ q.token = r.token
    BY <1>0 DEF LocationTypeOK
  <2>3. posted' = (posted \ {r}) \cup {q} /\ UNCHANGED <<stage, asking, usedGps>>
    BY <2>1 DEF Moves
  <2>. HIDE DEF q
  <2>. QED
    BY <2>1, <2>2, <2>3 DEF TokensOK, LocationTypeOK, OneRequest, NotYet, Unused, TokenRedeemedOnce
<1>8. CASE Exchange
  <2>1. PICK r \in posted, at \in {"ok", "unauthorized", "unavailable"} :
          /\ r.at = "admitted" /\ Moves(r, at)
          /\ redeemed' = [redeemed EXCEPT ![r.token] = @ + 1]
    BY <1>8 DEF Exchange
  <2>. DEFINE q == [r EXCEPT !.at = at]
  <2>2. /\ q \in [token : GpsToken, at : {"sent", "admitted", "ok", "unauthorized", "unavailable"}]
        /\ q.token = r.token /\ q.at = at /\ r.token \in GpsToken
    BY <1>0 DEF LocationTypeOK
  <2>3. posted' = (posted \ {r}) \cup {q} /\ UNCHANGED <<stage, asking, usedGps>>
    BY <2>1 DEF Moves
  <2>. HIDE DEF q
  <2>4. /\ redeemed[r.token] = 0 /\ r.token \in usedGps
        /\ \A p \in posted \ {r} : p.token # r.token
    BY <2>1 DEF TokensOK, NotYet, OneRequest
  <2>5. /\ redeemed' \in [GpsToken -> Nat] /\ redeemed'[r.token] = 1
        /\ \A t \in GpsToken \ {r.token} : redeemed'[t] = redeemed[t]
    BY <2>1, <2>2, <2>4, <1>0 DEF LocationTypeOK
  <2>6. LocationTypeOK' /\ OneRequest'
    BY <2>2, <2>3, <2>4, <2>5 DEF TokensOK, LocationTypeOK, OneRequest
  <2>7. NotYet'
    BY <2>1, <2>2, <2>3, <2>4, <2>5, <1>0 DEF TokensOK, NotYet, LocationTypeOK
  <2>8. Unused' /\ TokenRedeemedOnce'
    BY <2>3, <2>4, <2>5 DEF TokensOK, Unused, TokenRedeemedOnce
  <2>. QED
    BY <2>6, <2>7, <2>8 DEF TokensOK
<1>9. CASE RequestFails
  <2>1. PICK r \in posted : posted' = posted \ {r} /\ UNCHANGED <<stage, asking, usedGps, redeemed>>
    BY <1>9 DEF RequestFails
  <2>. QED
    BY <2>1, <1>a, RequestGone
<1>10. CASE ExchangeAnswered
  <2>1. PICK r \in posted :
          /\ posted' = posted \ {r}
          /\ IF stage = r.token THEN Told(IF r.at = "ok" THEN "gps" ELSE "failed")
             ELSE UNCHANGED <<stage, asking>>
          /\ UNCHANGED <<usedGps, redeemed>>
    BY <1>10 DEF ExchangeAnswered, AfterAnswer
  <2>2. /\ stage' \in {Off, "sdk-load", "permission", "access-token", "location-result"} \cup GpsToken
        /\ asking' \in [Caller -> {"idle", "waiting", "gps", "centre", "failed"}]
    BY <2>1, <1>0, <1>a, EndsTyped
  <2>. QED
    BY <2>1, <2>2, RequestGone
<1>11. CASE ScanNext \/ UNCHANGED deviceVars
  <2>1. UNCHANGED locationVars
    BY <1>11 DEF ScanNext, Sets, OpenScan, CameraOpens, CameraRefused, NextFrame, Frame, FrameSettles,
                 ChoosePhoto, PhotoDecoded, EndScan, deviceVars, locationVars
  <2>. QED
    BY <2>1, <1>a, TokensUntouched DEF locationVars
<1>. QED
  BY <1>1, <1>2, <1>3, <1>4, <1>5, <1>6, <1>7, <1>8, <1>9, <1>10, <1>11
     DEF DevicesNext, LocationNext

(* A location token reaches Zalo once, for any number of screens and       *)
(* tokens, whatever is refused, lost or late (acquireLocation,             *)
(* resolveZaloLocation).                                                   *)
THEOREM TokensAreRedeemedOnce == DevicesSpec => []TokenRedeemedOnce
<1>1. DevicesInit => TokensOK
  BY DEF DevicesInit, LocationInit, TokensOK, LocationTypeOK, OneRequest, NotYet, Unused, TokenRedeemedOnce
<1>2. TokensOK /\ [DevicesNext]_deviceVars => TokensOK'
  BY LocationInduction
<1>3. TokensOK => TokenRedeemedOnce
  BY DEF TokensOK
<1>. QED
  BY <1>1, <1>2, <1>3, PTL DEF DevicesSpec

-----------------------------------------------------------------------------
Awaited == \A c \in Caller : asking[c] = "waiting" => stage # Off

LEMMA WaitingInduction ==
  ASSUME LocationTypeOK, Awaited, [DevicesNext]_deviceVars
  PROVE  Awaited'
<1>1. CASE GetLocation
  BY <1>1, OffAssumption DEF GetLocation, Awaited, LocationTypeOK
<1>2. CASE CallerGivesUp
  BY <1>2 DEF CallerGivesUp, Awaited, LocationTypeOK
<1>3. CASE NextStage
  BY <1>3, OffAssumption DEF NextStage, Awaited
<1>4. ASSUME NEW place \in {"gps", "failed"}, Told(place)
      PROVE  Awaited'
  BY <1>4 DEF Told, Awaited
<1>5. CASE LocationFails \/ Coordinates
  BY <1>5, <1>4 DEF LocationFails, Coordinates
<1>6. CASE LocationToken
  BY <1>6, <1>4, OffAssumption DEF LocationToken, Awaited
<1>7. CASE ExchangeAnswered
  BY <1>7, <1>4 DEF ExchangeAnswered, Awaited
<1>8. CASE Arrives \/ Exchange \/ RequestFails \/ ScanNext \/ UNCHANGED deviceVars
  <2>1. UNCHANGED <<stage, asking>>
    BY <1>8 DEF Arrives, Moves, Exchange, RequestFails, ScanNext, Sets, OpenScan, CameraOpens,
                CameraRefused, NextFrame, Frame, FrameSettles, ChoosePhoto, PhotoDecoded, EndScan,
                deviceVars, locationVars
  <2>. QED
    BY <2>1 DEF Awaited
<1>. QED
  BY <1>1, <1>2, <1>3, <1>5, <1>6, <1>7, <1>8 DEF DevicesNext, LocationNext

(* Types; and a screen that waits for the location is answered by an       *)
(* acquisition that runs (getLocation).                                    *)
THEOREM DevicesTypeCorrect == DevicesSpec => []DevicesTypeOK
<1>1. DevicesInit => ScanTypeOK /\ ScansOK /\ TokensOK /\ Awaited
  BY DEF DevicesInit, ScanInit, ScanTypeOK, ScansOK, LocationInit, TokensOK, LocationTypeOK,
         OneRequest, NotYet, Unused, TokenRedeemedOnce, Awaited
<1>2. ScanTypeOK /\ ScansOK /\ TokensOK /\ Awaited /\ [DevicesNext]_deviceVars
        => ScanTypeOK' /\ ScansOK' /\ TokensOK' /\ Awaited'
  BY ScanInduction, LocationInduction, WaitingInduction DEF TokensOK
<1>3. ScanTypeOK /\ TokensOK /\ Awaited => DevicesTypeOK
  BY DEF ScanTypeOK, TokensOK, LocationTypeOK, Awaited, DevicesTypeOK, Camera
<1>. QED
  BY <1>1, <1>2, <1>3, PTL DEF DevicesSpec
=============================================================================
