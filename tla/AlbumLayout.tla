---------------------------- MODULE AlbumLayout ----------------------------
(***************************************************************************)
(* The rows of an album as values, and the pure functions on them: the     *)
(* layout of a new step (layout/builder.py), the media of a step           *)
(* (step_media.py), chapters (chapters.py) and the reconciliation of an    *)
(* edited album with another upload (reconcile.py).                        *)
(*                                                                         *)
(* Media names are positive numbers, ordered as the names are; 0 stands    *)
(* for no cover and -1 in a slot for text.  A shape is what a probe of the *)
(* file says: portrait "p", landscape "l", panorama "pano", or "video".    *)
(***************************************************************************)
EXTENDS PagePacking, FiniteSets, FiniteSetsExt, Functions

None == 0
Text == -1

\* A slot: its id, its content and its place in the order of continuation.
Slot(id, name, priority) == [id |-> id, name |-> name, priority |-> priority]

\* The places on the pages: page, position.
Places(pages) == UNION {{<<i, j>> : j \in DOMAIN pages[i]} : i \in DOMAIN pages}

At(pages, x) == pages[x[1]][x[2]]

Precedes(x, y) == x[1] < y[1] \/ (x[1] = y[1] /\ x[2] < y[2])

\* How many of the places P come before x.
Rank(P, x) == Cardinality({y \in P : Precedes(y, x)})

FirstPlace(P) == CHOOSE x \in P : \A y \in P : x = y \/ Precedes(x, y)

SlotsOn(pages) == {At(pages, x) : x \in Places(pages)}

\* New pages have the slots of the old ones that are in S, in their order, and no other.
SameSlots(new, old, S) ==
    /\ SlotsOn(new) = SlotsOn(old) \cap S
    /\ \A x, y \in Places(new), u, v \in Places(old) :
          At(new, x) = At(old, u) /\ At(new, y) = At(old, v) => (Precedes(x, y) <=> Precedes(u, v))

\* _layout_names: every medium a step mentions.
LayoutNames(step) ==
    {slot.name : slot \in {s \in SlotsOn(step.pages) : s.name # Text}}
        \cup ToSet(step.unused) \cup ({step.cover} \ {None})

SlotIds(steps) == UNION {{slot.id : slot \in SlotsOn(steps[s].pages)} : s \in DOMAIN steps}

Ascending(S) ==
    [i \in 1 .. Cardinality(S) |-> CHOOSE x \in S : Cardinality({y \in S : y < x}) = i - 1]

\* What is left of a sequence when only the members of S stay.
Kept(seq, S) ==
    LET places == {i \in DOMAIN seq : seq[i] \in S}
    IN  [k \in 1 .. Cardinality(places) |-> seq[Ascending(places)[k]]]

\* The pages with the slots S only, and without those that have none of them.
KeptPages(pages, S) ==
    LET left == [i \in DOMAIN pages |-> Kept(pages[i], S)]
    IN  Kept(left, ToSet(left) \ {<<>>})

-----------------------------------------------------------------------------
(* New steps *)

\* What _load_photos and the probes find in a step's folder.
FolderMedia(disk, step) == {f \in disk : f.dir = step}

\* The widest portraits and the narrowest landscapes first: here, by name.
BuildStepLayout(files) ==
    LET names(S) == Ascending({f.name : f \in S})
        portraits == names({f \in files : f.shape = "p"})
        landscapes == names({f \in files : f.shape # "p"})
    IN  IF files = {} THEN [cover |-> None, pages |-> <<>>, media |-> {}]
        ELSE [cover |-> IF portraits # <<>> THEN portraits[1] ELSE landscapes[1],
              pages |-> BuildPages(IF portraits # <<>> THEN Tail(portraits) ELSE <<>>, landscapes),
              media |-> files]

\* build_step_page_media_rows: a slot per photo, with new ids from "next" on.
NewPages(layout, next) ==
    [i \in DOMAIN layout.pages |-> [j \in DOMAIN layout.pages[i] |->
        [id |-> next + Rank(Places(layout.pages), <<i, j>>), name |-> layout.pages[i][j]]]]

\* step_media_rows: a slot that has no priority gets its running index.
StepMediaRows(pages) ==
    [i \in DOMAIN pages |-> [j \in DOMAIN pages[i] |->
        Slot(pages[i][j].id, pages[i][j].name, Rank(Places(pages), <<i, j>>))]]

NewStep(layout, next) ==
    [pages |-> StepMediaRows(NewPages(layout, next)), unused |-> <<>>, cover |-> layout.cover]

\* A row per medium that is referenced: its shape.
MediaRows(files, names) ==
    [name \in names |-> (CHOOSE f \in files : f.name = name).shape]

-----------------------------------------------------------------------------
(* Edits *)

\* Mutant: new slots are numbered from the number of slots that are kept.
ReplaceStepMediaLayout_CountKept(step, layout) ==
    LET old == SlotsOn(step.pages)
        kept(slot) == \E o \in old : o.id = slot.id
        new == {x \in Places(layout.pages) : ~kept(At(layout.pages, x))}
        first == Cardinality(Places(layout.pages) \ new)
    IN  [layout EXCEPT !.pages = [i \in DOMAIN @ |-> [j \in DOMAIN @[i] |->
            [@[i][j] EXCEPT !.priority =
                IF <<i, j>> \in new THEN first + Rank(new, <<i, j>>)
                ELSE (CHOOSE o \in old : o.id = layout.pages[i][j].id).priority]]]]

\* replace_step_media_layout: a slot that exists keeps its priority, whatever
\* the client says; the others get the next ones, after all that exist now.
ReplaceStepMediaLayout(step, layout) ==
    LET old == SlotsOn(step.pages)
        kept(slot) == \E o \in old : o.id = slot.id
        new == {x \in Places(layout.pages) : ~kept(At(layout.pages, x))}
        first == 1 + Max({o.priority : o \in old} \cup {-1})
    IN  [layout EXCEPT !.pages = [i \in DOMAIN @ |-> [j \in DOMAIN @[i] |->
            [@[i][j] EXCEPT !.priority =
                IF <<i, j>> \in new THEN first + Rank(new, <<i, j>>)
                ELSE (CHOOSE o \in old : o.id = layout.pages[i][j].id).priority]]]]

PrependUnused(step, names) == [step EXCEPT !.unused = names \o @]

\* The steps that are in some chapter.
Assigned(chapters) == UNION {ToSet(chapters[i].steps) : i \in DOMAIN chapters}

\* No step is twice in a chapter, or in two of them.
NoDuplicates(chapters) ==
    \A i, j \in DOMAIN chapters :
        \A p \in DOMAIN chapters[i].steps, q \in DOMAIN chapters[j].steps :
            chapters[i].steps[p] = chapters[j].steps[q] => i = j /\ p = q

\* _validate_step_coverage: no step is unknown, and none is missing.
StepCoverage(chapters, existing) == Assigned(chapters) = existing

\* _validate_chapter_payload, and the coverage.
ChaptersValid(chapters, existing) ==
    /\ chapters # <<>>
    /\ \A i \in DOMAIN chapters : chapters[i].steps # <<>>
    /\ NoDuplicates(chapters)
    /\ StepCoverage(chapters, existing)

-----------------------------------------------------------------------------
(* Reconciliation *)

\* _pick_cover: the first portrait among what is on the pages and unused, by the old rows.
PickCover(step, rows) ==
    LET names == Append([i \in DOMAIN step.pages |->
                            [j \in DOMAIN step.pages[i] |-> step.pages[i][j].name]], step.unused)
        candidates == {x \in Places(names) : At(names, x) # Text}
        portraits == {x \in candidates : At(names, x) \in {n \in DOMAIN rows : rows[n] = "p"}}
        best == IF portraits # {} THEN portraits ELSE candidates
    IN  IF best # {} THEN At(names, FirstPlace(best)) ELSE None

\* Mutant: a photo stays only if the export has it in the step's folder.
ReconcileStep_ByFolder(step, scanned, onDisk, rows) ==
    LET added == (scanned \ LayoutNames(step)) \cap onDisk
        slots == {s \in SlotsOn(step.pages) : s.name \in scanned \cup {Text}}
        kept == [step EXCEPT !.pages = KeptPages(@, slots), !.unused = Kept(@, scanned) \o Ascending(added)]
    IN  [kept EXCEPT !.cover = IF @ = None \/ @ \in onDisk THEN @ ELSE PickCover(kept, rows)]

\* What is not on the disk any more leaves the step; what the export has for it
\* and it does not mention goes to the unused.
ReconcileStep(step, scanned, onDisk, rows) ==
    LET added == (scanned \ LayoutNames(step)) \cap onDisk
        slots == {s \in SlotsOn(step.pages) : s.name \in onDisk \cup {Text}}
        kept == [step EXCEPT !.pages = KeptPages(@, slots), !.unused = Kept(@, onDisk) \o Ascending(added)]
    IN  [kept EXCEPT !.cover = IF @ = None \/ @ \in onDisk THEN @ ELSE PickCover(kept, rows)]

\* Mutant: only an album without chapters needs the new steps.
AssignNewSteps_Never(chapters, new) == chapters

\* _assign_new_steps_to_chapters: those in no chapter yet go to the last one.
AssignNewSteps(chapters, new) ==
    LET missing == Ascending(new \ Assigned(chapters))
    IN  IF chapters = <<>> THEN chapters
        ELSE [chapters EXCEPT ![Len(chapters)].steps = @ \o missing]

EligibleCovers(rows) == {name \in DOMAIN rows : rows[name] \in {"p", "l"}}

\* The covers a chapter may fall back to.
CoverFallbacks(eligible, coverName, steps) ==
    LET covered == {s \in DOMAIN steps : steps[s].cover \in eligible}
    IN  IF coverName \in eligible THEN {coverName}
        ELSE IF covered # {} THEN {steps[s].cover : s \in {t \in covered : \A u \in covered : t <= u}}
        ELSE IF eligible # {} THEN eligible
        ELSE {None}

FixAlbumCovers(chapters, eligible, fallback) ==
    LET fixed(c) == IF c \in eligible THEN c ELSE fallback
    IN  [i \in DOMAIN chapters |->
            [steps |-> chapters[i].steps, front |-> fixed(chapters[i].front),
             back |-> fixed(chapters[i].back)]]

\* prepare_media's cover: the trip's if it is a photo that is no panorama, or
\* else a landscape, or else any photo, of the folder.
PreparedCovers(top, coverName) ==
    LET cover == {f \in top : f.name = coverName}
        photos(shapes) == {f.name : f \in {g \in top : g.shape \in shapes}}
    IN  IF cover # {} /\ \A f \in cover : f.shape # "pano" THEN {coverName}
        ELSE IF photos({"l"}) # {} THEN photos({"l"})
        ELSE IF photos({"p"}) # {} THEN photos({"p"})
        ELSE {None}
=============================================================================
