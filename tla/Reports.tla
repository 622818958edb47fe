------------------------------ MODULE Reports -------------------------------
(***************************************************************************)
(* lib/reports.ts, lib/report-merge.ts and the public reads of             *)
(* lib/report-query.ts: reports, their publication, and the families that  *)
(* merging duplicates builds.  Every request of the admin API runs as one  *)
(* process with a step per await; the database triggers of migrations 0005 *)
(* and 0015 run inside the write that fires them.                          *)
(*                                                                         *)
(* Ids are numbers because the public pages walk the reports in the order  *)
(* of date and id.  The text of a report and its status are left out.      *)
(***************************************************************************)
EXTENDS Naturals, FiniteSets

CONSTANTS
    Report,     \* report ids
    Asset,      \* evidence assets
    Held,       \* the assets under legal hold
    Editor      \* requests of the admin API at a time

None == 0

ASSUME ReportsConstants ==
    /\ Report \subseteq Nat \ {None}
    /\ IsFiniteSet(Asset)
    /\ Held \subseteq Asset
    /\ None \notin Asset

VARIABLES
    report,   \* reports
    asset,    \* evidence_assets.state
    link,     \* report_evidence
    edit,     \* the requests under way
    edits     \* bound: the requests of the admin API still to come

reportVars == <<report, asset, link, edit, edits>>

\* A row of reports.  images is evidence_count, which triggers maintain.
Row == [exists : BOOLEAN, published : BOOLEAN, into : Report \union {None}, images : Nat]
NoRow == [exists |-> FALSE, published |-> FALSE, into |-> None, images |-> 0]

\* "leased": withheld while deleteEvidenceAsset erases its objects.
AssetState == {"public", "withheld", "leased", "deleted"}

Exists(r) == report[r].exists
Children(r) == {c \in Report : Exists(c) /\ report[c].into = r}
IsRoot(r) == Exists(r) /\ report[r].into = None
IsPublished(r) == Exists(r) /\ report[r].published

\* COALESCE(merged_into_report_id, id)
RootOf(r) == IF report[r].into = None THEN r ELSE report[r].into

----------------------------------------------------------------------------
(* What the public reads show. *)

\* listReportFamilyIds, as findReport asks for it.
Family(r) == IF report[r].into = None THEN {r} \union Children(r) ELSE {r}

PublicImagesOf(r) == {a \in Asset : <<r, a>> \in link /\ asset[a] = "public"}

\* The images on the public page of r.
PageImages(r) == UNION {PublicImagesOf(m) : m \in Family(r)}

\* resolveReport for a reader: every hop must find a published report.
Follow(r) ==
    LET hop[n \in 0 .. 9] ==
            IF n = 0 THEN r
            ELSE LET at == hop[n - 1]
                 IN  IF at # None /\ IsPublished(at) /\ report[at].into # None
                     THEN report[at].into
                     ELSE at
    IN  hop[9]
ResolvesTo(r) ==
    LET last == Follow(r) IN IF IsPublished(last) /\ IsRoot(last) THEN last ELSE None

\* The directory, the ranking and the neighbours of a report page.
Listed == {r \in Report : IsPublished(r) /\ report[r].into = None}

Newer(r) ==
    LET later == {n \in Listed : n > r}
    IN  IF later = {} THEN None ELSE CHOOSE n \in later : \A m \in later : n <= m
Older(r) ==
    LET earlier == {n \in Listed : n < r}
    IN  IF earlier = {} THEN None ELSE CHOOSE n \in earlier : \A m \in earlier : n >= m

MutantMayDeliver(r) == IsPublished(r)

\* getPublicEvidenceAsset: an image is delivered for a published report, or
\* for the published canonical report its report is merged into.
MayDeliver(r) ==
    \/ IsPublished(r)
    \/ report[r].into # None /\ IsPublished(report[r].into) /\ IsRoot(report[r].into)
Delivered(a) ==
    asset[a] = "public" /\ \E r \in Report : Exists(r) /\ <<r, a>> \in link /\ MayDeliver(r)

\* report_family_metrics: a report without duplicates shows its stored count,
\* a canonical one counts the distinct images of its family.
ImageMetric(r) ==
    IF Children(r) = {} THEN report[r].images
    ELSE Cardinality({a \in Asset : asset[a] = "public"
                                     /\ \E m \in {r} \union Children(r) : <<m, a>> \in link})

----------------------------------------------------------------------------
(* The triggers. *)

\* report_evidence_count_insert, _delete and evidence_asset_count_update:
\* the counts after a write that leaves these links and states.
CountImages(rows, links, states) ==
    [r \in Report |->
        [rows[r] EXCEPT !.images =
            IF rows[r].exists
            THEN Cardinality({a \in Asset : <<r, a>> \in links /\ states[a] = "public"})
            ELSE 0]]

\* Without report_merge_integrity_source_has_children.
MutantMergeAllowed(r, c) ==
    report[r].into = None /\ r # c /\ Exists(c) /\ report[c].into = None

\* reports_merge_integrity_update
MergeAllowed(r, c) ==
    /\ report[r].into = None
    /\ r # c
    /\ Exists(c)
    /\ report[c].into = None
    /\ Children(r) = {}

\* reports_merge_integrity_delete
DeleteAllowed(r) == Children(r) = {}

----------------------------------------------------------------------------
(* Requests of the admin API. *)

\* files: the attachments to link or to erase; now: the one being erased.
Idle ==
    [pc |-> "idle", id |-> None, to |-> None, published |-> FALSE, files |-> {}, now |-> None]
Pc == {"idle", "create", "createWrite", "update", "updateWrite", "remove", "removeAssets",
       "erase", "erasing", "removeWrite", "merge", "mergeCheck", "mergeWrite", "unmerge",
       "unmergeWrite"}
Request == [pc : Pc, id : Report \union {None}, to : Report \union {None},
            published : BOOLEAN, files : SUBSET Asset, now : Asset \union {None}]

Save(pc, r, shown, files) ==
    [Idle EXCEPT !.pc = pc, !.id = r, !.published = shown, !.files = files]
Create(r, shown, files) == Save("create", r, shown, files)
Update(r, shown, files) == Save("update", r, shown, files)
Withdraw(r) == [Idle EXCEPT !.pc = "remove", !.id = r]
Merge(r, c) == [Idle EXCEPT !.pc = "merge", !.id = r, !.to = c]
Unmerge(r) == [Idle EXCEPT !.pc = "unmerge", !.id = r]

\* The requests that may arrive.
Asked == {q \in Request : /\ q.pc \in {"create", "update", "remove", "merge", "unmerge"}
                          /\ q.id \in Report
                          /\ q.pc = "merge" => q.to \in Report}

\* Published reports with public images.
Published == [NoRow EXCEPT !.exists = TRUE, !.published = TRUE]
ReportsInit(rows, images) ==
    /\ asset = [a \in Asset |-> "public"]
    /\ link = images
    /\ report = CountImages([r \in Report |-> IF r \in rows THEN Published ELSE NoRow], images, asset)
    /\ edit = [e \in Editor |-> Idle]

\* A request arrives: a moderator's session was checked, its input parsed.
Begin(e) ==
    /\ edit[e] = Idle
    /\ \E request \in edits :
           edit' = [edit EXCEPT ![e] = request] /\ edits' = edits \ {request}
    /\ UNCHANGED <<report, asset, link>>

Goto(e, pc) == edit' = [edit EXCEPT ![e].pc = pc]
Done(e) == edit' = [edit EXCEPT ![e] = Idle]
Reads(e) == UNCHANGED <<report, asset, link, edits>>

\* buildReportEvidenceLinkStatements refuses an attachment that is gone.
AttachmentsLive(e) == \A a \in edit[e].files : asset[a] # "deleted"

\* createReport: the search for a duplicate only words the audit entry.
CreateRead(e) ==
    /\ edit[e].pc = "create"
    /\ IF AttachmentsLive(e) THEN Goto(e, "createWrite") ELSE Done(e)
    /\ Reads(e)

\* The batch rewrites the links of one report: report_evidence is deleted and
\* inserted again, and the triggers count.
Relinked(r, files) == {l \in link : l[1] # r} \union ({r} \X files)

\* createReport's batch; the id is the primary key.
CreateWrite(e) ==
    LET q == edit[e]
        rows == [report EXCEPT ![q.id] = [exists |-> TRUE, published |-> q.published,
                                          into |-> None, images |-> 0]]
    IN  /\ q.pc = "createWrite"
        /\ IF Exists(q.id) THEN UNCHANGED <<report, link>>
           ELSE /\ link' = Relinked(q.id, q.files)
                /\ report' = CountImages(rows, link', asset)
        /\ Done(e)
        /\ UNCHANGED <<asset, edits>>

\* updateReport reads the row, then every attachment.
UpdateRead(e) ==
    /\ edit[e].pc = "update"
    /\ IF Exists(edit[e].id) /\ AttachmentsLive(e) THEN Goto(e, "updateWrite") ELSE Done(e)
    /\ Reads(e)

\* The batch: without its report UPDATE finds no row, and an attachment or a
\* status event has no report to refer to, which fails the batch.
\* The merge target is not among the columns it writes.
UpdateWrite(e) ==
    LET q == edit[e]
        rows == [report EXCEPT ![q.id].published = q.published]
    IN  /\ q.pc = "updateWrite"
        /\ IF ~Exists(q.id) THEN UNCHANGED <<report, link>>
           ELSE /\ link' = Relinked(q.id, q.files)
                /\ report' = CountImages(rows, link', asset)
        /\ Done(e)
        /\ UNCHANGED <<asset, edits>>

\* removeReport: the row and the number of its duplicates.
RemoveRead(e) ==
    /\ edit[e].pc = "remove"
    /\ IF Exists(edit[e].id) /\ Children(edit[e].id) = {}
       THEN Goto(e, "removeAssets") ELSE Done(e)
    /\ Reads(e)

\* The evidence that no other report links is erased with the report.
Exclusive(r) ==
    {a \in Asset : /\ asset[a] # "deleted"
                   /\ {l \in link : l[2] = a} = {<<r, a>>}}
RemoveAssets(e) ==
    LET doomed == Exclusive(edit[e].id)
    IN  /\ edit[e].pc = "removeAssets"
        /\ IF doomed \intersect Held # {} THEN Done(e)
           ELSE edit' = [edit EXCEPT ![e].pc = "erase", ![e].files = doomed]
        /\ Reads(e)

\* deleteEvidenceAsset, one asset after the other: it withholds the asset under
\* a lease, and deletes row and links when the objects are gone; a lease of
\* another request fails this one.  Evidence has the detail.
SetAsset(a, state, links) ==
    /\ asset' = [asset EXCEPT ![a] = state]
    /\ link' = links
    /\ report' = CountImages(report, links, asset')
Erase(e, a) ==
    /\ edit[e].pc = "erase" /\ a \in edit[e].files
    /\ CASE asset[a] = "deleted" ->
              /\ edit' = [edit EXCEPT ![e].files = @ \ {a}]
              /\ UNCHANGED <<report, asset, link>>
         [] asset[a] = "leased" -> Done(e) /\ UNCHANGED <<report, asset, link>>
         [] OTHER ->
              /\ SetAsset(a, "leased", link)
              /\ edit' = [edit EXCEPT ![e].pc = "erasing", ![e].files = @ \ {a}, ![e].now = a]
    /\ UNCHANGED edits
Erased(e) ==
    /\ edit[e].pc = "erasing"
    /\ SetAsset(edit[e].now, "deleted", {l \in link : l[2] # edit[e].now})
    /\ Goto(e, "erase")
    /\ UNCHANGED edits

\* A storage failure releases the lease and fails the request; the asset stays
\* withheld.
EraseFails(e) ==
    /\ edit[e].pc = "erasing"
    /\ SetAsset(edit[e].now, "withheld", link)
    /\ Done(e)
    /\ UNCHANGED edits

EraseEnds(e) ==
    /\ edit[e].pc = "erase" /\ edit[e].files = {}
    /\ Goto(e, "removeWrite")
    /\ Reads(e)

\* The batch of removeReport: the trigger refuses a report with duplicates,
\* the links go with the row.
RemoveWrite(e) ==
    LET r == edit[e].id
    IN  /\ edit[e].pc = "removeWrite"
        /\ IF DeleteAllowed(r)
           THEN /\ report' = [report EXCEPT ![r] = NoRow]
                /\ link' = {l \in link : l[1] # r}
           ELSE UNCHANGED <<report, link>>
        /\ Done(e)
        /\ UNCHANGED <<asset, edits>>

\* preflightReportMerge: the two reports, then what refers to them.  overlap
\* stands for the members who reviewed both, which Reviews fills in.
Mergeable(r, c) ==
    /\ Exists(r) /\ Exists(c)
    /\ report[r].into = None /\ report[c].into = None
    /\ (IsPublished(r) => IsPublished(c))
MergeRead(e) ==
    /\ edit[e].pc = "merge"
    /\ IF Mergeable(edit[e].id, edit[e].to) THEN Goto(e, "mergeCheck") ELSE Done(e)
    /\ Reads(e)
MergeCheck(e, overlap) ==
    /\ edit[e].pc = "mergeCheck"
    /\ IF Children(edit[e].id) = {} /\ overlap = {} THEN Goto(e, "mergeWrite") ELSE Done(e)
    /\ Reads(e)

\* setReportMergeTarget; a refused trigger or a missing row changes nothing.
MergeWrite(e) ==
    LET q == edit[e]
    IN  /\ q.pc = "mergeWrite"
        /\ report' = IF Exists(q.id) /\ MergeAllowed(q.id, q.to)
                     THEN [report EXCEPT ![q.id].into = q.to] ELSE report
        /\ Done(e)
        /\ UNCHANGED <<asset, link, edits>>

\* unmergeReport, and setReportMergeTarget with no target.
UnmergeRead(e) ==
    /\ edit[e].pc = "unmerge"
    /\ IF Exists(edit[e].id) /\ report[edit[e].id].into # None
       THEN Goto(e, "unmergeWrite") ELSE Done(e)
    /\ Reads(e)
UnmergeWrite(e) ==
    /\ edit[e].pc = "unmergeWrite"
    /\ report' = IF Exists(edit[e].id) THEN [report EXCEPT ![edit[e].id].into = None] ELSE report
    /\ Done(e)
    /\ UNCHANGED <<asset, link, edits>>

\* Every step but the check of overlapping reviewers and the removal, which
\* concern reviews and cases too.
EditStep(e) ==
    \/ Begin(e)
    \/ CreateRead(e) \/ CreateWrite(e) \/ UpdateRead(e) \/ UpdateWrite(e)
    \/ RemoveRead(e) \/ RemoveAssets(e) \/ (\E a \in Asset : Erase(e, a)) \/ Erased(e) \/ EraseFails(e) \/ EraseEnds(e)
    \/ MergeRead(e) \/ MergeWrite(e) \/ UnmergeRead(e) \/ UnmergeWrite(e)

----------------------------------------------------------------------------
ReportsTypeOK ==
    /\ report \in [Report -> Row]
    /\ asset \in [Asset -> AssetState]
    /\ link \subseteq Report \X Asset
    /\ edit \in [Editor -> Request]
    /\ edits \subseteq Request

\* A family is one canonical report and its duplicates: what a report is
\* merged into exists and is itself canonical, however merges, removals and
\* updates overtake each other's preflight.
FamilyIsFlat ==
    \A r \in Report :
        report[r].into # None =>
            Exists(r) /\ Exists(report[r].into) /\ report[report[r].into].into = None

\* The public queries tell one story of a family: what the directory lists
\* opens as itself, its neighbours are listed and lead back, the counter it
\* shows is the number of images on its page, every one of them is delivered,
\* and a published duplicate leads to it.
PagesAgree ==
    /\ \A r \in Listed :
           /\ ResolvesTo(r) = r
           /\ Newer(r) # None => Older(Newer(r)) = r
           /\ ImageMetric(r) = Cardinality(PageImages(r))
           /\ \A a \in PageImages(r) : Delivered(a)
           /\ \A d \in Children(r) : IsPublished(d) => ResolvesTo(d) = r
    /\ \A r \in Report : IsPublished(r) /\ RootOf(r) \in Listed => ResolvesTo(r) = RootOf(r)
=============================================================================
