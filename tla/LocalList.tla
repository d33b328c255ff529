-------------------------------- MODULE LocalList --------------------------------
(***************************************************************************)
(* The UAE Local Terrorist List, scraped from the page of the Executive    *)
(* Office (ingest/eocn.py, the retries of ingest/base.py): the page names  *)
(* many files, some of them workbooks, whose sheets list persons, groups   *)
(* and companies or record who was taken off the list.                     *)
(*                                                                         *)
(* A file, a person and a heading are model values; a workbook is what the *)
(* parser sees of it.  The load is Screening's, for one dataset.           *)
(***************************************************************************)
EXTENDS Requests, Integers, Sequences, FiniteSets, SequencesExt

CONSTANTS
    FileIds,                \* files the page links to
    Listees,                \* names that rows may carry
    _MAX_DOWNLOAD_ATTEMPTS,
    max_attempts,           \* tries for one download
    PageLength,             \* bound: markers on the page
    MaxSheets,              \* bound: sheets of a workbook
    NeverColumns                 \* bound: columns that no sheet has

ASSUME LocalListAssumption ==
    /\ _MAX_DOWNLOAD_ATTEMPTS \in Nat /\ max_attempts \in Nat \ {0}
    /\ PageLength \in Nat /\ MaxSheets \in Nat
    /\ FileIds \cap {"ltl", "other", "excel", "pdf", "gap"} = {}

VARIABLES
    feed,      \* the refresh of the list that is running
    index      \* index[id]: the entity of the dataset with this source_id

localListVars == <<feed, index>>

-------------------------------------------------------------------------------
\* Vocabulary

\* What _MARKER recognises on the page; "gap" is text that ends the window.
Markers == {"ltl", "other", "excel", "pdf", "gap"} \cup FileIds
Pages == UNION {[1..n -> Markers] : n \in 0..PageLength}

\* A row has its serial number or none; a row without a name is formatting.  A sheet
\* shows one row here: two sheets of a kind stand for two rows of one.
SheetRow == [number : {1, None}, name : Listees \cup {None}]
Columns == {"#", "nationality", "licence", "delisting", "name"}
Sheet == [columns : SUBSET (Columns \ NeverColumns), row : SheetRow]
Books == UNION {[1..n -> Sheet] : n \in 1..MaxSheets}

SourceId == {"IND", "ENT", "GRP"} \X ({1} \cup Listees)
Entity == [name : Listees, delisted : BOOLEAN]

\* A refresh has files left to try, and remembers which lie under the heading.
NoFeed == [phase |-> "idle", todo |-> <<>>, tries |-> 0, file |-> None, under |-> {}, book |-> <<>>]

-------------------------------------------------------------------------------
\* The page

\* Mutation: the next list's heading does not end the scope.
StillInScope(scan, marker) ==
    IF marker = "ltl" THEN TRUE ELSE IF marker = "gap" THEN FALSE ELSE scan.scope
InScope(scan, marker) ==
    IF marker = "ltl" THEN TRUE ELSE IF marker \in {"other", "gap"} THEN FALSE ELSE scan.scope

\* One marker of the pass over the page.  A file is taken at its first link in scope.
Scan(scan, marker) ==
    IF marker \in FileIds
    THEN LET new == scan.scope /\ marker \notin Range(scan.excel) \cup Range(scan.others)
         IN  [scan EXCEPT !.icon = FALSE,
                          !.excel = IF new /\ scan.icon THEN Append(@, marker) ELSE @,
                          !.others = IF new /\ ~scan.icon THEN Append(@, marker) ELSE @]
    ELSE [scan EXCEPT !.scope = InScope(scan, marker),
                      !.icon = IF marker = "gap" THEN @ ELSE marker = "excel"]

\* Workbooks first.
_candidate_file_ids(page) ==
    LET scan[n \in 0..Len(page)] ==
            IF n = 0 THEN [scope |-> FALSE, icon |-> FALSE, excel |-> <<>>, others |-> <<>>]
            ELSE Scan(scan[n - 1], page[n])
    IN  scan[Len(page)].excel \o scan[Len(page)].others

\* What a reader sees: the file stands under the heading of the list, and no other
\* heading and not too much text stands between.
UnderHeading(page) ==
    {f \in FileIds : \E i, j \in DOMAIN page :
        /\ i < j /\ page[i] = "ltl" /\ page[j] = f
        /\ \A k \in i..j : page[k] \notin {"other", "gap"}}

-------------------------------------------------------------------------------
\* The workbook

_sheet_kind(sheet) ==
    IF "nationality" \in sheet.columns THEN "IND"
    ELSE IF "licence" \in sheet.columns THEN "ENT" ELSE "GRP"

\* Skipped: a sheet without a header row or name column, and one with a column for the
\* delisting resolution.
Read_(sheet) == "#" \in sheet.columns /\ "delisting" \notin sheet.columns /\ "name" \in sheet.columns

\* The sheets that yield an entity, and its source_id.
Yielding(book) == {i \in DOMAIN book : Read_(book[i]) /\ book[i].row.name # None}
source_id(sheet) ==
    <<_sheet_kind(sheet), IF sheet.row.number = None THEN sheet.row.name ELSE sheet.row.number>>
_row_to_entity(sheet) == [name |-> sheet.row.name, delisted |-> "delisting" \in sheet.columns]

\* The loader updates a known id in place, the last row winning; two new rows of one id
\* violate the unique key and undo the load.
Loaded(book) ==
    [id \in SourceId |->
        LET rows == {i \in Yielding(book) : source_id(book[i]) = id}
        IN  IF rows = {} THEN None ELSE _row_to_entity(book[Max(rows)])]
Loadable(book) ==
    \A i, j \in Yielding(book) :
        i # j /\ source_id(book[i]) = source_id(book[j]) => index[source_id(book[i])] # None

-------------------------------------------------------------------------------
LocalListInit ==
    /\ feed = NoFeed
    /\ index = [id \in SourceId |-> None]

RefreshBegins ==
    /\ feed.phase = "idle"
    /\ feed' = [NoFeed EXCEPT !.phase = "page"]
    /\ UNCHANGED index

\* The officer's override names the workbook itself.
FetchOverride ==
    /\ feed.phase = "page"
    /\ \E book \in Books : feed' = [NoFeed EXCEPT !.phase = "parse", !.book = book]
    /\ UNCHANGED index

\* An empty list of candidates is an AdapterError.
Tried(todo) == SubSeq(todo, 1, Min({Len(todo), _MAX_DOWNLOAD_ATTEMPTS}))

ReadPage ==
    /\ feed.phase = "page"
    /\ \E page \in Pages :
          LET todo == Tried(_candidate_file_ids(page)) IN
          feed' = IF todo = <<>> THEN NoFeed
                  ELSE [NoFeed EXCEPT !.phase = "download", !.todo = todo, !.under = UnderHeading(page)]
    /\ UNCHANGED index

\* fetch_with_retry: a time-out, a refused connection, 429 or 5xx is tried again; the
\* last failure, a refusal or an empty body ends the refresh.
DownloadFails(transient) ==
    /\ feed.phase = "download"
    /\ feed' = IF transient /\ feed.tries + 1 < max_attempts THEN [feed EXCEPT !.tries = @ + 1]
               ELSE NoFeed
    /\ UNCHANGED index

\* What is no workbook by its first bytes is passed over.
DownloadOther ==
    /\ feed.phase = "download"
    /\ feed' = IF Len(feed.todo) = 1 THEN NoFeed
               ELSE [feed EXCEPT !.todo = Tail(@), !.tries = 0]
    /\ UNCHANGED index

DownloadWorkbook ==
    /\ feed.phase = "download"
    /\ \E book \in Books : feed' = [NoFeed EXCEPT
           !.phase = "parse", !.file = Head(feed.todo), !.book = book, !.under = feed.under \cap {Head(feed.todo)}]
    /\ UNCHANGED index

\* A workbook without any entity is an AdapterError and leaves the index.
Refresh ==
    /\ feed.phase = "parse"
    /\ index' = IF Yielding(feed.book) # {} /\ Loadable(feed.book) THEN Loaded(feed.book) ELSE index
    /\ feed' = NoFeed

\* The reader of the format, or the process, fails.
RefreshDies ==
    /\ feed.phase # "idle"
    /\ feed' = NoFeed
    /\ UNCHANGED index

LocalListNext ==
    \/ RefreshBegins \/ DownloadOther \/ Refresh \/ RefreshDies
    \/ ReadPage \/ FetchOverride \/ DownloadWorkbook
    \/ \E transient \in BOOLEAN : DownloadFails(transient)

LocalListSpec == LocalListInit /\ [][LocalListNext]_localListVars

-------------------------------------------------------------------------------
\* Properties

\* Types of the refresh and of the index.
LocalListTypeOK ==
    /\ feed.phase \in {"idle", "page", "download", "parse"}
    /\ feed.tries \in 0..max_attempts /\ feed.under \subseteq FileIds
    /\ Range(feed.todo) \subseteq FileIds /\ Range(feed.book) \subseteq Sheet
    /\ index \in [SourceId -> Entity \cup {None}]

\* However the page and the workbook are laid out and whatever fails on the way, what
\* is downloaded stands under the heading of the Local Terrorist List (or is the
\* officer's own choice), and nobody whom the Office records as delisted is screened
\* against.
OnlyTheLocalList ==
    /\ \A i \in DOMAIN feed.todo : feed.todo[i] \in feed.under
    /\ feed.phase = "parse" /\ feed.file # None => feed.file \in feed.under
    /\ \A id \in SourceId : index[id] # None => ~index[id].delisted
===============================================================================
