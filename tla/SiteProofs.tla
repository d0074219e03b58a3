----------------------------- MODULE SiteProofs -----------------------------
(* Proofs about the files of a build directory, for any site, any builds   *)
(* of it and any URLs in its pages.                                        *)
EXTENDS Site, SequenceTheorems, TLAPS

----------------------------------------------------------------------------
(* What putting integrity into a page keeps, and that doing it again       *)
(* changes nothing.                                                        *)

DigestTable(digests) ==
    \A p \in DOMAIN digests : p \in Paths /\ digests[p] \in Built

LEMMA SriTagTyped ==
    ASSUME NEW tag \in Tag, NEW page, NEW digests, DigestTable(digests)
    PROVE  /\ InjectSri(tag, page, digests) \in Tag
           /\ InjectSri(tag, page, digests).kind = tag.kind
           /\ InjectSri(tag, page, digests).urls = tag.urls
<1> DEFINE key == ResolveSameOrigin(tag.urls[1], page)
           new == <<digests[key]>>
<1> HIDE DEF key
<1>1. CASE tag.kind = "src" /\ tag.integrity = <<>> /\ key \in DOMAIN digests
  <2>1. new \in Seq(Integrity)
    BY <1>1 DEF DigestTable, Integrity
  <2>2. InjectSri(tag, page, digests) = [tag EXCEPT !.integrity = new]
    BY <1>1 DEF InjectSri, key
  <2> HIDE DEF new
  <2> QED BY <2>1, <2>2 DEF Tag
<1>2. CASE ~(tag.kind = "src" /\ tag.integrity = <<>> /\ key \in DOMAIN digests)
  BY <1>2 DEF InjectSri, key
<1> QED BY <1>1, <1>2

LEMMA MapTagTyped ==
    ASSUME NEW tag \in Tag, NEW digests, DigestTable(digests)
    PROVE  InjectImportmap(tag, digests) \in Tag
<1> DEFINE entries == ImportmapEntries(tag, digests)
           new == <<entries>>
<1>1. entries \in Integrity
  BY DEF ImportmapEntries, Integrity, DigestTable
<1> HIDE DEF entries
<1>2. new \in Seq(Integrity)
  BY <1>1
<1>3. CASE InjectImportmap(tag, digests) = tag
  BY <1>3
<1>4. CASE InjectImportmap(tag, digests) = [tag EXCEPT !.integrity = new]
  <2> HIDE DEF new
  <2> QED BY <1>2, <1>4 DEF Tag
<1> QED BY <1>3, <1>4 DEF InjectImportmap, entries

LEMMA InjectTyped ==
    ASSUME NEW tags \in Seq(Tag), NEW page, NEW digests, DigestTable(digests)
    PROVE  Inject(tags, page, digests) \in Seq(Tag)
<1>1. \A i \in DOMAIN tags : tags[i] \in Tag
  OBVIOUS
<1>2. \A i \in DOMAIN tags :
        InjectImportmap(InjectSri(tags[i], page, digests), digests) \in Tag
  BY <1>1, SriTagTyped, MapTagTyped
<1> QED BY <1>2 DEF Inject

\* A tag that was seen to needs nothing more.
LEMMA TagTwice ==
    ASSUME NEW tag \in Tag, NEW page, NEW digests, DigestTable(digests)
    PROVE  LET once == InjectImportmap(InjectSri(tag, page, digests), digests)
           IN  InjectImportmap(InjectSri(once, page, digests), digests) = once
<1> DEFINE mid == InjectSri(tag, page, digests)
           once == InjectImportmap(mid, digests)
<1>1. mid \in Tag /\ mid.kind = tag.kind /\ mid.urls = tag.urls
  BY SriTagTyped
<1>2. CASE tag.kind = "src"
  <2>1. once = mid
    BY <1>1, <1>2 DEF InjectImportmap
  <2>2. InjectSri(mid, page, digests) = mid
    <3> DEFINE key == ResolveSameOrigin(tag.urls[1], page)
    <3>1. CASE tag.integrity = <<>> /\ key \in DOMAIN digests
      <4>1. mid.integrity = <<digests[key]>>
        BY <1>2, <3>1 DEF InjectSri, Tag
      <4>2. mid.integrity # <<>>
        BY <4>1
      <4> QED BY <4>2 DEF InjectSri
    <3>2. CASE ~(tag.integrity = <<>> /\ key \in DOMAIN digests)
      BY <3>2 DEF InjectSri
    <3> QED BY <3>1, <3>2
  <2> QED BY <2>1, <2>2
<1>3. CASE tag.kind # "src"
  <2>1. mid = tag
    BY <1>3 DEF InjectSri
  <2>2. once.kind = tag.kind
    BY <2>1 DEF InjectImportmap, Tag
  <2>3. InjectSri(once, page, digests) = once
    BY <1>3, <2>2 DEF InjectSri
  <2>4. InjectImportmap(once, digests) = once
    <3>1. CASE once = mid
      BY <3>1 DEF InjectImportmap
    <3>2. CASE once # mid
      <4>1. once.integrity = <<ImportmapEntries(mid, digests)>>
        BY <2>1, <3>2 DEF InjectImportmap, Tag
      <4>2. once.integrity # <<>>
        BY <4>1
      <4> QED BY <4>2 DEF InjectImportmap
    <3> QED BY <3>1, <3>2
  <2> QED BY <2>3, <2>4
<1> QED BY <1>2, <1>3

\* Putting integrity into a page a second time leaves it as it is.
THEOREM InjectTwice ==
    ASSUME NEW tags \in Seq(Tag), NEW page, NEW digests, DigestTable(digests)
    PROVE  Inject(Inject(tags, page, digests), page, digests)
             = Inject(tags, page, digests)
<1> DEFINE Once(tag) == InjectImportmap(InjectSri(tag, page, digests), digests)
           one == [i \in DOMAIN tags |-> Once(tags[i])]
<1>1. Inject(tags, page, digests) = one
  BY DEF Inject
<1>2. \A i \in DOMAIN tags : tags[i] \in Tag
  OBVIOUS
<1>3. \A i \in DOMAIN tags : Once(Once(tags[i])) = Once(tags[i])
  BY <1>2, TagTwice
<1> HIDE DEF Once
<1>4. [i \in DOMAIN one |-> Once(one[i])] = one
  BY <1>3
<1>5. Inject(one, page, digests) = [i \in DOMAIN one |-> Once(one[i])]
  BY DEF Inject, Once
<1> QED BY <1>1, <1>4, <1>5

----------------------------------------------------------------------------
(* The inductive invariant.  A page the running `sign` is done with, and   *)
(* every page of a release with SRI, is one that putting integrity in      *)
(* would leave as it is: a later `sign` that never gets to its manifest    *)
(* has then rewritten nothing.                                             *)

Fixed(p) ==
    /\ disk[p].tags # Unscannable
    /\ Inject(disk[p].tags, p, Digests(Scan(disk))) = disk[p].tags

ReleaseIsSpliced ==
    release # NoRelease /\ release.sri =>
        \A p \in HtmlPaths \cap Scanned(disk) : Fixed(p)

\* A finished `sign` that uploaded nothing leaves what `verify` accepts as soon as
\* no revocation lies there: that one may expire.
ReleaseStands ==
    release # NoRelease /\ ~release.logged => Untouched(disk) /\ Matching(disk)

\* The manifest with its log entry, that nothing signs.
Logged == [Manifest EXCEPT !.logged = TRUE]

JobProgress ==
    ~Idle =>
        /\ \A p \in Done : Fixed(p) /\ job.csp[p] = InlineScriptHashes(disk[p].tags)
        /\ job.noSri \/ job.step # "splice" => job.todo = {}
        /\ job.step # "headers" => job.written = 0
        /\ job.step \in {"sig", "rekor", "headers"} => release = NoRelease
        /\ job.step \in {"sig", "rekor"} => disk[ManifestPath] = Manifest
        /\ job.step \in {"rekor", "headers"} => disk[SigPath] = [signs |-> Manifest]
        /\ job.step = "headers" =>
             /\ disk[ManifestPath] \in {Manifest, Logged} /\ job.headersOut
             /\ \A h \in 1 .. job.written : headers[h] = job.csp
        /\ release # NoRelease => job.noSri \/ release.sri

SiteInv == /\ TypeOK /\ ReleaseStands /\ ReleaseIsSpliced /\ HeadersCoverPages
           /\ JobProgress

LEMMA ControlFilesExcluded ==
    /\ Excluded(ManifestPath) /\ Excluded(SigPath)
    /\ ManifestPath # SigPath
    /\ \A dir : {ManifestPath, SigPath} \cap Scanned(dir) = {}
<1>1. ManifestPath # SigPath
  BY DEF ManifestPath, SigPath
<1>2. Excluded(ManifestPath)
  BY DEF Excluded, ManifestPath, DEFAULT_EXCLUDES
<1>3. Excluded(SigPath)
  BY DEF Excluded, SigPath, DEFAULT_EXCLUDES
<1> QED BY <1>1, <1>2, <1>3 DEF Scanned

\* What is written over the manifest or its signature is no matter to a scan.
LEMMA ControlFilesUnscanned ==
    ASSUME NEW dir, NEW path \in {ManifestPath, SigPath}, NEW file,
           DOMAIN dir = Paths, file # Symlink
    PROVE  LET after == [dir EXCEPT ![path] = file]
           IN  /\ Scanned(after) = Scanned(dir) /\ Scan(after) = Scan(dir)
               /\ ~ScanFails(dir) => ~ScanFails(after)
<1> DEFINE after == [dir EXCEPT ![path] = file]
<1>1. \A p \in Paths : after[p] = IF p = path THEN file ELSE dir[p]
  OBVIOUS
<1>2. Excluded(path)
  BY ControlFilesExcluded
<1> HIDE DEF after
<1>3. Scanned(after) = Scanned(dir)
  BY <1>1, <1>2 DEF Scanned
<1>4. \A p \in Scanned(dir) : p \in Paths /\ p # path
  BY <1>2 DEF Scanned
<1>5. Scan(after) = Scan(dir)
  BY <1>1, <1>3, <1>4 DEF Scan
<1>6. ~ScanFails(dir) => ~ScanFails(after)
  BY <1>1, <1>3 DEF ScanFails
<1> QED BY <1>3, <1>5, <1>6 DEF after

\* A page that is written anew changes its own digest and no other.
LEMMA PageRescanned ==
    ASSUME NEW dir, NEW page \in HtmlPaths \cap Scanned(dir), NEW file \in Html,
           DOMAIN dir = Paths
    PROVE  LET after == [dir EXCEPT ![page] = file]
           IN  /\ Scanned(after) = Scanned(dir)
               /\ Scan(after) = [Scan(dir) EXCEPT ![page] = file]
               /\ Digests(Scan(after)) = Digests(Scan(dir))
               /\ ~ScanFails(dir) => ~ScanFails(after)
<1> DEFINE after == [dir EXCEPT ![page] = file]
<1>1. \A p \in Paths : after[p] = IF p = page THEN file ELSE dir[p]
  OBVIOUS
<1>2. file # Absent /\ file # Symlink /\ dir[page] # Absent /\ ~Excluded(page)
      /\ page \in Paths
  BY SiteAssumption DEF Scanned
<1> HIDE DEF after
<1>3. Scanned(after) = Scanned(dir)
  BY <1>1, <1>2 DEF Scanned
<1>4. \A p \in Scanned(dir) : p \in Paths
  BY DEF Scanned
<1>5. Scan(after) = [Scan(dir) EXCEPT ![page] = file]
  BY <1>1, <1>3, <1>4 DEF Scan
<1>6. Digests(Scan(after)) = Digests(Scan(dir))
  BY <1>1, <1>3, <1>4 DEF Scan, Digests
<1>7. ~ScanFails(dir) => ~ScanFails(after)
  BY <1>1, <1>2, <1>3 DEF ScanFails
<1> QED BY <1>3, <1>5, <1>6, <1>7 DEF after

LEMMA DigestsTyped ==
    ASSUME TypeOK
    PROVE  DigestTable(Digests(Scan(disk)))
<1>1. \A p \in Scanned(disk) \ HtmlPaths : p \in Paths /\ disk[p] \in Built
  BY ControlFilesExcluded DEF TypeOK, Scanned
<1> QED BY <1>1 DEF DigestTable, Digests, Scan

LEMMA RewrittenTyped ==
    ASSUME TypeOK, NEW page \in HtmlPaths, Splicing(page),
           disk[page].tags # Unscannable
    PROVE  /\ page \in HtmlPaths \cap Scanned(disk)
           /\ disk[page] \in Html /\ disk[page].tags \in Seq(Tag)
           /\ job.assets = Scan(disk)
           /\ Rewritten(page) \in Html
           /\ Rewritten(page).tags = Inject(disk[page].tags, page, Digests(Scan(disk)))
           /\ Rewritten(page).tags \in Seq(Tag)
<1>1. page \in HtmlPaths \cap Scanned(disk) /\ job.assets = Scan(disk)
  BY DEF Splicing, TypeOK, JobTypeOK
<1>2. disk[page] \in Html
  BY <1>1 DEF TypeOK, Scanned
<1>3. disk[page].tags \in Seq(Tag)
  BY <1>2 DEF Html
<1> DEFINE new == Inject(disk[page].tags, page, Digests(Scan(disk)))
<1>4. new \in Seq(Tag)
  BY <1>3, DigestsTyped, InjectTyped
<1>5. Rewritten(page) = [disk[page] EXCEPT !.tags = new]
  BY <1>1 DEF Rewritten
<1> HIDE DEF new
<1>6. Rewritten(page) \in Html /\ Rewritten(page).tags = new
  BY <1>2, <1>4, <1>5 DEF Html
<1> QED BY <1>1, <1>2, <1>3, <1>4, <1>6 DEF new

\* A sign over a release with SRI finds its pages as it would leave them.
LEMMA ReleaseIsNotRewritten ==
    ASSUME SiteInv, NEW page \in HtmlPaths, Splicing(page),
           disk[page].tags # Unscannable, release # NoRelease
    PROVE  Rewritten(page) = disk[page]
<1>1. release.sri
  BY DEF SiteInv, JobProgress, Splicing
<1>2. /\ page \in HtmlPaths \cap Scanned(disk) /\ disk[page] \in Html
      /\ job.assets = Scan(disk)
  BY RewrittenTyped DEF SiteInv
<1>3. Inject(disk[page].tags, page, Digests(job.assets)) = disk[page].tags
  BY <1>1, <1>2 DEF SiteInv, ReleaseIsSpliced, Fixed
<1> QED BY <1>2, <1>3 DEF Rewritten, Html

----------------------------------------------------------------------------
LEMMA SiteInitially == Init => SiteInv
<1> SUFFICES ASSUME Init PROVE SiteInv
  OBVIOUS
<1>0. revoked \in BOOLEAN /\ ~revoked
  BY DEF Init
<1>1. TypeOK
  BY <1>0, SiteAssumption DEF Init, TypeOK, JobTypeOK, Idle, HeaderFiles
<1> QED BY <1>1 DEF Init, SiteInv, ReleaseStands, ReleaseIsSpliced,
           HeadersCoverPages, JobProgress, Idle

\* While the directory, the header files and the history stay as they are, only
\* what is said of the job is left to show.
LEMMA JobAlone ==
    ASSUME SiteInv, UNCHANGED <<disk, headers>>, release' \in {release, NoRelease},
           behind' = behind, commands' \in 0 .. MaxCommands,
           revoked' \in {revoked, FALSE}
    PROVE  /\ TypeOK' <=> JobTypeOK'
           /\ ReleaseStands' /\ ReleaseIsSpliced' /\ HeadersCoverPages'
<1>1. ReleaseStands'
  BY DEF SiteInv, ReleaseStands, Untouched, Matching, Mismatched, Missing,
     Unmanifested, Scanned, ScanFails
<1>2. ReleaseIsSpliced'
  BY DEF SiteInv, ReleaseIsSpliced, Fixed
<1>3. HeadersCoverPages'
  BY DEF SiteInv, HeadersCoverPages, Readable
<1>4. release' \in {NoRelease} \cup [sri: BOOLEAN, headers: BOOLEAN, logged: BOOLEAN]
  BY DEF SiteInv, TypeOK, JobTypeOK
<1>5. revoked' \in BOOLEAN /\ (revoked' => disk'[StatementPath] # Absent)
  <2>1. revoked \in BOOLEAN /\ (revoked => disk[StatementPath] # Absent)
    BY DEF SiteInv, TypeOK
  <2>2. CASE revoked' = revoked
    BY <2>1, <2>2, Zenon
  <2>3. CASE revoked' = FALSE
    BY <2>3, Zenon
  <2> QED BY <2>2, <2>3
<1>6. UNCHANGED <<disk, headers, behind>> /\ commands' \in 0 .. MaxCommands
  OBVIOUS
<1>7. TypeOK' <=> JobTypeOK'
  BY <1>4, <1>5, <1>6 DEF SiteInv, TypeOK
<1> QED BY <1>1, <1>2, <1>3, <1>7

LEMMA BuildStep ==
    ASSUME SiteInv, NEW b \in DOMAIN Outputs, NEW clean \in BOOLEAN,
           NEW renewed \in SUBSET DOMAIN Outputs[b], Build(b, renewed, clean)
    PROVE  SiteInv'
<1>1. Idle' /\ release' = NoRelease
  BY DEF Build, Command, Idle
<1>2. DOMAIN Outputs[b] \subseteq Paths \ {ManifestPath, SigPath, StatementPath}
  BY SiteAssumption
<1>3. \A p \in HtmlPaths : disk'[p] \in Html \cup {Absent}
  BY SiteAssumption DEF Build, SiteInv, TypeOK
<1>4. \A p \in Paths \ (HtmlPaths \cup {ManifestPath, SigPath}) :
        disk'[p] \in Built \cup {Absent}
  <2>1. \A p \in renewed \ HtmlPaths : Outputs[b][p] \in Built
    <3> SUFFICES ASSUME NEW p \in renewed \ HtmlPaths PROVE Outputs[b][p] \in Built
      OBVIOUS
    <3> DEFINE Files(c) == {Outputs[c][q] : q \in DOMAIN Outputs[c] \ HtmlPaths}
    <3>1. Outputs[b][p] \in Files(b)
      OBVIOUS
    <3>2. Files(b) \in {Files(c) : c \in DOMAIN Outputs}
      OBVIOUS
    <3>3. Outputs[b][p] \in UNION {Files(c) : c \in DOMAIN Outputs}
      BY <3>1, <3>2
    <3> QED BY <3>3 DEF Built
  <2> QED BY <2>1 DEF Build, SiteInv, TypeOK
<1>5. behind' \subseteq HtmlPaths \X Paths /\ commands' \in 0 .. MaxCommands
  BY <1>2, SiteAssumption DEF Build, Command, SiteInv, TypeOK
<1>50. revoked' \in BOOLEAN /\ (revoked' => disk'[StatementPath] # Absent)
  BY <1>2, SiteAssumption DEF Build, SiteInv, TypeOK
<1>6. TypeOK'
  BY <1>1, <1>3, <1>4, <1>5, <1>50 DEF Build, SiteInv, TypeOK, JobTypeOK
<1> QED BY <1>1, <1>6 DEF SiteInv, ReleaseStands, ReleaseIsSpliced,
           HeadersCoverPages, JobProgress

LEMMA StatementStep ==
    ASSUME SiteInv, NEW accepted \in BOOLEAN, WriteStatement(accepted) PROVE SiteInv'
<1>1. Idle' /\ release' = NoRelease
  BY DEF WriteStatement, Command, Idle
<1>2. Statement \in Built /\ StatementPath \notin HtmlPaths
  BY SiteAssumption DEF Built
<1>3. commands' \in 0 .. MaxCommands
  BY SiteAssumption DEF WriteStatement, Command, SiteInv, TypeOK
<1>30. revoked' \in BOOLEAN /\ disk'[StatementPath] # Absent
  BY SiteAssumption DEF WriteStatement, SiteInv, TypeOK
<1>4. TypeOK'
  BY <1>1, <1>2, <1>3, <1>30 DEF WriteStatement, SiteInv, TypeOK, JobTypeOK
<1> QED BY <1>1, <1>4 DEF SiteInv, ReleaseStands, ReleaseIsSpliced,
           HeadersCoverPages, JobProgress

LEMMA ExpiryStep == ASSUME SiteInv, RevocationExpires PROVE SiteInv'
<1>1. /\ UNCHANGED <<disk, headers, job, release, behind, commands>>
      /\ revoked' = FALSE /\ revoked
  BY DEF RevocationExpires
<1>2. /\ Idle' = Idle /\ Done' = Done /\ Scan(disk)' = Scan(disk) /\ Manifest' = Manifest
      /\ Scanned(disk)' = Scanned(disk) /\ ScanFails(disk)' = ScanFails(disk)
      /\ Logged' = Logged /\ \A p : Fixed(p)' = Fixed(p)
  BY <1>1 DEF Idle, Done, Scan, Scanned, ScanFails, Manifest, Logged, Fixed
<1>3. JobTypeOK' /\ JobProgress'
  BY <1>1, <1>2 DEF SiteInv, TypeOK, JobTypeOK, JobProgress
<1> QED BY <1>1, <1>3, JobAlone DEF SiteInv, TypeOK

LEMMA SignStep ==
    ASSUME SiteInv, NEW version \in Versions, NEW noSri \in BOOLEAN,
           NEW headersOut \in BOOLEAN, NEW enough \in BOOLEAN, NEW upload \in BOOLEAN,
           Sign(version, noSri, headersOut, enough, upload)
    PROVE  SiteInv'
<1> USE DEF Sign
<1> DEFINE todo == IF noSri THEN {} ELSE Scanned(disk) \cap HtmlPaths
<1>1. job' = [step |-> "splice", assets |-> Scan(disk), todo |-> todo,
              csp |-> NoPages, version |-> version, noSri |-> noSri,
              headersOut |-> headersOut, enough |-> enough, upload |-> upload,
              written |-> 0]
  OBVIOUS
<1>2. Scan(disk)' = Scan(disk) /\ Scanned(disk)' = Scanned(disk)
      /\ ScanFails(disk)' = ScanFails(disk)
  BY DEF Scan, Scanned, ScanFails
<1>3. Done' = {}
  BY <1>1, <1>2 DEF Done
<1>4. NoPages \in [{} -> SUBSET Tag]
  BY DEF NoPages
<1>5. todo \in SUBSET (Scanned(disk) \cap HtmlPaths)
  OBVIOUS
<1>6. commands' \in 0 .. MaxCommands
  BY SiteAssumption DEF Command, SiteInv, TypeOK
<1> HIDE DEF todo
<1>60. JobTypeOK'
  BY <1>1, <1>2, <1>3, <1>4, <1>5 DEF JobTypeOK, SiteInv, TypeOK, Command
<1>7. TypeOK' /\ ReleaseStands' /\ ReleaseIsSpliced' /\ HeadersCoverPages'
  BY <1>6, <1>60, JobAlone
<1>8. JobProgress'
  BY <1>1, <1>3 DEF JobProgress, todo, SiteInv, TypeOK
<1> QED BY <1>7, <1>8 DEF SiteInv

LEMMA SpliceFailsStep ==
    ASSUME SiteInv, NEW page \in HtmlPaths, SpliceFails(page) PROVE SiteInv'
<1>1. Idle'
  BY DEF SpliceFails, Idle
<1>2. commands' \in 0 .. MaxCommands
  BY DEF SpliceFails, SiteInv, TypeOK
<1> QED BY <1>1, <1>2, JobAlone DEF SpliceFails, SiteInv, JobTypeOK, JobProgress

\* What the page is given is what it would be given again.
LEMMA SplicedIsFixed ==
    ASSUME TypeOK, NEW page \in HtmlPaths, SplicePage(page)
    PROVE  /\ Scanned(disk') = Scanned(disk) /\ ~ScanFails(disk)'
           /\ Scan(disk') = [Scan(disk) EXCEPT ![page] = Rewritten(page)]
           /\ Digests(Scan(disk')) = Digests(Scan(disk))
           /\ disk'[page] = Rewritten(page)
           /\ \A p \in Paths \ {page} : disk'[p] = disk[p]
           /\ Fixed(page)'
<1> DEFINE new == Rewritten(page)
<1>1. Splicing(page) /\ disk[page].tags # Unscannable
  BY DEF SplicePage
<1>2. /\ page \in HtmlPaths \cap Scanned(disk) /\ new \in Html
      /\ new.tags \in Seq(Tag) /\ disk[page].tags \in Seq(Tag)
      /\ new.tags = Inject(disk[page].tags, page, Digests(Scan(disk)))
  BY <1>1, RewrittenTyped
<1>3. disk' = [disk EXCEPT ![page] = new] /\ DOMAIN disk = Paths
  BY DEF SplicePage, TypeOK
<1>4. ~ScanFails(disk)
  BY <1>1 DEF TypeOK, JobTypeOK, Splicing
<1> HIDE DEF new
<1>5. /\ Scanned(disk') = Scanned(disk) /\ ~ScanFails(disk')
      /\ Scan(disk') = [Scan(disk) EXCEPT ![page] = new]
      /\ Digests(Scan(disk')) = Digests(Scan(disk))
  BY <1>2, <1>3, <1>4, PageRescanned
<1>6. page \in Paths
  BY <1>2 DEF Scanned
<1>7. disk'[page] = new /\ \A p \in Paths \ {page} : disk'[p] = disk[p]
  BY <1>3, <1>6
<1>8. Inject(new.tags, page, Digests(Scan(disk))) = new.tags
  BY <1>2, DigestsTyped, InjectTwice
<1>9. new.tags # Unscannable
  BY <1>2, SiteAssumption
<1>10. Fixed(page)'
  BY <1>5, <1>7, <1>8, <1>9 DEF Fixed
<1>11. ScanFails(disk)' = ScanFails(disk')
  BY DEF ScanFails, Scanned
<1> QED BY <1>5, <1>7, <1>10, <1>11 DEF new

LEMMA SplicePageStep ==
    ASSUME SiteInv, NEW page \in HtmlPaths, SplicePage(page) PROVE SiteInv'
<1> DEFINE new == Rewritten(page)
           spliced == [p \in DOMAIN job.csp \cup {page} |->
                         IF p = page THEN InlineScriptHashes(new.tags) ELSE job.csp[p]]
<1>1. /\ Splicing(page) /\ disk[page].tags # Unscannable /\ ~Idle
      /\ job.step = "splice" /\ page \in job.todo
      /\ disk' = [disk EXCEPT ![page] = new] /\ UNCHANGED <<headers, revoked, release, behind, commands>>
  BY DEF SplicePage, Splicing
<1>2. /\ page \in HtmlPaths \cap Scanned(disk) /\ new \in Html
      /\ new.tags \in Seq(Tag) /\ job.assets = Scan(disk)
  BY <1>1, RewrittenTyped DEF SiteInv
<1>3. /\ Scanned(disk') = Scanned(disk) /\ ~ScanFails(disk)'
      /\ Scan(disk') = [Scan(disk) EXCEPT ![page] = new]
      /\ Digests(Scan(disk')) = Digests(Scan(disk))
      /\ disk'[page] = new /\ Fixed(page)'
      /\ \A p \in Paths \ {page} : disk'[p] = disk[p]
  BY SplicedIsFixed DEF SiteInv
<1>4. job' = [job EXCEPT !.todo = @ \ {page}, !.assets = [job.assets EXCEPT ![page] = new],
                         !.csp = spliced]
  BY DEF SplicePage, Rehash, HashesOf
<1> HIDE DEF new
<1>5. job.csp \in [Done -> SUBSET Tag] /\ job.todo \subseteq Scanned(disk) \cap HtmlPaths
  BY <1>1 DEF SiteInv, TypeOK, JobTypeOK
<1>6. ~job.noSri
  BY <1>1 DEF SiteInv, JobProgress
<1>7. /\ job'.todo = job.todo \ {page} /\ job'.assets = Scan(disk') /\ job'.csp = spliced
      /\ job'.noSri = job.noSri /\ job'.step = "splice" /\ job'.written = job.written
  BY <1>1, <1>2, <1>3, <1>4 DEF SiteInv, TypeOK, JobTypeOK
<1>8. Done' = Done \cup {page}
  BY <1>2, <1>3, <1>5, <1>6, <1>7 DEF Done
<1>9. InlineScriptHashes(new.tags) \in SUBSET Tag
  BY <1>2 DEF InlineScriptHashes
<1>10. spliced \in [Done' -> SUBSET Tag]
  BY <1>5, <1>8, <1>9
<1>11. \A p \in HtmlPaths : p \in Paths
  BY SiteAssumption
<1>12. JobTypeOK'
  <2>1. job' \in [step: {"splice", "payload", "sig", "rekor", "headers"}, assets: {Scan(disk')},
                  todo: SUBSET (Scanned(disk') \cap HtmlPaths), csp: [Done' -> SUBSET Tag],
                  version: Versions, noSri: BOOLEAN, headersOut: BOOLEAN,
                  enough: BOOLEAN, upload: BOOLEAN, written: 0 .. 2]
    <3> HIDE DEF spliced
    <3> QED BY <1>1, <1>2, <1>3, <1>4, <1>5, <1>10 DEF SiteInv, TypeOK, JobTypeOK
  <2> QED BY <2>1, <1>3 DEF JobTypeOK, Scan, Scanned
<1>13. TypeOK'
  <2>1. DOMAIN disk' = Paths
    BY <1>1 DEF SiteInv, TypeOK
  <2>2. \A p \in HtmlPaths : disk'[p] \in Html \cup {Absent}
    BY <1>2, <1>3, <1>11 DEF SiteInv, TypeOK
  <2>3. \A p \in Paths \ (HtmlPaths \cup {ManifestPath, SigPath}) :
          disk'[p] \in Built \cup {Absent}
    BY <1>3 DEF SiteInv, TypeOK
  <2>4. revoked' \in BOOLEAN /\ (revoked' => disk'[StatementPath] # Absent)
    BY <1>1, <1>3, SiteAssumption DEF SiteInv, TypeOK
  <2> QED BY <1>1, <1>12, <2>1, <2>2, <2>3, <2>4 DEF SiteInv, TypeOK
<1>14. \A p \in HtmlPaths : Fixed(p) => Fixed(p)'
  BY <1>3, <1>11 DEF Fixed
<1>15. \A p \in Done' : Fixed(p)' /\ job'.csp[p] = InlineScriptHashes(disk'[p].tags)
  <2> SUFFICES ASSUME NEW p \in Done'
               PROVE  Fixed(p)' /\ job'.csp[p] = InlineScriptHashes(disk'[p].tags)
    OBVIOUS
  <2>1. CASE p = page
    BY <2>1, <1>3, <1>7
  <2>2. CASE p # page
    <3>1. p \in Done /\ p \in HtmlPaths
      BY <2>2, <1>8 DEF Done
    <3>2. Fixed(p) /\ job.csp[p] = InlineScriptHashes(disk[p].tags)
      BY <3>1, <1>1 DEF SiteInv, JobProgress
    <3> QED BY <2>2, <3>1, <3>2, <1>3, <1>5, <1>7, <1>11, <1>14
  <2> QED BY <2>1, <2>2
<1>16. JobProgress'
  BY <1>1, <1>6, <1>7, <1>15 DEF SiteInv, JobProgress
<1>17. release # NoRelease => /\ \A p \in Paths : disk'[p] = disk[p]
                              /\ Scanned(disk') = Scanned(disk)
                              /\ Scan(disk') = Scan(disk)
                              /\ ~ScanFails(disk')
  <2> SUFFICES ASSUME release # NoRelease
               PROVE  \A p \in Paths : disk'[p] = disk[p]
    BY <1>3 DEF Scan, Scanned, ScanFails
  <2> QED BY <1>1, <1>3, ReleaseIsNotRewritten DEF new
<1>18. ReleaseStands'
  <2> SUFFICES ASSUME release # NoRelease, ~release.logged
               PROVE  Untouched(disk') /\ Matching(disk')
    BY <1>1 DEF ReleaseStands, Matching, Untouched, Scanned, ScanFails, Mismatched,
       Missing, Unmanifested
  <2>1. Untouched(disk) /\ Matching(disk) /\ {ManifestPath, SigPath} \subseteq Paths
    BY SiteAssumption DEF SiteInv, ReleaseStands
  <2>2. \A p \in Scanned(disk) : p \in Paths
    BY DEF Scanned
  <2> QED BY <1>17, <2>1, <2>2 DEF Matching, Untouched, Mismatched, Missing, Unmanifested
<1>19. ReleaseIsSpliced'
  BY <1>1, <1>3, <1>14 DEF SiteInv, ReleaseIsSpliced, Scan, Scanned
<1>20. HeadersCoverPages'
  BY <1>1, <1>11, <1>17 DEF SiteInv, HeadersCoverPages, Readable, Scanned
<1> QED BY <1>13, <1>16, <1>18, <1>19, <1>20 DEF SiteInv

LEMMA GateStep == ASSUME SiteInv, Gate PROVE SiteInv'
<1>1. /\ ~Idle /\ job.step = "splice" /\ job.todo = {}
      /\ job' \in {[job EXCEPT !.step = "payload"], NoJob}
      /\ UNCHANGED <<disk, headers, revoked, release, behind, commands>>
  BY DEF Gate
<1>2. commands' \in 0 .. MaxCommands
  BY <1>1 DEF SiteInv, TypeOK
<1>3. Scan(disk)' = Scan(disk) /\ Scanned(disk)' = Scanned(disk)
      /\ ScanFails(disk)' = ScanFails(disk)
  BY <1>1 DEF Scan, Scanned, ScanFails
<1>4. CASE job' = NoJob
  BY <1>1, <1>2, <1>4, JobAlone DEF SiteInv, JobTypeOK, JobProgress, Idle
<1>5. CASE job' = [job EXCEPT !.step = "payload"]
  <2>1. Done' = Done
    BY <1>3, <1>5, <1>1 DEF Done, SiteInv, TypeOK, JobTypeOK
  <2>2. JobTypeOK'
    BY <1>1, <1>3, <1>5, <2>1 DEF SiteInv, TypeOK, JobTypeOK
  <2>3. TypeOK' /\ ReleaseStands' /\ ReleaseIsSpliced' /\ HeadersCoverPages'
    BY <1>1, <1>2, <2>2, JobAlone
  <2>4. /\ job'.step = "payload" /\ job'.todo = job.todo /\ job'.csp = job.csp
        /\ job'.noSri = job.noSri /\ job'.written = job.written
    BY <1>1, <1>5 DEF SiteInv, TypeOK, JobTypeOK
  <2>5. JobProgress'
    BY <1>1, <1>3, <2>1, <2>4 DEF SiteInv, JobProgress, Fixed
  <2> QED BY <2>3, <2>5 DEF SiteInv
<1> QED BY <1>1, <1>4, <1>5

\* Nothing changes but, at most, the manifest and its signature.
SameScan ==
    /\ Scanned(disk') = Scanned(disk) /\ Scan(disk') = Scan(disk)
    /\ ~ScanFails(disk') /\ DOMAIN disk' = Paths
    /\ \A p \in HtmlPaths : disk'[p] = disk[p] /\ (Fixed(p) => Fixed(p)')
    /\ \A p \in HtmlPaths : disk'[p] \in Html \cup {Absent}
    /\ \A p \in Paths \ (HtmlPaths \cup {ManifestPath, SigPath}) :
         disk'[p] \in Built \cup {Absent}
    /\ disk'[StatementPath] = disk[StatementPath]

\* They are no part of what was scanned.
LEMMA ControlFileWritten ==
    ASSUME SiteInv, NEW path \in {ManifestPath, SigPath}, NEW file, file # Symlink, ~Idle,
           disk' = [disk EXCEPT ![path] = file]
    PROVE  /\ SameScan /\ disk'[path] = file
           /\ \A p \in Paths \ {path} : disk'[p] = disk[p]
<1>1. DOMAIN disk = Paths /\ ~ScanFails(disk)
  BY DEF SiteInv, TypeOK, JobTypeOK
<1>2. Scanned(disk') = Scanned(disk) /\ Scan(disk') = Scan(disk) /\ ~ScanFails(disk')
  BY <1>1, ControlFilesUnscanned
<1>3. path \in Paths /\ path \notin HtmlPaths /\ HtmlPaths \subseteq Paths
      /\ StatementPath \in Paths /\ StatementPath # path
  BY SiteAssumption
<1>4. /\ disk'[path] = file /\ DOMAIN disk' = Paths
      /\ \A p \in Paths \ {path} : disk'[p] = disk[p]
  BY <1>1, <1>3
<1>5. \A p \in HtmlPaths : disk'[p] = disk[p]
  BY <1>3, <1>4
<1>6. \A p \in HtmlPaths : Fixed(p) => Fixed(p)'
  BY <1>2, <1>5 DEF Fixed
<1>7. /\ \A p \in HtmlPaths : disk'[p] \in Html \cup {Absent}
      /\ \A p \in Paths \ (HtmlPaths \cup {ManifestPath, SigPath}) :
                disk'[p] \in Built \cup {Absent}
  BY <1>4, <1>5 DEF SiteInv, TypeOK
<1> QED BY <1>2, <1>3, <1>4, <1>5, <1>6, <1>7 DEF SameScan

LEMMA ManifestTyped ==
    ASSUME SiteInv, ~Idle
    PROVE  /\ Manifest \in Manifests
           /\ Manifest \notin {Absent, Torn, Symlink}
           /\ [signs |-> Manifest] \notin {Absent, Torn, Symlink}
           /\ Manifest.assets = Scan(disk)
<1>1. job.assets = Scan(disk) /\ job.version \in Versions
  BY DEF SiteInv, TypeOK, JobTypeOK
<1>2. \A p \in Scanned(disk) : p \in Paths /\ disk[p] \in Built \cup Html
  BY ControlFilesExcluded DEF SiteInv, TypeOK, Scanned
<1>3. Scan(disk) \in [Scanned(disk) -> Built \cup Html] /\ Scanned(disk) \in SUBSET Paths
  BY <1>2 DEF Scan
<1> HIDE DEF Scan, Scanned
<1>4. Scan(disk) \in UNION {[scanned -> Built \cup Html] : scanned \in SUBSET Paths}
  BY <1>3
<1>5. Manifest \in Manifests
  BY <1>1, <1>4 DEF Manifest, Manifests
<1>6. [signs |-> Manifest] \in [signs: Manifests]
  BY <1>5
<1> QED BY <1>1, <1>5, <1>6, SiteAssumption DEF Manifest

LEMMA WritePayloadStep == ASSUME SiteInv, WritePayload PROVE SiteInv'
<1>1. /\ ~Idle /\ job.step = "payload" /\ disk' = [disk EXCEPT ![ManifestPath] = Manifest]
      /\ job' = [job EXCEPT !.step = "sig"] /\ release' = NoRelease
      /\ UNCHANGED <<headers, revoked, behind, commands>>
  BY DEF WritePayload
<1>2. Manifest # Symlink
  BY <1>1, ManifestTyped
<1>3. SameScan /\ disk'[ManifestPath] = Manifest
  <2> HIDE DEF Manifest
  <2> QED BY <1>1, <1>2, ControlFileWritten
<1>4. /\ job'.step = "sig" /\ job'.todo = job.todo /\ job'.csp = job.csp
      /\ job'.noSri = job.noSri /\ job'.assets = job.assets /\ job'.version = job.version
      /\ job'.written = job.written
  BY <1>1 DEF SiteInv, TypeOK, JobTypeOK
<1>5. Done' = Done /\ Manifest' = Manifest
  BY <1>3, <1>4 DEF Done, Manifest, Scanned, SameScan
<1>6. JobTypeOK'
  BY <1>1, <1>3, <1>5 DEF SiteInv, TypeOK, JobTypeOK, Scan, Scanned, ScanFails, SameScan
<1>7. TypeOK'
  BY <1>1, <1>3, <1>6 DEF SiteInv, TypeOK, SameScan
<1>8. JobProgress'
  BY <1>1, <1>3, <1>4, <1>5 DEF SiteInv, JobProgress, Done, SameScan
<1> QED BY <1>1, <1>7, <1>8 DEF SiteInv, ReleaseStands, ReleaseIsSpliced,
           HeadersCoverPages

\* The manifest and its signature are written, with a log entry or without.
LEMMA FilesWrittenStep ==
    ASSUME SiteInv, ~Idle, job.step \in {"sig", "rekor"}, NEW logged \in BOOLEAN,
           FilesWritten(logged), UNCHANGED <<headers, revoked, behind, commands>>,
           SameScan, disk'[SigPath] = [signs |-> Manifest],
           disk'[ManifestPath] = IF logged THEN Logged ELSE Manifest
    PROVE  SiteInv'
<1>2. Manifest \notin {Absent, Torn} /\ Manifest.assets = Scan(disk)
  BY ManifestTyped
<1>3. /\ Scanned(disk') = Scanned(disk) /\ Scan(disk') = Scan(disk)
      /\ ~ScanFails(disk') /\ DOMAIN disk' = Paths
      /\ \A p \in HtmlPaths : disk'[p] = disk[p] /\ (Fixed(p) => Fixed(p)')
  BY DEF SameScan
<1>5. /\ \A p \in Done : Fixed(p)' /\ job.csp[p] = InlineScriptHashes(disk'[p].tags)
      /\ job.todo = {} /\ job.written = 0
  BY <1>3 DEF SiteInv, JobProgress, Done
<1>6. CASE job.headersOut
  <2>1. job' = [job EXCEPT !.step = "headers"] /\ release' = NoRelease
    BY <1>6 DEF FilesWritten
  <2>2. /\ job'.step = "headers" /\ job'.todo = job.todo /\ job'.csp = job.csp
        /\ job'.noSri = job.noSri /\ job'.assets = job.assets
        /\ job'.version = job.version /\ job'.written = job.written
        /\ job'.headersOut = job.headersOut
    BY <2>1 DEF SiteInv, TypeOK, JobTypeOK
  <2>3. Done' = Done /\ Manifest' = Manifest /\ Logged' = Logged
    BY <1>3, <2>2 DEF Done, Manifest, Logged, Scanned
  <2>4. JobTypeOK'
    BY <1>3, <2>1, <2>3 DEF SiteInv, TypeOK, JobTypeOK, Scan, Scanned, ScanFails
  <2>5. TypeOK'
    BY <2>1, <2>4 DEF SiteInv, TypeOK, SameScan
  <2>6. JobProgress'
    BY <1>3, <1>5, <1>6, <2>1, <2>2, <2>3 DEF JobProgress
  <2> QED BY <2>1, <2>5, <2>6 DEF SiteInv, ReleaseStands, ReleaseIsSpliced,
             HeadersCoverPages
<1>7. CASE ~job.headersOut
  <2>1. /\ Idle' /\ release' = Ended(logged) /\ ~Ended(logged).headers
        /\ Ended(logged).sri = ~job.noSri /\ Ended(logged).logged = logged
        /\ Ended(logged) \in [sri: BOOLEAN, headers: BOOLEAN, logged: BOOLEAN]
    BY <1>7 DEF FilesWritten, Ended, Idle, SiteInv, TypeOK, JobTypeOK
  <2>2. TypeOK'
    BY <2>1 DEF SiteInv, TypeOK, JobTypeOK, SameScan
  <2>3. ~logged => Untouched(disk') /\ Matching(disk')
    BY <1>2, <1>3 DEF Matching, Untouched, Mismatched, Missing, Unmanifested, Scan
  <2>4. ReleaseStands'
    BY <2>1, <2>3 DEF ReleaseStands, Matching, Untouched, Mismatched, Missing,
       Unmanifested, Scanned, ScanFails
  <2>5. ReleaseIsSpliced'
    <3> SUFFICES ASSUME release'.sri, NEW p \in HtmlPaths \cap Scanned(disk')
                 PROVE  Fixed(p)'
      BY DEF ReleaseIsSpliced, Scanned
    <3>1. p \in Done
      BY <1>3, <1>5, <2>1 DEF Done
    <3> QED BY <3>1, <1>5
  <2> QED BY <2>1, <2>2, <2>4, <2>5 DEF SiteInv, HeadersCoverPages, JobProgress
<1> QED BY <1>6, <1>7

LEMMA WriteSigStep == ASSUME SiteInv, WriteSig PROVE SiteInv'
<1> DEFINE sig == [signs |-> Manifest]
<1>1. /\ ~Idle /\ job.step = "sig" /\ disk' = [disk EXCEPT ![SigPath] = sig]
      /\ UNCHANGED <<headers, revoked, behind, commands>>
  BY DEF WriteSig
<1>2. sig # Symlink
  BY <1>1, ManifestTyped
<1> HIDE DEF sig
<1>3. /\ SameScan /\ disk'[SigPath] = sig
      /\ \A p \in Paths \ {SigPath} : disk'[p] = disk[p]
  BY <1>1, <1>2, ControlFileWritten
<1>4. disk'[ManifestPath] = Manifest
  BY <1>1, <1>3, SiteAssumption, ControlFilesExcluded DEF SiteInv, JobProgress
<1>5. CASE job.upload
  <2>1. job' = [job EXCEPT !.step = "rekor"] /\ release' = NoRelease
    BY <1>1, <1>5 DEF WriteSig, SiteInv, JobProgress
  <2>2. /\ job'.step = "rekor" /\ job'.todo = job.todo /\ job'.csp = job.csp
        /\ job'.noSri = job.noSri /\ job'.assets = job.assets
        /\ job'.version = job.version /\ job'.written = job.written
    BY <1>1, <2>1 DEF SiteInv, TypeOK, JobTypeOK
  <2>3. Done' = Done /\ Manifest' = Manifest
    BY <1>3, <2>2 DEF Done, Manifest, Scanned, SameScan
  <2>4. JobTypeOK'
    BY <1>1, <1>3, <2>1, <2>3 DEF SiteInv, TypeOK, JobTypeOK, Scan, Scanned, ScanFails,
       SameScan
  <2>5. TypeOK'
    BY <1>1, <1>3, <2>1, <2>4 DEF SiteInv, TypeOK, SameScan
  <2>6. JobProgress'
    BY <1>1, <1>3, <1>4, <2>1, <2>2, <2>3 DEF SiteInv, JobProgress, Done, sig, SameScan
  <2> QED BY <2>1, <2>5, <2>6 DEF SiteInv, ReleaseStands, ReleaseIsSpliced,
             HeadersCoverPages
<1>6. CASE ~job.upload
  <2>1. FilesWritten(FALSE)
    BY <1>6 DEF WriteSig
  <2> QED BY <1>1, <1>3, <1>4, <2>1, FilesWrittenStep DEF sig
<1> QED BY <1>5, <1>6

LEMMA RekorUploadedStep == ASSUME SiteInv, RekorUploaded PROVE SiteInv'
<1>1. /\ ~Idle /\ job.step = "rekor" /\ disk' = [disk EXCEPT ![ManifestPath] = Logged]
      /\ FilesWritten(TRUE) /\ UNCHANGED <<headers, revoked, behind, commands>>
  BY DEF RekorUploaded, Logged
<1>2. Logged # Symlink
  <2>1. Logged \in Manifests
    BY <1>1, ManifestTyped DEF Logged, Manifests
  <2> QED BY <2>1, SiteAssumption
<1> HIDE DEF Logged
<1>3. /\ SameScan /\ disk'[ManifestPath] = Logged
      /\ \A p \in Paths \ {ManifestPath} : disk'[p] = disk[p]
  BY <1>1, <1>2, ControlFileWritten
<1>4. disk'[SigPath] = [signs |-> Manifest]
  BY <1>1, <1>3, SiteAssumption, ControlFilesExcluded DEF SiteInv, JobProgress
<1> QED BY <1>1, <1>3, <1>4, FilesWrittenStep

LEMMA RekorFailsStep == ASSUME SiteInv, RekorFails PROVE SiteInv'
<1>1. /\ ~Idle /\ job.step = "rekor" /\ disk' = disk
      /\ FilesWritten(FALSE) /\ UNCHANGED <<headers, revoked, behind, commands>>
  BY DEF RekorFails
<1>2. SameScan
  BY <1>1, SiteAssumption DEF SameScan, SiteInv, TypeOK, JobTypeOK, Fixed
<1>3. disk'[SigPath] = [signs |-> Manifest] /\ disk'[ManifestPath] = Manifest
  BY <1>1 DEF SiteInv, JobProgress
<1> QED BY <1>1, <1>2, <1>3, FilesWrittenStep

\* The last of the header files makes the release.
LEMMA WriteHeadersStep == ASSUME SiteInv, WriteHeaders PROVE SiteInv'
<1> DEFINE h == job.written + 1
<1>1. /\ ~Idle /\ job.step = "headers" /\ headers' = [headers EXCEPT ![h] = job.csp]
      /\ UNCHANGED <<disk, revoked, behind, commands>>
      /\ job' = IF h \in HeaderFiles \ {3} THEN [job EXCEPT !.written = h] ELSE NoJob
      /\ release' = IF h = 3 THEN Ended(disk[ManifestPath].logged) ELSE NoRelease
  BY DEF WriteHeaders
<1>2. job.written \in 0 .. 2 /\ DOMAIN headers = HeaderFiles /\ job.todo = {}
      /\ job.headersOut
  BY <1>1 DEF SiteInv, TypeOK, JobTypeOK, JobProgress
<1>3. h \in HeaderFiles /\ \A g \in 1 .. h : headers'[g] = job.csp
  BY <1>1, <1>2 DEF SiteInv, JobProgress, HeaderFiles
<1>4. Scan(disk)' = Scan(disk) /\ Scanned(disk)' = Scanned(disk)
      /\ ScanFails(disk)' = ScanFails(disk) /\ \A p : Fixed(p)' = Fixed(p)
  BY <1>1 DEF Scan, Scanned, ScanFails, Fixed
<1>5. /\ \A p \in Done : Fixed(p) /\ job.csp[p] = InlineScriptHashes(disk[p].tags)
      /\ disk[ManifestPath] \in {Manifest, Logged} /\ disk[SigPath] = [signs |-> Manifest]
      /\ job.csp \in [Done -> SUBSET Tag]
  BY <1>1 DEF SiteInv, JobProgress, TypeOK, JobTypeOK
<1>6. DOMAIN headers' = HeaderFiles
  BY <1>1, <1>2
<1>7. CASE h # 3
  <2>1. job' = [job EXCEPT !.written = h] /\ release' = NoRelease /\ h \in 0 .. 2
    BY <1>1, <1>2, <1>3, <1>7 DEF HeaderFiles
  <2> HIDE DEF h
  <2>2. /\ job'.step = "headers" /\ job'.todo = job.todo /\ job'.csp = job.csp
        /\ job'.noSri = job.noSri /\ job'.assets = job.assets
        /\ job'.version = job.version /\ job'.written = h
        /\ job'.headersOut = job.headersOut
    BY <1>1, <2>1 DEF SiteInv, TypeOK, JobTypeOK
  <2>3. Done' = Done /\ Manifest' = Manifest /\ Logged' = Logged
    BY <1>4, <2>2 DEF Done, Manifest, Logged
  <2>4. JobTypeOK'
    BY <1>1, <1>4, <2>1, <2>3 DEF SiteInv, TypeOK, JobTypeOK
  <2>5. TypeOK'
    BY <1>1, <1>6, <2>1, <2>4 DEF SiteInv, TypeOK
  <2>6. JobProgress'
    BY <1>1, <1>2, <1>3, <1>4, <1>5, <2>1, <2>2, <2>3 DEF JobProgress
  <2> QED BY <2>1, <2>5, <2>6 DEF SiteInv, ReleaseStands, ReleaseIsSpliced,
             HeadersCoverPages
<1>8. CASE h = 3
  <2> DEFINE logged == disk[ManifestPath].logged
  <2>0. Manifest.logged = FALSE /\ Logged.logged = TRUE
    BY DEF Manifest, Logged
  <2>01. logged \in BOOLEAN /\ (~logged => disk[ManifestPath] = Manifest)
    BY <1>5, <2>0
  <2>1. /\ Idle' /\ release' = Ended(logged) /\ Ended(logged).sri = ~job.noSri
        /\ Ended(logged).logged = logged
        /\ Ended(logged) \in [sri: BOOLEAN, headers: BOOLEAN, logged: BOOLEAN]
    BY <1>1, <1>8, <2>01 DEF Ended, Idle, SiteInv, TypeOK, JobTypeOK
  <2> HIDE DEF logged
  <2>2. TypeOK'
    BY <1>1, <1>6, <2>1 DEF SiteInv, TypeOK, JobTypeOK
  <2>3. ~logged => Untouched(disk) /\ Matching(disk)
    <3>1. Manifest \notin {Absent, Torn} /\ Manifest.assets = Scan(disk)
      BY <1>1, ManifestTyped
    <3>2. ~ScanFails(disk)
      BY <1>1 DEF SiteInv, TypeOK, JobTypeOK
    <3> QED BY <1>5, <2>01, <3>1, <3>2 DEF Matching, Untouched, Mismatched, Missing,
               Unmanifested, Scan
  <2>4. ReleaseStands'
    BY <1>1, <2>1, <2>3 DEF ReleaseStands, Untouched, Matching, Mismatched, Missing,
       Unmanifested, Scanned, ScanFails
  <2>5. \A p \in HtmlPaths \cap Scanned(disk) : release'.sri => p \in Done
    BY <1>2, <2>1 DEF Done
  <2>6. ReleaseIsSpliced'
    BY <1>4, <1>5, <2>5 DEF ReleaseIsSpliced
  <2>7. \A g \in HeaderFiles : headers'[g] = job.csp
    BY <1>3, <1>8 DEF HeaderFiles
  <2>8. HeadersCoverPages'
    <3> SUFFICES ASSUME release'.sri, NEW p \in Readable', NEW g \in HeaderFiles
                 PROVE  /\ p \in DOMAIN headers'[g]
                        /\ InlineScriptHashes(disk'[p].tags) \subseteq headers'[g][p]
      BY DEF HeadersCoverPages
    <3>1. p \in HtmlPaths \cap Scanned(disk)
      BY <1>1 DEF Readable
    <3> QED BY <1>1, <1>5, <2>5, <2>7, <3>1
  <2> QED BY <2>1, <2>2, <2>4, <2>6, <2>8 DEF SiteInv, JobProgress
<1> QED BY <1>7, <1>8

LEMMA DieBetweenStep == ASSUME SiteInv, DieBetween PROVE SiteInv'
<1>1. Idle' /\ commands' \in 0 .. MaxCommands
  BY DEF DieBetween, Idle, SiteInv, TypeOK
<1> QED BY <1>1, JobAlone DEF DieBetween, SiteInv, JobTypeOK, JobProgress

\* A death over a page needs a page that is rewritten, so there is no release.
LEMMA DieOverPageStep ==
    ASSUME SiteInv, NEW page \in HtmlPaths, DieOverPage(page) PROVE SiteInv'
<1>1. /\ Splicing(page) /\ disk[page].tags # Unscannable /\ Rewritten(page) # disk[page]
      /\ UNCHANGED <<headers, revoked, release, behind, commands>> /\ Idle'
  BY DEF DieOverPage, Idle
<1>2. release = NoRelease
  BY <1>1, ReleaseIsNotRewritten
<1>3. PICK rest \in CutOff(Rewritten(page)) : disk' = [disk EXCEPT ![page] = rest]
  BY DEF DieOverPage
<1>4. Rewritten(page) \in Html /\ Rewritten(page).tags \in Seq(Tag)
  BY <1>1, RewrittenTyped DEF SiteInv
<1>5. rest \in Html
  <2> DEFINE tags == Rewritten(page).tags
  <2>1. \A n \in 0 .. Len(tags) : SubSeq(tags, 1, n) \in Seq(Tag)
    BY <1>4
  <2>2. PICK cut \in {Unscannable} \cup {SubSeq(tags, 1, n) : n \in 0 .. Len(tags)} :
          rest = [Rewritten(page) EXCEPT !.whole = FALSE, !.tags = cut]
    BY DEF CutOff
  <2>3. cut \in Seq(Tag) \cup {Unscannable}
    BY <2>1, <2>2
  <2> QED BY <1>4, <2>2, <2>3 DEF Html
<1>6. TypeOK'
  BY <1>1, <1>3, <1>5, SiteAssumption DEF SiteInv, TypeOK, JobTypeOK
<1> QED BY <1>1, <1>2, <1>6 DEF SiteInv, ReleaseStands, ReleaseIsSpliced,
           HeadersCoverPages, JobProgress

LEMMA DieOverManifestStep == ASSUME SiteInv, DieOverManifest PROVE SiteInv'
<1>1. Idle' /\ release' = NoRelease /\ UNCHANGED <<headers, revoked, behind, commands>>
  BY DEF DieOverManifest, Idle
<1>2. PICK path \in {ManifestPath, SigPath} : disk' = [disk EXCEPT ![path] = Torn]
  BY DEF DieOverManifest
<1>3. path \notin HtmlPaths
  BY SiteAssumption
<1>4. TypeOK'
  BY <1>1, <1>2, <1>3, SiteAssumption DEF SiteInv, TypeOK, JobTypeOK
<1> QED BY <1>1, <1>4 DEF SiteInv, ReleaseStands, ReleaseIsSpliced,
           HeadersCoverPages, JobProgress

LEMMA DieOverHeadersStep == ASSUME SiteInv, DieOverHeaders PROVE SiteInv'
<1>1. Idle' /\ release = NoRelease /\ UNCHANGED <<disk, revoked, release, behind, commands>>
      /\ DOMAIN headers' = DOMAIN headers
  BY DEF DieOverHeaders, Idle, SiteInv, JobProgress
<1>2. TypeOK'
  BY <1>1 DEF SiteInv, TypeOK, JobTypeOK
<1> QED BY <1>1, <1>2 DEF SiteInv, ReleaseStands, ReleaseIsSpliced,
           HeadersCoverPages, JobProgress

LEMMA SiteStep == SiteInv /\ [Next]_vars => SiteInv'
<1> SUFFICES ASSUME SiteInv, [Next]_vars PROVE SiteInv'
  OBVIOUS
<1>1. CASE UNCHANGED vars
  BY <1>1 DEF vars, SiteInv, TypeOK, JobTypeOK, Done, Scan, Scanned, ScanFails, Idle,
     ReleaseStands, Matching, Untouched, Mismatched, Missing, Unmanifested,
     ReleaseIsSpliced, Fixed, HeadersCoverPages, Readable, JobProgress, Manifest, Logged
<1>2. CASE Next
  <2>1. ASSUME NEW b \in DOMAIN Outputs, NEW clean \in BOOLEAN,
               NEW renewed \in (SUBSET DOMAIN Outputs[b]) \ {{}},
               Build(b, renewed, clean)
        PROVE  SiteInv'
    BY <2>1, BuildStep
  <2>2. ASSUME NEW version \in Versions, NEW noSri \in BOOLEAN,
               NEW headersOut \in BOOLEAN, NEW enough \in BOOLEAN,
               NEW upload \in BOOLEAN, Sign(version, noSri, headersOut, enough, upload)
        PROVE  SiteInv'
    BY <2>2, SignStep
  <2>3. ASSUME NEW page \in HtmlPaths,
               SplicePage(page) \/ SpliceFails(page) \/ DieOverPage(page)
        PROVE  SiteInv'
    BY <2>3, SplicePageStep, SpliceFailsStep, DieOverPageStep
  <2>30. ASSUME NEW accepted \in BOOLEAN, WriteStatement(accepted) PROVE SiteInv'
    BY <2>30, StatementStep
  <2>4. CASE RevocationExpires \/ Gate \/ WritePayload \/ WriteSig \/ RekorUploaded
             \/ RekorFails \/ WriteHeaders
    BY <2>4, ExpiryStep, GateStep, WritePayloadStep, WriteSigStep, RekorUploadedStep,
       RekorFailsStep, WriteHeadersStep
  <2>5. CASE DieBetween \/ DieOverManifest \/ DieOverHeaders
    BY <2>5, DieBetweenStep, DieOverManifestStep, DieOverHeadersStep
  <2> QED BY <1>2, <2>1, <2>2, <2>3, <2>30, <2>4, <2>5 DEF Next
<1> QED BY <1>1, <1>2

LEMMA SiteInvariance == Spec => []SiteInv
BY SiteInitially, SiteStep, PTL DEF Spec

\* The files, the running `sign` and the history are of their types, for any site;
\* the digests a `sign` goes by are those of the files under it.
THEOREM Typing == Spec => []TypeOK
<1>1. SiteInv => TypeOK
  BY DEF SiteInv
<1> QED BY <1>1, SiteInvariance, PTL

\* ReleaseVerifies: what a finished `sign` left `verify` goes on accepting through
\* every later `sign` that ends before it writes a manifest, and again when a
\* revocation has expired; unless a log entry was put into it.
THEOREM FinishedSignVerifies == Spec => []ReleaseVerifies
<1>1. SiteInv => ReleaseVerifies
  BY DEF SiteInv, ReleaseStands, ReleaseVerifies, Verified, Signed
<1> QED BY <1>1, SiteInvariance, PTL

\* The header files of a finished `sign` with SRI allow the inline scripts of every
\* page it ships.
THEOREM FinishedSignCoversPages == Spec => []HeadersCoverPages
<1>1. SiteInv => HeadersCoverPages
  BY DEF SiteInv
<1> QED BY <1>1, SiteInvariance, PTL

----------------------------------------------------------------------------
(* Integrity, and the files a browser holds it against.                    *)

\* The tool and the browser agree on which file of the site a URL names.
Agrees(page, tag) ==
    LET key   == ResolveSameOrigin(tag.urls[1], page)
        loads == Loads(tag.urls[1], page)
    IN  tag.kind = "src" /\ {key, loads} \cap Paths # {} => key = loads

\* What the builds put into their pages: URLs that the tool resolves as a browser
\* does, which "/a/../b.js" is not, and no integrity but for other origins' files.
BuildsAreResolved ==
    \A b \in DOMAIN Outputs : \A p \in DOMAIN Outputs[b] \cap HtmlPaths :
        LET tags == Outputs[b][p].tags
        IN  tags # Unscannable =>
            \A i \in DOMAIN tags :
                /\ Agrees(p, tags[i])
                /\ tags[i].integrity # <<>> =>
                     /\ tags[i].kind # "importmap"
                     /\ tags[i].kind = "src" => Loads(tags[i].urls[1], p) = CrossOrigin

\* The files that get a digest.
Assets == Paths \ (HtmlPaths \cup {ManifestPath, SigPath})

\* The digest is that of the file, or the file was renewed without the page.
Current(dir, old, page, key, digest) ==
    /\ key \in Assets
    /\ \/ digest = dir[key] /\ dir[key] # Absent
       \/ <<page, key>> \in old

TagCurrent(dir, old, page, tag) ==
    /\ tag \in Tag /\ Agrees(page, tag)
    /\ tag.integrity # <<>> =>
         /\ tag.kind = "src" =>
              \/ Loads(tag.urls[1], page) = CrossOrigin
              \/ Current(dir, old, page, Loads(tag.urls[1], page), tag.integrity[1])
         /\ tag.kind = "importmap" =>
              \A e \in tag.integrity[1] : Current(dir, old, page, e[1], e[2])

PageCurrent(dir, old, page) ==
    dir[page] # Absent /\ dir[page].tags # Unscannable =>
        \A i \in DOMAIN dir[page].tags : TagCurrent(dir, old, page, dir[page].tags[i])

CurrentInv ==
    /\ TypeOK /\ \A page \in HtmlPaths : PageCurrent(disk, behind, page)
    /\ disk[StatementPath] \in {Statement, Absent}
\* A page stays current when no file it has digests of is renewed without its being
\* put among those that are behind.
LEMMA StaysCurrent ==
    ASSUME NEW dir, NEW old, NEW after, NEW later, NEW page \in HtmlPaths,
           PageCurrent(dir, old, page), after[page] = dir[page],
           \A key \in Assets : \/ dir[key] = Absent \/ after[key] = dir[key]
                               \/ <<page, key>> \in later,
           \A key \in Assets : <<page, key>> \in old => <<page, key>> \in later
    PROVE  PageCurrent(after, later, page)
<1> SUFFICES ASSUME after[page] # Absent, after[page].tags # Unscannable,
                    NEW i \in DOMAIN after[page].tags
             PROVE  TagCurrent(after, later, page, after[page].tags[i])
  BY DEF PageCurrent
<1> DEFINE tag == dir[page].tags[i]
<1>1. TagCurrent(dir, old, page, tag)
  BY DEF PageCurrent
<1> HIDE DEF tag
<1>2. \A key, digest : Current(dir, old, page, key, digest) =>
                         Current(after, later, page, key, digest)
  BY DEF Current
<1>3. TagCurrent(after, later, page, tag)
  BY <1>1, <1>2 DEF TagCurrent
<1> QED BY <1>3 DEF tag

\* What is put into a tag is the digest of the file the browser will load.
LEMMA InjectedIsCurrent ==
    ASSUME TypeOK, NEW page, NEW tag, TagCurrent(disk, behind, page, tag)
    PROVE  LET digests == Digests(Scan(disk))
           IN  TagCurrent(disk, behind, page,
                          InjectImportmap(InjectSri(tag, page, digests), digests))
<1> DEFINE digests == Digests(Scan(disk))
           mid  == InjectSri(tag, page, digests)
           once == InjectImportmap(mid, digests)
<1>1. \A p \in DOMAIN digests : /\ p \in Assets /\ digests[p] = disk[p]
                                /\ disk[p] # Absent
  BY ControlFilesExcluded DEF Digests, Scan, Scanned, Assets
<1>2. DigestTable(digests)
  BY DigestsTyped
<1> HIDE DEF digests
<1>3. tag \in Tag /\ Agrees(page, tag)
  BY DEF TagCurrent
<1>4. mid \in Tag /\ mid.kind = tag.kind /\ mid.urls = tag.urls
  BY <1>2, <1>3, SriTagTyped
<1>5. once \in Tag
  BY <1>2, <1>4, MapTagTyped
<1>50. once = InjectImportmap(mid, digests) /\ mid = InjectSri(tag, page, digests)
  OBVIOUS
<1> HIDE DEF mid, once
<1> SUFFICES TagCurrent(disk, behind, page, once)
  BY DEF digests, mid, once
<1>6. CASE tag.kind = "src"
  <2> DEFINE key == ResolveSameOrigin(tag.urls[1], page)
  <2>1. once = mid
    BY <1>4, <1>6, <1>50 DEF InjectImportmap
  <2>2. CASE tag.integrity = <<>> /\ key \in DOMAIN digests
    <3>1. mid.integrity = <<digests[key]>>
      BY <1>3, <1>6, <1>50, <2>2 DEF InjectSri, Tag
    <3>2. mid.integrity[1] = digests[key] /\ mid.integrity # <<>>
      BY <3>1
    <3>3. key \in Paths
      BY <1>1, <2>2 DEF Assets
    <3>4. key = Loads(tag.urls[1], page)
      BY <1>3, <1>6, <3>3 DEF Agrees
    <3>5. Current(disk, behind, page, Loads(tag.urls[1], page), mid.integrity[1])
      BY <1>1, <2>2, <3>2, <3>4 DEF Current
    <3>6. Agrees(page, mid)
      BY <1>3, <1>4 DEF Agrees
    <3> QED BY <1>4, <1>6, <2>1, <3>5, <3>6 DEF TagCurrent
  <2>3. CASE ~(tag.integrity = <<>> /\ key \in DOMAIN digests)
    <3>1. mid = tag
      BY <1>50, <2>3 DEF InjectSri
    <3> QED BY <2>1, <3>1
  <2> QED BY <2>2, <2>3
<1>7. CASE tag.kind = "importmap"
  <2>1. mid = tag
    BY <1>7, <1>50 DEF InjectSri
  <2>2. CASE once # mid
    <3> DEFINE entries == ImportmapEntries(tag, digests)
    <3>1. once = [tag EXCEPT !.integrity = <<entries>>]
      BY <1>50, <2>1, <2>2 DEF InjectImportmap
    <3>2. \A e \in entries : Current(disk, behind, page, e[1], e[2])
      BY <1>1 DEF ImportmapEntries, Current
    <3> HIDE DEF entries
    <3>3. once.integrity[1] = entries /\ once.kind = "importmap"
      BY <1>3, <1>7, <3>1 DEF Tag
    <3>4. Agrees(page, once)
      BY <3>3 DEF Agrees
    <3> QED BY <1>5, <3>2, <3>3, <3>4 DEF TagCurrent
  <2> QED BY <2>1, <2>2
<1>8. CASE tag.kind \notin {"src", "importmap"}
  <2>1. mid = tag
    BY <1>8, <1>50 DEF InjectSri
  <2>2. once = mid
    BY <1>8, <1>50, <2>1 DEF InjectImportmap
  <2> QED BY <2>1, <2>2
<1> QED BY <1>6, <1>7, <1>8

\* The tags of a page that was rewritten, or that was cut off while it was.
LEMMA RewrittenIsCurrent ==
    ASSUME CurrentInv, NEW page \in HtmlPaths, Splicing(page),
           disk[page].tags # Unscannable, NEW i \in DOMAIN Rewritten(page).tags
    PROVE  TagCurrent(disk, behind, page, Rewritten(page).tags[i])
<1>1. /\ page \in HtmlPaths \cap Scanned(disk)
      /\ Rewritten(page).tags = Inject(disk[page].tags, page, Digests(Scan(disk)))
  BY RewrittenTyped DEF CurrentInv
<1>2. disk[page] # Absent
  BY <1>1 DEF Scanned
<1> DEFINE digests == Digests(Scan(disk))
           tags == disk[page].tags
           Once(tag) == InjectImportmap(InjectSri(tag, page, digests), digests)
<1>3. Rewritten(page).tags = [j \in DOMAIN tags |-> Once(tags[j])]
  BY <1>1 DEF Inject
<1>4. i \in DOMAIN tags /\ Rewritten(page).tags[i] = Once(tags[i])
  BY <1>3
<1>5. TagCurrent(disk, behind, page, tags[i])
  BY <1>2, <1>4 DEF CurrentInv, PageCurrent
<1>6. TagCurrent(disk, behind, page, Once(tags[i]))
  BY <1>5, InjectedIsCurrent DEF CurrentInv
<1> QED BY <1>4, <1>6

\* A page is written over by what is current.
LEMMA PageWritten ==
    ASSUME CurrentInv, NEW page \in HtmlPaths, NEW file,
           disk' = [disk EXCEPT ![page] = file], behind' = behind,
           file.tags # Unscannable =>
             \A i \in DOMAIN file.tags : TagCurrent(disk, behind, page, file.tags[i])
    PROVE  /\ \A p \in HtmlPaths : PageCurrent(disk', behind', p)
           /\ disk'[StatementPath] = disk[StatementPath]
<1>1. DOMAIN disk = Paths /\ page \in Paths /\ StatementPath # page
      /\ page \notin Assets /\ StatementPath \in Paths
  BY SiteAssumption DEF CurrentInv, TypeOK, Assets
<1>2. \A p \in Paths : disk'[p] = IF p = page THEN file ELSE disk[p]
  BY <1>1
<1>3. \A key \in Assets : disk'[key] = disk[key]
  BY <1>1, <1>2 DEF Assets
<1>4. ASSUME NEW p \in HtmlPaths, p # page PROVE PageCurrent(disk', behind', p)
  <2>1. disk'[p] = disk[p] /\ PageCurrent(disk, behind, p)
    BY <1>2, <1>4, SiteAssumption DEF CurrentInv
  <2> QED BY <1>3, <2>1, StaysCurrent
<1>5. PageCurrent(disk', behind', page)
  <2>1. disk'[page] = file
    BY <1>1, <1>2
  <2>2. \A key, digest : Current(disk, behind, page, key, digest) =>
                           Current(disk', behind', page, key, digest)
    BY <1>3 DEF Current
  <2>3. \A tag : TagCurrent(disk, behind, page, tag) => TagCurrent(disk', behind', page, tag)
    BY <2>2 DEF TagCurrent
  <2> QED BY <2>1, <2>3 DEF PageCurrent
<1> QED BY <1>1, <1>2, <1>4, <1>5

LEMMA CurrentInitially == Init /\ SiteInv => CurrentInv
  BY SiteAssumption DEF Init, SiteInv, CurrentInv, PageCurrent

LEMMA BuildCurrent ==
    ASSUME BuildsAreResolved, CurrentInv, SiteInv', NEW b \in DOMAIN Outputs,
           NEW clean \in BOOLEAN, NEW renewed \in SUBSET DOMAIN Outputs[b],
           Build(b, renewed, clean)
    PROVE  CurrentInv'
<1>1. /\ DOMAIN disk = Paths /\ HtmlPaths \subseteq Paths
      /\ DOMAIN Outputs[b] \subseteq Paths \ {ManifestPath, SigPath, StatementPath}
      /\ StatementPath \in Paths
  BY SiteAssumption DEF CurrentInv, TypeOK
<1>2. \A p \in Paths : disk'[p] = IF p \in renewed THEN Outputs[b][p]
                                  ELSE IF clean THEN Absent ELSE disk[p]
  BY <1>1 DEF Build
<1>3. ASSUME NEW page \in HtmlPaths PROVE PageCurrent(disk', behind', page)
  <2>1. CASE page \in renewed
    <3>1. disk'[page] = Outputs[b][page] /\ page \in DOMAIN Outputs[b] \cap HtmlPaths
      BY <1>1, <1>2, <2>1
    <3>2. Outputs[b][page] \in Html
      BY <3>1, SiteAssumption
    <3> DEFINE tags == Outputs[b][page].tags
    <3>3. ASSUME tags # Unscannable, NEW i \in DOMAIN tags
          PROVE  TagCurrent(disk', behind', page, tags[i])
      <4>1. tags[i] \in Tag
        BY <3>2, <3>3 DEF Html
      <4>2. /\ Agrees(page, tags[i])
            /\ tags[i].integrity # <<>> =>
                 /\ tags[i].kind # "importmap"
                 /\ tags[i].kind = "src" => Loads(tags[i].urls[1], page) = CrossOrigin
        BY <3>1, <3>3 DEF BuildsAreResolved
      <4> QED BY <4>1, <4>2 DEF TagCurrent
    <3> QED BY <3>1, <3>3 DEF PageCurrent
  <2>2. CASE page \notin renewed /\ clean
    BY <1>1, <1>2, <2>2 DEF PageCurrent
  <2>3. CASE page \notin renewed /\ ~clean
    <3>1. behind' = {pair \in behind : pair[1] \notin renewed}
                    \cup (HtmlPaths \ renewed) \X (renewed \ HtmlPaths)
      BY <2>3 DEF Build
    <3>2. disk'[page] = disk[page] /\ PageCurrent(disk, behind, page)
      BY <1>1, <1>2, <2>3 DEF CurrentInv
    <3>3. ASSUME NEW key \in Assets
          PROVE  /\ disk[key] = Absent \/ disk'[key] = disk[key]
                    \/ <<page, key>> \in behind'
                 /\ <<page, key>> \in behind => <<page, key>> \in behind'
      <4>1. key \in Paths \ HtmlPaths
        BY DEF Assets
      <4>2. CASE key \in renewed
        BY <2>3, <3>1, <4>1, <4>2
      <4>3. CASE key \notin renewed
        <5>1. disk'[key] = disk[key]
          BY <1>2, <2>3, <4>1, <4>3
        <5> QED BY <2>3, <3>1, <5>1
      <4> QED BY <4>2, <4>3
    <3> QED BY <3>2, <3>3, StaysCurrent
  <2> QED BY <2>1, <2>2, <2>3
<1>4. disk'[StatementPath] \in {Statement, Absent}
  BY <1>1, <1>2 DEF CurrentInv
<1> QED BY <1>3, <1>4 DEF CurrentInv, SiteInv

LEMMA StatementCurrent ==
    ASSUME CurrentInv, SiteInv', NEW accepted \in BOOLEAN, WriteStatement(accepted)
    PROVE  CurrentInv'
<1>1. /\ DOMAIN disk = Paths /\ StatementPath \in Paths \ HtmlPaths
      /\ HtmlPaths \subseteq Paths
  BY SiteAssumption DEF CurrentInv, TypeOK
<1>2. /\ \A p \in Paths : disk'[p] = IF p = StatementPath THEN Statement ELSE disk[p]
      /\ behind' = behind
  BY <1>1 DEF WriteStatement
<1>3. \A key \in Assets : disk[key] = Absent \/ disk'[key] = disk[key]
  BY <1>2 DEF Assets, CurrentInv
<1>4. ASSUME NEW page \in HtmlPaths PROVE PageCurrent(disk', behind', page)
  <2>1. disk'[page] = disk[page] /\ PageCurrent(disk, behind, page)
    BY <1>1, <1>2 DEF CurrentInv
  <2> QED BY <1>2, <1>3, <2>1, StaysCurrent
<1> QED BY <1>1, <1>2, <1>4 DEF CurrentInv, SiteInv

\* A file that is no page, no asset and no statement.
LEMMA ControlWritten ==
    ASSUME CurrentInv, SiteInv', NEW path \in {ManifestPath, SigPath}, NEW file,
           disk' = [disk EXCEPT ![path] = file], behind' = behind
    PROVE  CurrentInv'
<1>1. /\ DOMAIN disk = Paths /\ path \in Paths /\ StatementPath \in Paths
      /\ path \notin HtmlPaths \cup Assets \cup {StatementPath}
      /\ HtmlPaths \cup Assets \subseteq Paths
  BY SiteAssumption DEF CurrentInv, TypeOK, Assets
<1>2. \A p \in Paths \ {path} : disk'[p] = disk[p]
  BY <1>1
<1>3. ASSUME NEW page \in HtmlPaths PROVE PageCurrent(disk', behind', page)
  <2>1. disk'[page] = disk[page] /\ PageCurrent(disk, behind, page)
    BY <1>1, <1>2 DEF CurrentInv
  <2>2. \A key \in Assets : disk'[key] = disk[key]
    BY <1>1, <1>2
  <2> QED BY <2>1, <2>2, StaysCurrent
<1> QED BY <1>1, <1>2, <1>3 DEF CurrentInv, SiteInv

LEMMA SpliceCurrent ==
    ASSUME CurrentInv, SiteInv', NEW page \in HtmlPaths,
           SplicePage(page) \/ DieOverPage(page)
    PROVE  CurrentInv'
<1>1. /\ Splicing(page) /\ disk[page].tags # Unscannable /\ behind' = behind
  BY DEF SplicePage, DieOverPage
<1> DEFINE new == Rewritten(page)
<1>2. \A i \in DOMAIN new.tags : TagCurrent(disk, behind, page, new.tags[i])
  BY <1>1, RewrittenIsCurrent
<1>3. new \in Html /\ new.tags \in Seq(Tag)
  BY <1>1, RewrittenTyped DEF CurrentInv
<1> HIDE DEF new
<1>4. PICK file : /\ disk' = [disk EXCEPT ![page] = file]
                  /\ file.tags # Unscannable =>
                       \A i \in DOMAIN file.tags :
                          i \in DOMAIN new.tags /\ file.tags[i] = new.tags[i]
  <2>1. CASE SplicePage(page)
    <3>1. disk' = [disk EXCEPT ![page] = new]
      BY <2>1 DEF SplicePage, new
    <3> QED BY <3>1
  <2>2. CASE DieOverPage(page)
    <3>1. PICK rest \in CutOff(new) : disk' = [disk EXCEPT ![page] = rest]
      BY <2>2 DEF DieOverPage, new
    <3>2. PICK cut \in {Unscannable} \cup {SubSeq(new.tags, 1, n) : n \in 0 .. Len(new.tags)} :
            rest = [new EXCEPT !.whole = FALSE, !.tags = cut]
      BY <3>1 DEF CutOff
    <3>3. rest.tags = cut
      BY <1>3, <3>2 DEF Html
    <3>4. ASSUME NEW n \in 0 .. Len(new.tags), NEW i \in DOMAIN SubSeq(new.tags, 1, n)
          PROVE  i \in DOMAIN new.tags /\ SubSeq(new.tags, 1, n)[i] = new.tags[i]
      BY <1>3
    <3>5. cut # Unscannable =>
            \A i \in DOMAIN cut : i \in DOMAIN new.tags /\ cut[i] = new.tags[i]
      BY <3>2, <3>4
    <3> QED BY <3>1, <3>3, <3>5
  <2> QED BY <2>1, <2>2
<1>5. file.tags # Unscannable =>
        \A i \in DOMAIN file.tags : TagCurrent(disk, behind, page, file.tags[i])
  BY <1>2, <1>4
<1>6. /\ \A p \in HtmlPaths : PageCurrent(disk', behind', p)
      /\ disk'[StatementPath] = disk[StatementPath]
  BY <1>1, <1>4, <1>5, PageWritten
<1> QED BY <1>6 DEF CurrentInv, SiteInv

LEMMA CurrentStep ==
    ASSUME BuildsAreResolved, CurrentInv, SiteInv', [Next]_vars PROVE CurrentInv'
<1>1. CASE UNCHANGED <<disk, behind>>
  BY <1>1 DEF CurrentInv, SiteInv
<1>2. ASSUME NEW b \in DOMAIN Outputs, NEW clean \in BOOLEAN,
             NEW renewed \in SUBSET DOMAIN Outputs[b], Build(b, renewed, clean)
      PROVE  CurrentInv'
  BY <1>2, BuildCurrent
<1>3. ASSUME NEW accepted \in BOOLEAN, WriteStatement(accepted) PROVE CurrentInv'
  BY <1>3, StatementCurrent
<1>4. ASSUME NEW page \in HtmlPaths, SplicePage(page) \/ DieOverPage(page)
      PROVE  CurrentInv'
  BY <1>4, SpliceCurrent
<1>5. CASE WritePayload
  <2>1. disk' = [disk EXCEPT ![ManifestPath] = Manifest] /\ behind' = behind
    BY <1>5 DEF WritePayload
  <2> QED BY <2>1, ControlWritten
<1>6. CASE WriteSig
  <2>1. disk' = [disk EXCEPT ![SigPath] = [signs |-> Manifest]] /\ behind' = behind
    BY <1>6 DEF WriteSig
  <2> QED BY <2>1, ControlWritten
<1>7. CASE DieOverManifest
  <2>1. PICK path \in {ManifestPath, SigPath} :
          disk' = [disk EXCEPT ![path] = Torn] /\ behind' = behind
    BY <1>7 DEF DieOverManifest
  <2> QED BY <2>1, ControlWritten
<1>60. CASE RekorUploaded
  <2>1. disk' = [disk EXCEPT ![ManifestPath] = Logged] /\ behind' = behind
    BY <1>60 DEF RekorUploaded, Logged
  <2> QED BY <2>1, ControlWritten
<1>8. ASSUME \/ \E version \in Versions, noSri, headersOut, enough, upload \in BOOLEAN :
                  Sign(version, noSri, headersOut, enough, upload)
             \/ \E page \in HtmlPaths : SpliceFails(page)
             \/ RevocationExpires \/ RekorFails
             \/ Gate \/ WriteHeaders \/ DieBetween \/ DieOverHeaders \/ UNCHANGED vars
      PROVE  UNCHANGED <<disk, behind>>
  BY <1>8 DEF Sign, SpliceFails, RevocationExpires, RekorFails, Gate, WriteHeaders, DieBetween, DieOverHeaders, vars
<1> QED BY <1>1, <1>2, <1>3, <1>4, <1>5, <1>6, <1>60, <1>7,
           <1>8 DEF Next

LEMMA CurrentHolds == BuildsAreResolved /\ Spec => [](SiteInv /\ CurrentInv)
<1>1. SUFFICES ASSUME BuildsAreResolved PROVE Spec => [](SiteInv /\ CurrentInv)
  OBVIOUS
<1>2. Init => SiteInv /\ CurrentInv
  BY SiteInitially, CurrentInitially
<1>3. SiteInv /\ CurrentInv /\ [Next]_vars => (SiteInv /\ CurrentInv)'
  BY <1>1, SiteStep, CurrentStep
<1> QED BY <1>2, <1>3, PTL DEF Spec

\* VerifiedPagesLoad, for builds that write their URLs plainly: whatever was signed,
\* cut off, rebuilt in part or rewritten before, integrity that is in a page is that
\* of the file the browser loads for it, or the file was renewed without the page.
THEOREM VerifiedPagesAlwaysLoad == BuildsAreResolved /\ Spec => []VerifiedPagesLoad
<1>1. ASSUME CurrentInv PROVE VerifiedPagesLoad
  <2> SUFFICES ASSUME NEW p \in Readable, NEW i \in DOMAIN disk[p].tags
               PROVE  LET tag == disk[p].tags[i]
                          key == Loads(tag.urls[1], p)
                      IN  tag.integrity # <<>> =>
                          /\ tag.kind = "src" /\ key # CrossOrigin =>
                               tag.integrity[1] = disk[key] \/ <<p, key>> \in behind
                          /\ tag.kind = "importmap" =>
                               \A e \in tag.integrity[1] :
                                  e[2] = disk[e[1]] \/ <<p, e[1]>> \in behind
    BY DEF VerifiedPagesLoad
  <2>1. TagCurrent(disk, behind, p, disk[p].tags[i])
    BY <1>1 DEF CurrentInv, PageCurrent, Readable, Scanned
  <2> QED BY <2>1 DEF TagCurrent, Current
<1> QED BY <1>1, CurrentHolds, PTL

\* ReleaseIsProtected, for the same builds: a `sign` with SRI that ran to its end
\* passed over nothing that it could have protected.
THEOREM FinishedSignProtects == BuildsAreResolved /\ Spec => []ReleaseIsProtected
<1>1. ASSUME SiteInv, CurrentInv PROVE ReleaseIsProtected
  <2> SUFFICES ASSUME release # NoRelease, release.sri,
                      NEW p \in Readable, NEW i \in DOMAIN disk[p].tags,
                      disk[p].tags[i].integrity = <<>>
               PROVE  LET tag == disk[p].tags[i]
                      IN  /\ tag.kind = "src" =>
                               Loads(tag.urls[1], p) \notin Scanned(disk) \ HtmlPaths
                          /\ tag.kind = "importmap" =>
                               \A u \in Range(tag.urls) :
                                  ~(u.host = "self" /\ u.absolute
                                    /\ u.parts \in Scanned(disk) \ HtmlPaths)
    BY DEF ReleaseIsProtected
  <2> DEFINE tag == disk[p].tags[i]
             digests == Digests(Scan(disk))
             mid == InjectSri(tag, p, digests)
  <2>1. p \in HtmlPaths \cap Scanned(disk) /\ Fixed(p)
    BY <1>1 DEF Readable, SiteInv, ReleaseIsSpliced
  <2>2. InjectImportmap(mid, digests) = tag
    BY <2>1 DEF Fixed, Inject
  <2>3. TagCurrent(disk, behind, p, tag)
    BY <1>1 DEF CurrentInv, PageCurrent, Readable, Scanned
  <2>4. DOMAIN digests = Scanned(disk) \ HtmlPaths
    BY DEF Digests, Scan
  <2> HIDE DEF tag, digests
  <2>5. tag \in Tag /\ Agrees(p, tag) /\ tag.integrity = <<>>
    BY <2>3 DEF TagCurrent, tag
  <2>6. ASSUME tag.kind = "src" PROVE Loads(tag.urls[1], p) \notin DOMAIN digests
    <3> SUFFICES ASSUME Loads(tag.urls[1], p) \in DOMAIN digests PROVE FALSE
      OBVIOUS
    <3>1. Loads(tag.urls[1], p) \in Paths
      BY <2>4 DEF Scanned
    <3>2. ResolveSameOrigin(tag.urls[1], p) = Loads(tag.urls[1], p)
      BY <2>5, <2>6, <3>1 DEF Agrees
    <3>3. mid = [tag EXCEPT !.integrity = <<digests[Loads(tag.urls[1], p)]>>]
      BY <2>5, <2>6, <3>2 DEF InjectSri
    <3>4. mid.kind = "src" /\ mid.integrity = <<digests[Loads(tag.urls[1], p)]>>
      BY <2>5, <2>6, <3>3 DEF Tag
    <3>5. mid = tag
      BY <2>2, <3>4 DEF InjectImportmap
    <3> DEFINE digest == digests[Loads(tag.urls[1], p)]
    <3> HIDE DEF mid, digest
    <3>6. <<digest>> # <<>>
      OBVIOUS
    <3> QED BY <2>5, <3>4, <3>5, <3>6 DEF digest
  <2>7. ASSUME tag.kind = "importmap", NEW u \in Range(tag.urls), u.host = "self",
               u.absolute, u.parts \in DOMAIN digests
        PROVE  FALSE
    <3>1. mid = tag
      BY <2>7 DEF InjectSri
    <3> DEFINE entries == ImportmapEntries(tag, digests)
    <3>2. <<u.parts, digests[u.parts]>> \in entries
      BY <2>7 DEF ImportmapEntries
    <3>3. tag = [tag EXCEPT !.integrity = <<entries>>]
      BY <2>2, <2>5, <2>7, <3>1, <3>2 DEF InjectImportmap
    <3>4. tag.integrity = <<entries>>
      <4> HIDE DEF entries
      <4>1. PICK new : new = [tag EXCEPT !.integrity = <<entries>>]
        OBVIOUS
      <4>2. new.integrity = <<entries>>
        BY <2>5, <4>1 DEF Tag
      <4> QED BY <3>3, <4>1, <4>2
    <3> HIDE DEF entries
    <3>5. <<entries>> # <<>>
      OBVIOUS
    <3> QED BY <2>5, <3>4, <3>5
  <2> QED BY <2>4, <2>6, <2>7 DEF tag
<1> QED BY <1>1, CurrentHolds, PTL
=============================================================================
