-------------------------------- MODULE Site --------------------------------
(***************************************************************************)
(* `sign` and `verify` over the files of a build directory (src/main.rs,   *)
(* src/scanner.rs, src/generators.rs): `sign` scans the directory, puts    *)
(* integrity into one page after the other, writes the manifest and its    *)
(* signature beside the files it names, and the header files last.  It may *)
(* die between two steps or inside a write, and the build tool may renew   *)
(* any part of the directory before the next one.                          *)
(*                                                                         *)
(* Publisher looks at the same command from the side of the signatures;    *)
(* here a sign passes its gate or it does not: too few good signers, or a  *)
(* name that is not its own request key.  A content stands for its         *)
(* digests, a path is the sequence of its components; a statement and its  *)
(* signature are one file, and `verify` is given the root of the signs.    *)
(***************************************************************************)
EXTENDS Naturals, FiniteSets, SequencesExt

CONSTANTS
    Paths,          \* where the build directory may hold a file
    PageOrder,      \* the place of each HTML path in the byte order
    Fold,           \* a path in lower case
    Outputs,        \* the files of each build of the application
    Loads(_, _),    \* the path a browser asks for, for a URL of a page
    Versions,       \* the values given with --version
    StatementPath,  \* of a statement written into the directory
    ByHand,         \* integrity the build tool wrote
    Statement, Symlink, Absent, Torn, Unscannable,
    NoJob, NoRelease, CrossOrigin,
    MaxCommands     \* bound on the commands that are run

VARIABLES
    disk,           \* the build directory
    headers,        \* the three header files of --headers-out
    job,            \* the `sign` that is running
    revoked,        \* whether `verify` accepts a revocation that lies there
    release,        \* history: of the sign whose files lie there untouched
    behind,         \* history: pages older than a file they may name
    commands        \* how many commands were run

vars == <<disk, headers, job, revoked, release, behind, commands>>

ManifestPath == <<"veil-guard-manifest.json">>
SigPath      == <<"veil-guard-manifest.sig">>

DEFAULT_EXCLUDES ==
    {".DS_Store", "Thumbs.db", "veil-guard-manifest.json", "veil-guard-manifest.sig"}
DEFAULT_EXCLUDE_DIRS == {".vite", ".git"}

HtmlPaths   == DOMAIN PageOrder
HeaderFiles == 1 .. 3       \* _headers, veil-guard.nginx.conf, veil-guard.Caddyfile
NoPages     == [page \in {} |-> {}]

\* A page is a sequence of tags: what loads a subresource that SRI applies to
\* ("src", from urls[1]), an import map, an inline script, or neither ("data").
\* `integrity` holds the attributes put in, the first counts.
Url   == [host: {"self", "cdn"}, absolute: BOOLEAN, parts: Seq(STRING)]
Built == {Statement} \cup (UNION {{Outputs[b][p] : p \in DOMAIN Outputs[b] \ HtmlPaths} :
                                    b \in DOMAIN Outputs})
Integrity == Built \cup SUBSET (Paths \X Built) \cup {ByHand}
Tag   == [kind: {"src", "importmap", "inline", "data"}, urls: Seq(Url),
          integrity: Seq(Integrity)]
Html  == [build: DOMAIN Outputs, whole: BOOLEAN, tags: Seq(Tag) \cup {Unscannable}]
Manifests == [version: Versions, logged: BOOLEAN,
              assets: UNION {[scanned -> Built \cup Html] : scanned \in SUBSET Paths}]

ASSUME SiteAssumption ==
    /\ {ManifestPath, SigPath, StatementPath} \subseteq Paths
    /\ StatementPath \notin {ManifestPath, SigPath}
    /\ PageOrder \in [HtmlPaths -> Nat]
    /\ HtmlPaths \subseteq Paths \ {ManifestPath, SigPath, StatementPath}
    /\ \A b \in DOMAIN Outputs :
         /\ DOMAIN Outputs[b] \subseteq Paths \ {ManifestPath, SigPath, StatementPath}
         /\ \A p \in DOMAIN Outputs[b] \cap HtmlPaths : Outputs[b][p] \in Html
    /\ {Absent, Symlink, Torn} \cap (Html \cup Manifests \cup [signs: Manifests]) = {}
    /\ Absent # Symlink /\ Symlink # Torn /\ Statement # Absent
    /\ Unscannable \notin Seq(Tag)
    /\ Fold \in [Paths -> Paths] /\ MaxCommands \in Nat

Idle == job = NoJob

----------------------------------------------------------------------------
(* scan_dist.                                                              *)

\* Mutant: the manifest of an earlier sign is a file like any other.
ExcludedButDirs(path) == ToSet(path) \cap DEFAULT_EXCLUDE_DIRS # {}

Excluded(path) == \/ path[Len(path)] \in DEFAULT_EXCLUDES
                  \/ ToSet(path) \cap DEFAULT_EXCLUDE_DIRS # {}

Scanned(dir) == {p \in Paths : dir[p] # Absent /\ ~Excluded(p)}

\* A link, or two names that differ only by case, and there is no scan.
ScanFails(dir) ==
    \/ \E p \in Paths : dir[p] = Symlink
    \/ \E p, q \in Scanned(dir) : p # q /\ Fold[p] = Fold[q]

Scan(dir) == [p \in Scanned(dir) |-> dir[p]]

----------------------------------------------------------------------------
(* inject_sri and inject_importmap_integrity.                              *)

\* Mutant: a relative URL is taken from the root of the site.
ResolveFromRoot(url, page) ==
    IF url.host = "self" THEN url.parts ELSE CrossOrigin

\* One component of a relative URL; above the root there is no key.
Step(part, at) ==
    IF at = CrossOrigin THEN CrossOrigin
    ELSE CASE part = ".." -> IF at = <<>> THEN CrossOrigin ELSE Front(at)
           [] part \in {"", "."} -> at
           [] OTHER -> Append(at, part)

ResolveSameOrigin(url, page) ==
    IF url.host # "self" THEN CrossOrigin
    ELSE IF ~url.absolute
    THEN FoldLeft(LAMBDA at, part : Step(part, at), Front(page), url.parts)
    ELSE IF ToSet(url.parts) \cap {"", ".", ".."} = {} THEN url.parts ELSE CrossOrigin

\* The digests SRI is made of: those of the files that are not pages.
Digests(assets) ==
    [p \in DOMAIN assets \ HtmlPaths |-> assets[p]]

\* Mutant: integrity that is there already is not looked for.
InjectSriAgain(tag, page, digests) ==
    LET key == ResolveSameOrigin(tag.urls[1], page)
    IN  IF tag.kind = "src" /\ key \in DOMAIN digests
        THEN [tag EXCEPT !.integrity = <<digests[key]>> \o @] ELSE tag

\* Same-origin, of a scanned file, and without integrity of its own.
InjectSri(tag, page, digests) ==
    LET key == ResolveSameOrigin(tag.urls[1], page)
    IN  IF tag.kind = "src" /\ tag.integrity = <<>> /\ key \in DOMAIN digests
        THEN [tag EXCEPT !.integrity = <<digests[key]>>] ELSE tag

\* The entries an import map gets: of its absolute URLs alone.
ImportmapEntries(tag, digests) ==
    {<<url.parts, digests[url.parts]>> :
        url \in {u \in Range(tag.urls) : u.host = "self" /\ u.absolute
                                  /\ u.parts \in DOMAIN digests}}

InjectImportmap(tag, digests) ==
    IF tag.kind = "importmap" /\ tag.integrity = <<>>
       /\ ImportmapEntries(tag, digests) # {}
    THEN [tag EXCEPT !.integrity = <<ImportmapEntries(tag, digests)>>] ELSE tag

\* Mutant: a page that has integrity somewhere is done.
InjectOnce(tags, page, digests) ==
    IF \E i \in DOMAIN tags : tags[i].integrity # <<>> THEN tags
    ELSE [i \in DOMAIN tags |->
            InjectImportmap(InjectSri(tags[i], page, digests), digests)]

Inject(tags, page, digests) ==
    [i \in DOMAIN tags |->
        InjectImportmap(InjectSri(tags[i], page, digests), digests)]

\* The hash of an inline script is the script; an import map is one of them.
InlineScriptHashes(tags) ==
    {tags[i] : i \in {j \in DOMAIN tags : tags[j].kind \in {"inline", "importmap"}}}

----------------------------------------------------------------------------
(* `verify`: the signature first, then every file on either side.          *)

\* The signature is of the bytes that lie there.
Untouched(dir) == /\ dir[ManifestPath] \notin {Absent, Torn}
                  /\ dir[SigPath] = [signs |-> dir[ManifestPath]]

\* A revocation takes keys out of the root, and the manifest names another one.
Signed(dir) == Untouched(dir) /\ ~revoked

Mismatched(dir) == {p \in DOMAIN dir[ManifestPath].assets \cap Scanned(dir) :
                      dir[p] # dir[ManifestPath].assets[p]}
Missing(dir)      == DOMAIN dir[ManifestPath].assets \ Scanned(dir)
Unmanifested(dir) == Scanned(dir) \ DOMAIN dir[ManifestPath].assets

Matching(dir) ==
    /\ ~ScanFails(dir)
    /\ Mismatched(dir) = {} /\ Missing(dir) = {} /\ Unmanifested(dir) = {}

\* `verify` ends without an error.
Verified(dir) == Signed(dir) /\ Matching(dir)

----------------------------------------------------------------------------
Init == /\ disk = [p \in Paths |-> Absent]
        /\ headers = [h \in HeaderFiles |-> Absent]
        /\ job = NoJob /\ revoked = FALSE /\ release = NoRelease
        /\ behind = {} /\ commands = 0

Command == Idle /\ commands < MaxCommands /\ commands' = commands + 1

\* The build tool renews the files in `renewed`, after clearing the directory
\* or leaving the rest of it as it is.
Build(b, renewed, clean) ==
    /\ Command /\ (clean => renewed = DOMAIN Outputs[b])
    /\ disk' = [p \in Paths |-> IF p \in renewed THEN Outputs[b][p]
                                ELSE IF clean THEN Absent ELSE disk[p]]
    /\ revoked' = (revoked /\ ~clean)
    /\ release' = NoRelease
    /\ behind' = IF clean THEN {}
                 ELSE {pair \in behind : pair[1] \notin renewed}
                      \cup (HtmlPaths \ renewed) \X (renewed \ HtmlPaths)
    /\ UNCHANGED <<headers, job>>

\* `rotate` or `revoke` with an --out in the directory.  `accepted`: there is a
\* revocation that `verify` accepts afterwards, this one or, beside a rotation, an
\* earlier one; not one of another root, or one that was cut off.
WriteStatement(accepted) ==
    /\ Command
    /\ disk' = [disk EXCEPT ![StatementPath] = Statement]
    /\ revoked' = accepted /\ release' = NoRelease
    /\ UNCHANGED <<headers, job, behind>>

\* Its not_after is over.
RevocationExpires ==
    /\ revoked /\ revoked' = FALSE
    /\ UNCHANGED <<disk, headers, job, release, behind, commands>>

\* `sign` up to the first page.  A scan that fails ends it with nothing done.
Sign(version, noSri, headersOut, enough, upload) ==
    /\ Command /\ ~ScanFails(disk)
    /\ job' = [step |-> "splice", assets |-> Scan(disk),
               todo |-> IF noSri THEN {} ELSE Scanned(disk) \cap HtmlPaths,
               csp |-> NoPages, version |-> version, noSri |-> noSri,
               headersOut |-> headersOut, enough |-> enough, upload |-> upload,
               written |-> 0]
    /\ release' = IF release # NoRelease /\ ~noSri /\ ~release.sri
                  THEN NoRelease ELSE release
    /\ UNCHANGED <<disk, headers, revoked, behind>>

\* Pages are taken in the order of their keys.
Splicing(page) ==
    /\ ~Idle /\ job.step = "splice" /\ page \in job.todo
    /\ \A other \in job.todo : PageOrder[page] <= PageOrder[other]

Rewritten(page) ==
    [disk[page] EXCEPT !.tags = Inject(@, page, Digests(job.assets))]

Rehash(page) == [job.assets EXCEPT ![page] = Rewritten(page)]

\* Mutant: the hashes are those of the page as the build tool wrote it.
HashesBefore(page) == InlineScriptHashes(disk[page].tags)

HashesOf(page) == InlineScriptHashes(Rewritten(page).tags)

\* An HTML error stops the command; the pages before it stay rewritten.
SpliceFails(page) ==
    /\ Splicing(page) /\ disk[page].tags = Unscannable
    /\ job' = NoJob
    /\ UNCHANGED <<disk, headers, revoked, release, behind, commands>>

SplicePage(page) ==
    /\ Splicing(page) /\ disk[page].tags # Unscannable
    /\ disk' = [disk EXCEPT ![page] = Rewritten(page)]
    /\ job' = [job EXCEPT !.todo = @ \ {page}, !.assets = Rehash(page),
                   !.csp = [p \in DOMAIN @ \cup {page} |->
                              IF p = page THEN HashesOf(page) ELSE @[p]]]
    /\ UNCHANGED <<headers, revoked, release, behind, commands>>

\* Too few signatures or a name no verifier takes, and nothing is written.
Gate ==
    /\ ~Idle /\ job.step = "splice" /\ job.todo = {}
    /\ job' = IF job.enough THEN [job EXCEPT !.step = "payload"] ELSE NoJob
    /\ UNCHANGED <<disk, headers, revoked, release, behind, commands>>

Manifest == [version |-> job.version, logged |-> FALSE, assets |-> job.assets]

WritePayload ==
    /\ ~Idle /\ job.step = "payload"
    /\ disk' = [disk EXCEPT ![ManifestPath] = Manifest]
    /\ job' = [job EXCEPT !.step = "sig"]
    /\ release' = NoRelease
    /\ UNCHANGED <<headers, revoked, behind, commands>>

Ended(logged) == [sri |-> ~job.noSri, headers |-> job.headersOut, logged |-> logged]

\* The manifest and its signature are written; the header files come last.
FilesWritten(logged) ==
    /\ job' = IF job.headersOut THEN [job EXCEPT !.step = "headers"] ELSE NoJob
    /\ release' = IF job.headersOut THEN NoRelease ELSE Ended(logged)

WriteSig ==
    /\ ~Idle /\ job.step = "sig"
    /\ disk' = [disk EXCEPT ![SigPath] = [signs |-> Manifest]]
    /\ IF job.upload THEN job' = [job EXCEPT !.step = "rekor"] /\ UNCHANGED release
                     ELSE FilesWritten(FALSE)
    /\ UNCHANGED <<headers, revoked, behind, commands>>

\* The log entry is put into the manifest that was signed without it.
RekorUploaded ==
    /\ ~Idle /\ job.step = "rekor"
    /\ disk' = [disk EXCEPT ![ManifestPath] = [Manifest EXCEPT !.logged = TRUE]]
    /\ FilesWritten(TRUE)
    /\ UNCHANGED <<headers, revoked, behind, commands>>

\* A failed upload is a warning.
RekorFails ==
    /\ ~Idle /\ job.step = "rekor" /\ FilesWritten(FALSE)
    /\ UNCHANGED <<disk, headers, revoked, behind, commands>>

WriteHeaders ==
    /\ ~Idle /\ job.step = "headers"
    /\ LET h == job.written + 1
       IN  /\ headers' = [headers EXCEPT ![h] = job.csp]
           /\ job' = IF h \in HeaderFiles \ {3} THEN [job EXCEPT !.written = h] ELSE NoJob
           /\ release' = IF h = 3 THEN Ended(disk[ManifestPath].logged) ELSE NoRelease
    /\ UNCHANGED <<disk, revoked, behind, commands>>

\* What fs::write leaves of a page when it is cut off.
CutOff(page) ==
    {[page EXCEPT !.whole = FALSE, !.tags = tags] :
        tags \in {Unscannable} \cup {SubSeq(page.tags, 1, n) : n \in 0 .. Len(page.tags)}}

\* The command dies between two steps, or over a file.
DieBetween == /\ ~Idle /\ job' = NoJob
              /\ UNCHANGED <<disk, headers, revoked, release, behind, commands>>

DieOverPage(page) ==
    /\ Splicing(page) /\ disk[page].tags # Unscannable
    /\ Rewritten(page) # disk[page]
    /\ \E rest \in CutOff(Rewritten(page)) : disk' = [disk EXCEPT ![page] = rest]
    /\ job' = NoJob
    /\ UNCHANGED <<headers, revoked, release, behind, commands>>

DieOverManifest ==
    /\ ~Idle /\ job.step \in {"payload", "sig", "rekor"}
    /\ disk' = [disk EXCEPT ![IF job.step = "sig" THEN SigPath ELSE ManifestPath] = Torn]
    /\ job' = NoJob /\ release' = NoRelease
    /\ UNCHANGED <<headers, revoked, behind, commands>>

DieOverHeaders ==
    /\ ~Idle /\ job.step = "headers"
    /\ headers' = [headers EXCEPT ![job.written + 1] = Torn]
    /\ job' = NoJob
    /\ UNCHANGED <<disk, revoked, release, behind, commands>>

Next ==
    \/ \E b \in DOMAIN Outputs, clean \in BOOLEAN :
         \E renewed \in (SUBSET DOMAIN Outputs[b]) \ {{}} : Build(b, renewed, clean)
    \/ \E accepted \in BOOLEAN : WriteStatement(accepted)
    \/ RevocationExpires
    \/ \E version \in Versions, noSri, headersOut, enough, upload \in BOOLEAN :
         Sign(version, noSri, headersOut, enough, upload)
    \/ \E page \in HtmlPaths : SplicePage(page) \/ SpliceFails(page) \/ DieOverPage(page)
    \/ Gate \/ WritePayload \/ WriteSig \/ RekorUploaded \/ RekorFails \/ WriteHeaders
    \/ DieBetween \/ DieOverManifest \/ DieOverHeaders

Spec == Init /\ [][Next]_vars

----------------------------------------------------------------------------
\* The pages the running `sign` is done with.
Done == IF job.noSri THEN {} ELSE (Scanned(disk) \cap HtmlPaths) \ job.todo

\* In particular, the digests a running `sign` holds are those of the files.
JobTypeOK ==
    ~Idle => /\ job \in [step: {"splice", "payload", "sig", "rekor", "headers"},
                         assets: {Scan(disk)},
                         todo: SUBSET (Scanned(disk) \cap HtmlPaths),
                         csp: [Done -> SUBSET Tag],
                         version: Versions, noSri: BOOLEAN, headersOut: BOOLEAN,
                         enough: BOOLEAN, upload: BOOLEAN, written: 0 .. 2]
             /\ ~ScanFails(disk)

TypeOK ==
    /\ DOMAIN disk = Paths /\ DOMAIN headers = HeaderFiles
    /\ \A p \in HtmlPaths : disk[p] \in Html \cup {Absent}
    /\ \A p \in Paths \ (HtmlPaths \cup {ManifestPath, SigPath}) :
         disk[p] \in Built \cup {Absent}
    /\ behind \subseteq HtmlPaths \X Paths /\ commands \in 0 .. MaxCommands
    /\ release \in {NoRelease} \cup [sri: BOOLEAN, headers: BOOLEAN, logged: BOOLEAN]
    /\ revoked \in BOOLEAN /\ (revoked => disk[StatementPath] # Absent)
    /\ JobTypeOK

\* What a `sign` that ran to its end left is what `verify` accepts, through every
\* later `sign` that is refused, fails at a page or dies before it writes a
\* manifest of its own: with SRI in, it rewrites no page.  Not while a revocation
\* lies there, and never with a log entry in the manifest: the run
\* publisher_rekor_upload is about that one.
ReleaseVerifies ==
    release # NoRelease /\ ~release.logged /\ ~revoked => Verified(disk)

\* The pages a `sign` or an audit would read.
Readable == {p \in HtmlPaths \cap Scanned(disk) : disk[p].tags # Unscannable}

\* A directory `verify` accepts, whatever commands and builds led to it, has no
\* page whose integrity the browser would hold against the file beside it, but
\* for files that were renewed without the page that names them.
VerifiedPagesLoad ==
    Verified(disk) =>
        \A p \in Readable : \A i \in DOMAIN disk[p].tags :
            LET tag == disk[p].tags[i]
                key == Loads(tag.urls[1], p)
            IN  tag.integrity # <<>> =>
                /\ tag.kind = "src" /\ key # CrossOrigin =>
                     tag.integrity[1] = disk[key] \/ <<p, key>> \in behind
                /\ tag.kind = "importmap" =>
                     \A e \in tag.integrity[1] : e[2] = disk[e[1]] \/ <<p, e[1]>> \in behind

\* After a `sign` with SRI ran to its end, no page loads a signed script or maps
\* an absolute URL to one without integrity, whatever the page carried before.
ReleaseIsProtected ==
    release # NoRelease /\ release.sri =>
        \A p \in Readable : \A i \in DOMAIN disk[p].tags :
            LET tag == disk[p].tags[i]
            IN  tag.integrity = <<>> =>
                /\ tag.kind = "src" =>
                     Loads(tag.urls[1], p) \notin Scanned(disk) \ HtmlPaths
                /\ tag.kind = "importmap" =>
                     \A u \in Range(tag.urls) :
                        ~(u.host = "self" /\ u.absolute
                          /\ u.parts \in Scanned(disk) \ HtmlPaths)

\* The header files of a `sign` with SRI that ran to its end allow every inline
\* script of the pages as they ship, import maps with their integrity included.
HeadersCoverPages ==
    release # NoRelease /\ release.sri /\ release.headers =>
        \A p \in Readable, h \in HeaderFiles :
            /\ p \in DOMAIN headers[h]
            /\ InlineScriptHashes(disk[p].tags) \subseteq headers[h][p]
=============================================================================
