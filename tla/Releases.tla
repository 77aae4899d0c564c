------------------------------ MODULE Releases ------------------------------
(***************************************************************************)
(* Application updates: an administrator uploads installers to the hub or  *)
(* publishes ones that are kept elsewhere (routes/admin.ts), and clients   *)
(* read latest.yml or latest-mac.yml and download what it names            *)
(* (index.ts).                                                             *)
(*                                                                         *)
(* Everything is in files.  A request writes several, one after the other, *)
(* and the process may die after any of them or while it writes one;       *)
(* otherwise a handler is not interrupted and readers see whole requests.  *)
(* Installers are told apart by their contents; of a feed, the name and    *)
(* the installer it describes are kept.  The log of downloads, which only  *)
(* the dashboard reads, is left out.                                       *)
(***************************************************************************)
EXTENDS Integers, Sequences

CONSTANTS ExeName,   \* file names with a version: .exe
          ZipName,   \* ... and .zip
          OtherName, \* .dmg, and installers without a version in their name
          Build,     \* contents of installers, known by their sha512
          Url,       \* installers kept elsewhere
          NoFile,
          Damaged,   \* a file that was opened and not, or not fully, written
          HandMade   \* a feed made by the build tools

ASSUME ReleasesAssumption ==
    /\ ExeName \cap ZipName = {}
    /\ (ExeName \cup ZipName) \cap OtherName = {}
    /\ {NoFile, Damaged} \cap (Build \cup Url) = {}
    /\ NoFile \notin {Damaged, HandMade}

Name == ExeName \cup ZipName \cup OtherName
Versioned == ExeName \cup ZipName
Feed == {"latest.yml", "latest-mac.yml"}

Path == {"installer", "redirect"} \X Name \cup {"feed"} \X Feed

VARIABLES disk, \* what is in updatesDir and its _redirects, by path
          cut   \* history: installers and redirections whose last request died

releasesVars == <<disk, cut>>

ReleasesInit ==
    /\ disk = [p \in Path |-> NoFile]
    /\ cut = {}
-----------------------------------------------------------------------------
\* A file and its new contents.
Write(dir, name, contents) == [path |-> <<dir, name>>, contents |-> contents]

\* The disk after the first n of these writes.
After(writes, n) ==
    [p \in Path |->
        IF \E i \in 1..n : writes[i].path = p
        THEN writes[CHOOSE i \in 1..n : writes[i].path = p].contents
        ELSE disk[p]]

WriteAll(writes) == disk' = After(writes, Len(writes))

\* The process dies after some of the writes, the last of them may be damaged.
WriteSome(writes) ==
    /\ \E n \in 0..Len(writes) - 1 :
           disk' \in {After(writes, n),
                      [After(writes, n) EXCEPT ![writes[n + 1].path] = Damaged]}
    /\ disk' # disk

FeedOf(n) == IF n \in ZipName THEN "latest-mac.yml" ELSE "latest.yml"

Described(n, what, by) == [name |-> n, what |-> what, by |-> by]

\* Mutation: the feed is written before the installer it names.
UploadWritesFeedFirst(n, b) ==
    (IF n \in Versioned THEN <<Write("feed", FeedOf(n), Described(n, b, "upload"))>> ELSE <<>>)
        \o <<Write("installer", n, b)>>

\* The installer, then the feed if the name has a version.
UploadWrites(n, b) ==
    <<Write("installer", n, b)>>
        \o (IF n \in Versioned
            THEN <<Write("feed", FeedOf(n), Described(n, b, "upload"))>> ELSE <<>>)

\* The redirection, then latest.yml, whatever the platform.
PublishWrites(n, u) ==
    <<Write("redirect", n, u), Write("feed", "latest.yml", Described(n, u, "publish"))>>

\* PUT /admin/upload of an installer
Upload(n, b) ==
    \/ WriteAll(UploadWrites(n, b)) /\ cut' = cut \ {<<"installer", n>>}
    \/ WriteSome(UploadWrites(n, b)) /\ cut' = cut \cup {<<"installer", n>>}

\* POST /admin/publish
Publish(n, u) ==
    \/ WriteAll(PublishWrites(n, u)) /\ cut' = cut \ {<<"redirect", n>>}
    \/ WriteSome(PublishWrites(n, u)) /\ cut' = cut \cup {<<"redirect", n>>}

FeedWrites(f) == <<Write("feed", f, HandMade)>>

\* PUT /admin/upload of a feed
UploadFeed(f) ==
    /\ WriteAll(FeedWrites(f)) \/ WriteSome(FeedWrites(f))
    /\ UNCHANGED cut

ReleasesNext ==
    \/ \E n \in Name, b \in Build : Upload(n, b)
    \/ \E n \in Name, u \in Url : Publish(n, u)
    \/ \E f \in Feed : UploadFeed(f)

ReleasesSpec == ReleasesInit /\ [][ReleasesNext]_releasesVars
-----------------------------------------------------------------------------
\* Mutation: a file on the hub goes before a redirection.
DownloadFileFirst(n) ==
    IF disk[<<"installer", n>>] # NoFile
    THEN disk[<<"installer", n>>] ELSE disk[<<"redirect", n>>]

\* handleDownload: what /updates/sman/n and /download/n lead to.
Download(n) ==
    IF disk[<<"redirect", n>>] # NoFile
    THEN disk[<<"redirect", n>>] ELSE disk[<<"installer", n>>]

\* What the hub itself has written into a feed.
Generated(f) == disk[<<"feed", f>>] \notin {NoFile, Damaged, HandMade}

\* Where the request that wrote the feed put what it describes.
Source(yml) == <<IF yml.by = "upload" THEN "installer" ELSE "redirect", yml.name>>

\* A publication of the name lies before the file that was uploaded.
Redirected(yml) == yml.by = "upload" /\ disk[<<"redirect", yml.name>>] # NoFile
-----------------------------------------------------------------------------
(* Properties *)

\* A client that follows a feed the hub has written never asks in vain: the
\* name leads to some file or redirection at every moment, over any crash in the
\* middle of an upload or a publication.  It may be one that such a crash left
\* damaged: a redirection that was opened and not written leads to an empty
\* address, until the name is published again.
FeedLeadsSomewhere ==
    \A f \in Feed : Generated(f) => Download(disk[<<"feed", f>>].name) # NoFile

\* ... and what it gets is what the feed describes, so that the check of the
\* sha512 succeeds, over repeated uploads, publications and both for one name,
\* with two exceptions: the name was being overwritten by a request that died,
\* or an earlier publication of the name redirects it.
FeedDescribesDownload ==
    \A f \in Feed :
        LET yml == disk[<<"feed", f>>]
        IN  Generated(f) /\ Source(yml) \notin cut /\ ~Redirected(yml) =>
                Download(yml.name) = yml.what
=============================================================================
