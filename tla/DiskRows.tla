------------------------------- MODULE DiskRows -------------------------------
(***************************************************************************)
(* Things that are half a row and half a directory: uploaded files         *)
(* (components/storage), bare repositories (components/git) and the        *)
(* mirrors of GitHub repositories with their links (components/github).    *)
(* No transaction spans the database and the disk, requests overlap, and    *)
(* BigBase may stop between any two steps; nothing sweeps at startup.       *)
(***************************************************************************)
EXTENDS Naturals, FiniteSets

CONSTANTS
    Ids,            \* generated identifiers, each used by one upload or repository
    RepoNames,      \* names of repositories; git_repos.name is unique
    DiskCalls,      \* requests that run at the same time
    MaxDiskCalls    \* bound: requests made

ASSUME DiskBounds == MaxDiskCalls \in Nat

VARIABLES
    fileRow,        \* storage_files: the ids
    repoRow,        \* git_repos: the id that holds each name; "none" without a row
    link,           \* github_repo_links: git_repo_id by the repository's name
    disk,           \* what each id has on disk: nothing, a part, or all of it
    dotted,         \* the ids whose stored path contains "..", such as <id>/a..b.txt
    diskCall,       \* where each request is, its id and its name
    diskCalls,      \* bound: requests so far
    gone,           \* auxiliary: ids whose deletion was begun
    emptied,        \* auxiliary: ids whose INSERT wrote the row and reported an error
    served          \* auxiliary: no download that found its row missed the file without a reason

diskVars == <<fileRow, repoRow, link, disk, dotted, diskCall, diskCalls, gone, emptied, served>>

NoDiskCall == [at |-> "idle", id |-> "none", name |-> "none"]

DiskInit ==
    /\ fileRow = {}
    /\ repoRow = [n \in RepoNames |-> "none"]
    /\ link = [n \in RepoNames |-> "none"]
    /\ disk = [i \in Ids |-> "nothing"]
    /\ diskCall = [c \in DiskCalls |-> NoDiskCall]
    /\ diskCalls = 0
    /\ gone = {} /\ dotted = {} /\ emptied = {}
    /\ served = TRUE

RepoIds == {repoRow[n] : n \in RepoNames} \ {"none"}
\* kernel.GenerateID gives an id nothing has had before.
FreshId(i) ==
    /\ disk[i] = "nothing" /\ i \notin gone \cup fileRow \cup RepoIds
    /\ \A c \in DiskCalls : diskCall[c].id # i

DiskGoes(c, pc, i, n) ==
    diskCall' = [diskCall EXCEPT ![c] = IF pc = "idle" THEN NoDiskCall
                                        ELSE [at |-> pc, id |-> i, name |-> n]]
DiskBegins(c, pc, i, n) ==
    /\ diskCall[c].at = "idle" /\ diskCalls < MaxDiskCalls
    /\ diskCalls' = diskCalls + 1 /\ DiskGoes(c, pc, i, n)
DiskMoves(c, pc) == DiskGoes(c, pc, diskCall[c].id, diskCall[c].name)
OnDisk(i, what) == disk' = [disk EXCEPT ![i] = what]

----------------------------------------------------------------------------
(* Uploaded files.                                                          *)

\* handleUpload: writeFile makes the directory and writes the file, under the name it was
\* sent with,
HandleUpload(c, i) ==
    /\ FreshId(i) /\ DiskBegins(c, "write", i, "none")
    /\ OnDisk(i, "part")
    /\ dotted' \in {dotted, dotted \cup {i}}
    /\ UNCHANGED <<fileRow, repoRow, link, gone, emptied, served>>

\* and removes the directory again when the write fails,
WriteFile(c) ==
    /\ diskCall[c].at = "write"
    /\ \/ OnDisk(diskCall[c].id, "whole") /\ DiskMoves(c, "meta")
       \/ OnDisk(diskCall[c].id, "nothing") /\ DiskMoves(c, "idle")
    /\ UNCHANGED <<fileRow, repoRow, link, diskCalls, dotted, gone, emptied, served>>

\* and insertFileMeta makes it known; an INSERT that reports an error takes the directory
\* away, also one that has written the row when the client leaves.
InsertFileMeta(c) ==
    LET i == diskCall[c].id
    IN  /\ diskCall[c].at = "meta" /\ DiskMoves(c, "idle")
        /\ \/ fileRow' = fileRow \cup {i} /\ UNCHANGED <<disk, emptied>>
           \/ OnDisk(i, "nothing") /\ UNCHANGED <<fileRow, emptied>>
           \/ fileRow' = fileRow \cup {i} /\ OnDisk(i, "nothing") /\ emptied' = emptied \cup {i}
        /\ UNCHANGED <<repoRow, link, diskCalls, dotted, gone, served>>

\* handleFileDownload and handleThumbnail: the row, then the file.
FindFile(c, i) ==
    /\ i \in fileRow /\ DiskBegins(c, "open", i, "none")
    /\ UNCHANGED <<fileRow, repoRow, link, disk, dotted, gone, emptied, served>>

\* A stored path that contains ".." is refused before anybody looks for the file.
ServeFile(c) ==
    LET i == diskCall[c].id
    IN  /\ diskCall[c].at = "open" /\ DiskMoves(c, "idle")
        /\ served' = (served /\ (i \in dotted \cup gone \cup emptied \/ disk[i] = "whole"))
        /\ UNCHANGED <<fileRow, repoRow, link, disk, dotted, diskCalls, gone, emptied>>

\* handleThumbnail of what is not an image ends with the row.
RefuseThumbnail(c) ==
    /\ diskCall[c].at = "open" /\ DiskMoves(c, "idle")
    /\ UNCHANGED <<fileRow, repoRow, link, disk, diskCalls, dotted, gone, emptied, served>>

\* A deletion that empties the disk before the table.
HandleFileDeleteFirst(c, i) ==
    /\ i \in fileRow /\ DiskBegins(c, "remove", i, "none")
    /\ OnDisk(i, "nothing") /\ gone' = gone \cup {i}
    /\ UNCHANGED <<fileRow, repoRow, link, dotted, emptied, served>>

\* handleFileDelete: the row first, then the file, whose removal may fail unnoticed and is
\* not tried for a stored path that contains "..".
HandleFileDelete(c, i) ==
    /\ i \in fileRow /\ DiskBegins(c, "remove", i, "none")
    /\ fileRow' = fileRow \ {i} /\ gone' = gone \cup {i}
    /\ UNCHANGED <<repoRow, link, disk, dotted, emptied, served>>

RemoveFile(c) ==
    /\ diskCall[c].at = "remove" /\ DiskMoves(c, "idle")
    /\ \/ diskCall[c].id \notin dotted /\ OnDisk(diskCall[c].id, "nothing")
       \/ UNCHANGED disk
    /\ UNCHANGED <<fileRow, repoRow, link, diskCalls, dotted, gone, emptied, served>>

----------------------------------------------------------------------------
(* Repositories, created here or mirrored from GitHub.                      *)

\* CreateRepo: the directory, PlainInit, then the row; name is UNIQUE.
CreateRepo(c, i, n) ==
    /\ FreshId(i) /\ DiskBegins(c, "init", i, n)
    /\ OnDisk(i, "part")
    /\ UNCHANGED <<fileRow, repoRow, link, dotted, gone, emptied, served>>

PlainInit(c) ==
    /\ diskCall[c].at = "init"
    /\ \/ OnDisk(diskCall[c].id, "whole") /\ DiskMoves(c, "repo")
       \/ OnDisk(diskCall[c].id, "nothing") /\ DiskMoves(c, "idle")
    /\ UNCHANGED <<fileRow, repoRow, link, diskCalls, dotted, gone, emptied, served>>

\* An INSERT that reports an error takes the directory away, here too also when it has
\* written the row.
InsertRepo(c) ==
    LET i == diskCall[c].id
        n == diskCall[c].name
        written == repoRow[n] = "none" /\ repoRow' = [repoRow EXCEPT ![n] = i]
    IN  /\ diskCall[c].at = "repo" /\ DiskMoves(c, "idle")
        /\ \/ written /\ UNCHANGED <<disk, emptied>>
           \/ OnDisk(i, "nothing") /\ UNCHANGED <<repoRow, emptied>>
           \/ written /\ OnDisk(i, "nothing") /\ emptied' = emptied \cup {i}
        /\ UNCHANGED <<fileRow, link, diskCalls, dotted, gone, served>>

\* deleteRepo: the row, then the directory; the links of the repository stay.
DeleteRepo(c, n) ==
    /\ repoRow[n] # "none" /\ DiskBegins(c, "remove", repoRow[n], n)
    /\ gone' = gone \cup {repoRow[n]}
    /\ repoRow' = [repoRow EXCEPT ![n] = "none"]
    /\ UNCHANGED <<fileRow, link, disk, dotted, emptied, served>>

\* handleConnect: mirrorRepository keeps the repository of a link it finds, fetching it if
\* it can, and otherwise, also when the look-up fails, clones under a new id,
HandleConnect(c, n) ==
    /\ \/ link[n] # "none" /\ DiskBegins(c, "link", link[n], n) /\ UNCHANGED disk
       \/ \E i \in Ids : /\ FreshId(i)
                         /\ DiskBegins(c, "clone", i, n) /\ OnDisk(i, "part")
    /\ UNCHANGED <<fileRow, repoRow, link, dotted, gone, emptied, served>>

CloneBare(c) ==
    /\ diskCall[c].at = "clone"
    /\ \/ OnDisk(diskCall[c].id, "whole") /\ DiskMoves(c, "upsert")
       \/ OnDisk(diskCall[c].id, "nothing") /\ DiskMoves(c, "idle")
    /\ UNCHANGED <<fileRow, repoRow, link, diskCalls, dotted, gone, emptied, served>>

\* inserts the row, or keeps the row that has the name, in both cases going on with its
\* own id; an error, also of an INSERT that took effect, ends it and leaves the clone,
UpsertRepo(c) ==
    LET n == diskCall[c].name
    IN  /\ diskCall[c].at = "upsert"
        /\ \/ /\ repoRow[n] = "none" /\ repoRow' = [repoRow EXCEPT ![n] = diskCall[c].id]
              /\ DiskMoves(c, "link")
           \/ repoRow[n] # "none" /\ UNCHANGED repoRow /\ DiskMoves(c, "link")
           \/ /\ \/ repoRow[n] = "none" /\ repoRow' = [repoRow EXCEPT ![n] = diskCall[c].id]
                 \/ UNCHANGED repoRow
              /\ DiskMoves(c, "idle")
        /\ UNCHANGED <<fileRow, link, disk, diskCalls, dotted, gone, emptied, served>>

\* and links the name to it; a failed INSERT of the link is not noticed.
LinkRepo(c) ==
    /\ diskCall[c].at = "link" /\ DiskMoves(c, "idle")
    /\ \/ link' = [link EXCEPT ![diskCall[c].name] = diskCall[c].id]
       \/ UNCHANGED link
    /\ UNCHANGED <<fileRow, repoRow, disk, diskCalls, dotted, gone, emptied, served>>

\* fetchMirror changes the objects of a repository whose directory is there.
FetchMirror(i) == disk[i] # "nothing"

\* handleWebhook of a push to the production branch: fetchMirror of the linked one.
HandlePush(c, n) ==
    /\ link[n] # "none" /\ FetchMirror(link[n])
    /\ DiskBegins(c, "idle", "none", "none")
    /\ UNCHANGED <<fileRow, repoRow, link, disk, dotted, gone, emptied, served>>

\* BigBase stops.
RestartDisk ==
    /\ \E c \in DiskCalls : diskCall[c].at # "idle"
    /\ diskCall' = [c \in DiskCalls |-> NoDiskCall]
    /\ UNCHANGED <<fileRow, repoRow, link, disk, diskCalls, dotted, gone, emptied, served>>

DiskNext ==
    \/ \E c \in DiskCalls :
         \/ \E i \in Ids : HandleUpload(c, i) \/ FindFile(c, i) \/ HandleFileDelete(c, i)
         \/ WriteFile(c) \/ InsertFileMeta(c) \/ ServeFile(c) \/ RefuseThumbnail(c) \/ RemoveFile(c)
         \/ \E i \in Ids, n \in RepoNames : CreateRepo(c, i, n)
         \/ \E n \in RepoNames : DeleteRepo(c, n) \/ HandleConnect(c, n) \/ HandlePush(c, n)
         \/ PlainInit(c) \/ InsertRepo(c) \/ CloneBare(c) \/ UpsertRepo(c) \/ LinkRepo(c)
    \/ RestartDisk

DiskSpec == DiskInit /\ [][DiskNext]_diskVars

----------------------------------------------------------------------------
DiskTypeOK ==
    /\ fileRow \subseteq Ids
    /\ repoRow \in [RepoNames -> Ids \cup {"none"}]
    /\ link \in [RepoNames -> Ids \cup {"none"}]
    /\ disk \in [Ids -> {"nothing", "part", "whole"}]
    /\ diskCall \in [DiskCalls -> [at : {"idle", "write", "meta", "open", "remove", "init", "repo",
                                         "clone", "upsert", "link"},
                                   id : Ids \cup {"none"}, name : RepoNames \cup {"none"}]]
    /\ diskCalls \in 0 .. MaxDiskCalls
    /\ dotted \subseteq Ids /\ gone \subseteq Ids /\ emptied \subseteq Ids /\ served \in BOOLEAN

\* What the tables name is on disk in full, through failed writes, overlapping requests
\* and stops at any step: every file row and every repository row has its content, unless
\* its INSERT took effect and reported an error, when it has none.  A download that found
\* its row serves the file, unless the row is of that kind, the file is being deleted, or
\* its stored path contains "..", which an upload accepts and a download refuses.  A link
\* names a repository that was cloned, unless that one was deleted.
RowsHaveFiles ==
    /\ \A i \in fileRow \cup RepoIds : disk[i] = IF i \in emptied THEN "nothing" ELSE "whole"
    /\ \A n \in RepoNames : link[n] # "none" => disk[link[n]] = "whole" \/ link[n] \in gone
    /\ served

=============================================================================
