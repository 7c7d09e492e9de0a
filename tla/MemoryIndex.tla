---------------------------- MODULE MemoryIndex ----------------------------
(***************************************************************************)
(* The search over the company's memory: Markdown files, and beside them   *)
(* one SQLite file that indexes them.  Every search lists the files and    *)
(* compares them with the index; if they differ it builds a new one under  *)
(* a temporary name and renames it over the old.  Searches of the command  *)
(* line, the server's requests and the agents do so side by side, without  *)
(* a lock, while the files are written.                                    *)
(*                                                                         *)
(* Every document matches the query as long as it can be read.  A document *)
(* is the number of its writes, its removal being one of them; a row of an *)
(* index is the stamp its file was listed with - time and size - and the   *)
(* document as it was read.                                                *)
(***************************************************************************)
EXTENDS Naturals

CONSTANTS
  Doc,
  MaxWrites,  \* document -> bound on its writes
  Search,     \* the searches, of which each is made once
  Kinds,      \* search -> what it may be: a search, a browse, a rebuild
  NoFile,
  HasSqlite   \* node:sqlite may be there, may be missing

ASSUME IndexAssumption ==
  /\ MaxWrites \in [Doc -> Nat]
  /\ Kinds \in [Search -> SUBSET {"search", "browse", "rebuild"}]
  /\ NoFile \notin Search
  /\ HasSqlite \subseteq BOOLEAN

VARIABLES
  disk,     \* document -> its writes, whether it is there, its stamp
  path,     \* the search that built the file at the index path, or NoFile
  temp,     \* temporary name -> the search that built the file there, or NoFile
  content,  \* search -> the rows of the file it built
  find,     \* search -> its local state
  floor,    \* history: search -> the documents as they were when the oldest
            \* search that was under way at its beginning began
  twins,    \* history: the documents rewritten within a stamp
  gone,     \* history: the documents that were ever removed
  clashed   \* history: two searches built under one temporary name

indexVars == <<disk, path, temp, content, find, floor, twins, gone, clashed>>
history == <<twins, gone, clashed>>

Writes == UNION {0 .. MaxWrites[d] : d \in Doc}
Nothing == 0

(* What a listing has of a document: a stamp, or 0; what a row has: a      *)
(* stamp, or 0, and the write that was read, or 0 when nothing was.        *)
Listing == [Doc -> Writes]
Rows == [Doc -> [stamp : Writes, body : Writes]]
NoRows == [d \in Doc |-> [stamp |-> 0, body |-> Nothing]]
Empty == [d \in Doc |-> 0]

Working == {"check", "create", "fill", "query", "scan", "browse"}

(* A temporary name is that of the first search that took it.              *)
NewFind(s) == [pc |-> "idle", for |-> "search", name |-> s, files |-> Empty,
               left |-> {}, hits |-> Empty]

IndexTypeOK ==
  /\ disk \in [Doc -> [n : Writes, there : BOOLEAN, stamp : Writes]]
  /\ path \in Search \cup {NoFile}
  /\ temp \in [Search -> Search \cup {NoFile}]
  /\ content \in [Search -> Rows]
  /\ find \in [Search -> [pc : {"idle", "done"} \cup Working,
                          for : {"search", "browse", "rebuild"}, name : Search,
                          files : Listing, left : SUBSET Doc, hits : Listing]]
  /\ floor \in [Search -> Listing]
  /\ twins \subseteq Doc /\ gone \subseteq Doc /\ clashed \in BOOLEAN

IndexInit ==
  /\ disk = [d \in Doc |-> [n |-> 0, there |-> FALSE, stamp |-> 0]]
  /\ path = NoFile
  /\ temp = [s \in Search |-> NoFile]
  /\ content = [s \in Search |-> NoRows]
  /\ find = [s \in Search |-> NewFind(s)]
  /\ floor = [s \in Search |-> Empty]
  /\ twins = {} /\ gone = {} /\ clashed = FALSE

Busy == {s \in Search : find[s].pc \in Working}
Goto(s, pc) == find' = [find EXCEPT ![s].pc = pc]

-----------------------------------------------------------------------------
(* A document is written; its stamp tells, unless the write falls into the *)
(* same millisecond and leaves the size as it was.                         *)
Write(d) ==
  LET n == disk[d].n + 1 IN
  /\ n <= MaxWrites[d]
  /\ \/ /\ disk' = [disk EXCEPT ![d] = [n |-> n, there |-> TRUE, stamp |-> n]]
        /\ UNCHANGED twins
     \/ /\ disk[d].there
        /\ disk' = [disk EXCEPT ![d].n = n]
        /\ twins' = twins \cup {d}
  /\ UNCHANGED <<path, temp, content, find, floor, gone, clashed>>

Remove(d) ==
  LET n == disk[d].n + 1 IN
  /\ disk[d].there /\ n <= MaxWrites[d]
  /\ disk' = [disk EXCEPT ![d] = [n |-> n, there |-> FALSE, stamp |-> 0]]
  /\ gone' = gone \cup {d}
  /\ UNCHANGED <<path, temp, content, find, floor, twins, clashed>>

-----------------------------------------------------------------------------
Present == [d \in Doc |-> IF disk[d].there THEN disk[d].stamp ELSE 0]
Readable(d) == IF disk[d].there THEN disk[d].n ELSE Nothing

(* search(), browse() or rebuild() begins with a listing of the files;     *)
(* without SQLite there is no index.                                       *)
Oldest(writes) == CHOOSE o \in writes : \A w \in writes : o <= w

Begin(s) ==
  /\ find[s].pc = "idle"
  /\ \E for \in Kinds[s], sqlite \in HasSqlite :
       find' = [find EXCEPT ![s].for = for, ![s].files = Present, ![s].left = Doc,
         ![s].pc = CASE sqlite /\ for = "rebuild" -> "create"
                     [] sqlite /\ for # "rebuild" -> "check"
                     [] ~sqlite /\ for = "rebuild" -> "done"
                     [] ~sqlite /\ for # "rebuild" -> "scan"]
  /\ floor' = [floor EXCEPT ![s] =
       [d \in Doc |-> Oldest({disk[d].n} \cup {floor[e][d] : e \in Busy})]]
  /\ UNCHANGED <<disk, path, temp, content, history>>

(* Without a hit, as without an index, search() scans the files; browse()  *)
(* reads what was hit.                                                     *)
HitsFound(s, hits) ==
  find' = [find EXCEPT ![s].hits = hits,
    ![s].left = IF hits = Empty THEN Doc ELSE {d \in Doc : hits[d] # Nothing},
    ![s].pc = CASE hits = Empty -> "scan"
                [] hits # Empty /\ find[s].for = "browse" -> "browse"
                [] OTHER -> "done"]

Thrown(s) ==
  find' = [find EXCEPT ![s].left = Doc,
                       ![s].pc = IF find[s].for = "rebuild" THEN "done" ELSE "scan"]

(* Seeded fault: an index with a row for every file and no other is taken  *)
(* for fresh.                                                              *)
FreshByPath(rows, files) == \A d \in Doc : (rows[d].stamp = 0) = (files[d] = 0)

(* isStale(): every file has its row, with the stamp it was listed with,   *)
(* and there are no other rows.                                            *)
Fresh(rows, files) == \A d \in Doc : rows[d].stamp = files[d]

Matching(rows) == [d \in Doc |-> rows[d].body]

(* openFreshDatabase(): the index at the path, if it is fresh.             *)
Check(s) ==
  /\ find[s].pc = "check"
  /\ IF path # NoFile /\ Fresh(content[path], find[s].files)
     THEN HitsFound(s, Matching(content[path]))
     ELSE Goto(s, "create")
  /\ UNCHANGED <<disk, path, temp, content, floor, history>>

(* writeFreshDatabase(): a new file under <index>.<pid>.<ms>.tmp.          *)
Create(s) ==
  /\ find[s].pc = "create"
  /\ content' = [content EXCEPT ![s] = NoRows]
  /\ temp' = [temp EXCEPT ![s] = s]
  /\ find' = [find EXCEPT ![s].pc = "fill", ![s].left = {d \in Doc : find[s].files[d] # 0}]
  /\ UNCHANGED <<disk, path, floor, history>>

(* Another search of the process builds in the same millisecond: its file  *)
(* is unlinked, and it writes on in it; or its tables are in the way.      *)
CreateClashes(s, e) ==
  /\ find[s].pc = "create" /\ find[e].pc = "fill"
  /\ clashed' = TRUE
  /\ \/ /\ content' = [content EXCEPT ![s] = NoRows]
        /\ temp' = [temp EXCEPT ![find[e].name] = s]
        /\ find' = [find EXCEPT ![s].pc = "fill", ![s].name = find[e].name,
                                ![s].left = {d \in Doc : find[s].files[d] # 0}]
     \/ Thrown(s) /\ UNCHANGED <<content, temp>>
  /\ UNCHANGED <<disk, path, floor, twins, gone>>

(* One row after the other: the file as it reads now, under the stamp it   *)
(* was listed with; an unreadable one is empty.                            *)
Fill(s) ==
  /\ find[s].pc = "fill"
  /\ \E d \in find[s].left :
       /\ content' = [content EXCEPT ![s][d] = [stamp |-> find[s].files[d], body |-> Readable(d)]]
       /\ find' = [find EXCEPT ![s].left = @ \ {d}]
  /\ UNCHANGED <<disk, path, temp, floor, history>>

(* The rename over the index path.                                         *)
Install(s) ==
  LET name == find[s].name IN
  /\ find[s].pc = "fill" /\ find[s].left = {} /\ temp[name] # NoFile
  /\ path' = temp[name]
  /\ temp' = [temp EXCEPT ![name] = NoFile]
  /\ Goto(s, IF find[s].for = "rebuild" THEN "done" ELSE "query")
  /\ UNCHANGED <<disk, content, floor, history>>

(* The one who shared the name finds nothing to rename.                    *)
InstallFails(s) ==
  /\ find[s].pc = "fill" /\ find[s].left = {} /\ temp[find[s].name] = NoFile
  /\ Thrown(s)
  /\ UNCHANGED <<disk, path, temp, content, floor, history>>

(* The path is opened again, whoever's file is there by now.               *)
Query(s) ==
  /\ find[s].pc = "query"
  /\ HitsFound(s, Matching(content[path]))
  /\ UNCHANGED <<disk, path, temp, content, floor, history>>

(* searchFiles() and browse(): file by file, as far as it can be read.     *)
ReadFile(s) ==
  /\ find[s].pc \in {"scan", "browse"}
  /\ \E d \in find[s].left :
       find' = [find EXCEPT ![s].left = @ \ {d}, ![s].hits[d] = Readable(d)]
  /\ UNCHANGED <<disk, path, temp, content, floor, history>>

EndRead(s) ==
  /\ find[s].pc \in {"scan", "browse"} /\ find[s].left = {}
  /\ IF find[s].pc = "scan" /\ find[s].for = "browse" /\ find[s].hits # Empty
     THEN HitsFound(s, find[s].hits) ELSE Goto(s, "done")
  /\ UNCHANGED <<disk, path, temp, content, floor, history>>

-----------------------------------------------------------------------------
SearchStep(s) ==
  \/ Begin(s) \/ Check(s) \/ Create(s) \/ Fill(s) \/ Install(s) \/ InstallFails(s)
  \/ Query(s) \/ ReadFile(s) \/ EndRead(s)

IndexNext ==
  \/ \E d \in Doc : Write(d) \/ Remove(d)
  \/ \E s \in Search : SearchStep(s) \/ \E e \in Search : CreateClashes(s, e)

-----------------------------------------------------------------------------
(* What a search reports of a document is not older than the oldest of the *)
(* searches that were under way when it began: an index built by one of    *)
(* them may be renamed over the fresh one at the last moment.  Nor does it *)
(* miss a document that was there then and was never removed.  The         *)
(* exceptions are a rewrite that the stamp does not show, and two builders *)
(* that share a temporary name.                                            *)
NothingStale ==
  \A s \in Search, d \in Doc \ twins :
    find[s].pc = "done" /\ find[s].hits[d] # Nothing => find[s].hits[d] >= floor[s][d]

Kept(s, d) == floor[s][d] # 0 /\ d \notin gone

NothingMissed ==
  \A s \in Search, d \in Doc \ twins :
    find[s].pc = "done" /\ find[s].for # "rebuild" /\ Kept(s, d) /\ ~clashed =>
      find[s].hits[d] # Nothing

SearchTellsTheTruth == NothingStale /\ NothingMissed
=============================================================================
