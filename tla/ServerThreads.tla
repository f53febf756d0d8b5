---------------------------- MODULE ServerThreads ----------------------------
(***************************************************************************)
(* The server with several proxygen worker threads (--threads, VerifyServer *)
(* main). VerifyRequestHandlerFactory keeps the VerificationService in a    *)
(* folly::ThreadLocalPtr: onServerStart runs on each worker thread and      *)
(* builds that thread's own service, with its own Archive and its own       *)
(* WorkspaceManager. The services share nothing in memory but the same     *)
(* directories on disk: ./archiveFiles, where an Archive writes the content *)
(* of FileID i as tmp_<i>, and ./workspaces.                                *)
(*                                                                         *)
(* The model composes the threads' upload path: VerificationService::      *)
(* addFile is Archive::checkin_file (under the archive mutex) and then     *)
(* Workspace::checkinFile, which copies the archived file into the         *)
(* workspace; another thread runs between the two. A content is a model    *)
(* value; the disk maps a FileID (the file tmp_<id>) to what it holds.     *)
(* Each thread's client works in one workspace of its thread.              *)
(***************************************************************************)
EXTENDS Naturals, Sequences, SequencesExt

CONSTANTS
  Threads,    \* the worker threads
  Contents,   \* file contents clients upload
  MaxFiles,   \* bound on each Archive's fileStore.store.size()
  Nothing,    \* no such file on disk
  None

ASSUME Nothing \notin Contents /\ None \notin Contents

VARIABLES
  up,       \* onServerStart has built the thread's VerificationService
  store,    \* each thread's fileStore.store: FileID i at position i+1
  disk,     \* ./archiveFiles: tmp_<id> -> content, or Nothing
  wsDir,    \* the thread's workspace directory exists
  copies,   \* files in the workspaces: thread, FileID, uploaded, copied
  pending   \* an addFile between checkin_file and checkinFile: id, content

vars == <<up, store, disk, wsDir, copies, pending>>

FileIds == 0..MaxFiles - 1

-----------------------------------------------------------------------------
(* Archive::Archive: create the directories and remove everything in      *)
(* ./archiveReports and ./archiveFiles ("ensure clean state on startup"). *)
ArchiveCtor == [id \in FileIds |-> Nothing]

(* WorkspaceManager::WorkspaceManager: create ./workspaces and remove     *)
(* every directory in it whose name starts with "workspace".              *)
WorkspaceManagerCtor == [th \in Threads |-> FALSE]

(* Archive::checkin_file, a new content: fileStore.insert appends it and  *)
(* the content is written to filePath / formatArchivedFileName(id).       *)
StoreContent(c, id) == [disk EXCEPT ![id] = c]

(* Archive::get_file_path: filePath / "tmp_<id>" when has_file(id).       *)
GetFilePath(th, id) == IF id < Len(store[th]) THEN disk[id] ELSE Nothing

-----------------------------------------------------------------------------
(* Before server.start(): no worker thread has run onServerStart.         *)
Init == /\ up = [th \in Threads |-> FALSE]
        /\ store = [th \in Threads |-> <<>>]
        /\ disk = [id \in FileIds |-> Nothing]
        /\ wsDir = [th \in Threads |-> FALSE]
        /\ copies = {}
        /\ pending = [th \in Threads |-> None]

(* onServerStart: ToolKitXMLFactory::create, then new VerificationService: *)
(* its Archive wipes ./archiveFiles, its WorkspaceManager removes every   *)
(* "workspace*" directory under ./workspaces (crash clean-up).             *)
OnServerStart(th) ==
  /\ ~up[th]
  /\ up' = [up EXCEPT ![th] = TRUE]
  /\ store' = [store EXCEPT ![th] = <<>>]
  /\ disk' = ArchiveCtor
  /\ wsDir' = WorkspaceManagerCtor
  /\ copies' = {}
  /\ UNCHANGED pending

(* createWorkspace: the Workspace constructor creates its directory.      *)
CreateWorkspace(th) ==
  /\ up[th] /\ ~wsDir[th] /\ pending[th] = None
  /\ wsDir' = [wsDir EXCEPT ![th] = TRUE]
  /\ UNCHANGED <<up, store, disk, copies, pending>>

(* addFile, first half: Archive::checkin_file(content). A known content   *)
(* returns its id and writes nothing; a new one is appended and written.  *)
AddFileCheckin(th, c) ==
  /\ up[th] /\ wsDir[th] /\ pending[th] = None
  /\ \/ \E id \in FileIds : /\ id < Len(store[th]) /\ store[th][id + 1] = c
                            /\ pending' = [pending EXCEPT ![th] = [id |-> id, want |-> c]]
                            /\ UNCHANGED <<store, disk>>
     \/ /\ c \notin Range(store[th])
        /\ Len(store[th]) < MaxFiles
        /\ store' = [store EXCEPT ![th] = Append(@, c)]
        /\ disk' = StoreContent(c, Len(store[th]))
        /\ pending' = [pending EXCEPT ![th] = [id |-> Len(store[th]), want |-> c]]
  /\ UNCHANGED <<up, wsDir, copies>>

(* addFile, second half: Workspace::checkinFile copies get_file_path(id)  *)
(* into the workspace. copy_file throws when the source or the directory  *)
(* is gone; handle_upload catches it and answers NOK.                     *)
AddFileCopy(th) ==
  /\ pending[th] # None
  /\ LET id == pending[th].id
         src == GetFilePath(th, id)
     IN copies' = IF src = Nothing \/ ~wsDir[th] THEN copies
                  ELSE {x \in copies : x.th # th \/ x.id # id}
                         \cup {[th |-> th, id |-> id, want |-> pending[th].want,
                                got |-> src]}
  /\ pending' = [pending EXCEPT ![th] = None]
  /\ UNCHANGED <<up, store, disk, wsDir>>

Next == \E th \in Threads :
          \/ OnServerStart(th)
          \/ CreateWorkspace(th)
          \/ \E c \in Contents : AddFileCheckin(th, c)
          \/ AddFileCopy(th)

Spec == Init /\ [][Next]_vars

-----------------------------------------------------------------------------
(* spec.md 3 and 4.1: an upload stores the content and the workspace gets *)
(* that content under the file's name. Every file addFile copied into a   *)
(* workspace holds what its client uploaded, whatever the other worker    *)
(* threads upload at the same time.                                       *)
WorkspaceGetsUpload == \A x \in copies : x.got = x.want

=============================================================================
