------------------------------- MODULE Archive -------------------------------
(***************************************************************************)
(* Archive::Archive of Archive.h/.cpp: the deduplicating stores of file    *)
(* contents and of reports, both bbb::UHash (bbb.h), and the part of       *)
(* VerificationService::verify that checks a report in and decides whether *)
(* to start a Run for it.                                                  *)
(*                                                                         *)
(* A UHash is a vector `store` (an id is a position, 0-based) and an index *)
(* from hash to the ids stored under it. insert(v) looks in the bucket of  *)
(* v.hash() for an id whose element == v and returns {false, id}; else it  *)
(* appends v and returns {true, new id}. The bucket is an unordered_set,   *)
(* so when several ids match, any of them may be found first.              *)
(*                                                                         *)
(* Hashes are uint64_t. std::hash<size_t> is the identity (libstdc++), so  *)
(* an index i and a FileID hash to themselves. std::hash of a string is    *)
(* the constant StrHash, chosen with pairwise disjoint bits above the      *)
(* small numbers, so that two hashes collide only through the way they are *)
(* combined (a perfect hash): every collision TLC finds is structural.     *)
(* A report's output names are random and only their number is kept.      *)
(***************************************************************************)
EXTENDS Naturals, Sequences, SequencesExt, Bitwise

CONSTANTS
  Tools,       \* tools (Tool::hash() is StrHash of the tool)
  Params,      \* parameter strings
  Contents,    \* file contents clients upload
  Plans,       \* automation plan names
  StrHash,     \* std::hash<String> on Tools, Params, Contents and Plans
  MaxParams,   \* longest parameter list of a request
  MaxInputs,   \* longest input list of a request
  MaxOutputs,  \* most 'o' characters in a request's call schema
  MaxReports,  \* bound on reportStore.store.size()
  None

VARIABLES
  files,        \* fileStore.store: the contents, FileID i at position i+1
  fileIndex,    \* fileStore.index as a set of <<hash, id>>
  reports,      \* reportStore.store: report records
  reportIndex,  \* reportStore.index as a set of <<hash, id>>
  answer,       \* the request of the last verify() and the pair it got
  started       \* <<report id, 'o' count of the schema>> of each run started

vars == <<files, fileIndex, reports, reportIndex, answer, started>>

Requests ==
  [tool : Tools, params : BoundedSeq(Params, MaxParams),
   inputs : BoundedSeq(0..Len(files) - 1, MaxInputs), plan : Plans,
   outs : 0..MaxOutputs]

-----------------------------------------------------------------------------
(* m_hashable_string::hash() and operator== for file contents.            *)
FileHash(c) == StrHash[c]

Indices(s) == [i \in 1..Len(s) |-> i - 1]

(* h[i] ^ hash(i) folded with ^= over the element hashes h, from `base`.  *)
MixIn(base, h) ==
  FoldLeft(LAMBDA acc, i : acc ^^ (h[i + 1] ^^ i), base, Indices(h))

(* Report::update_hash: tool.hash(), then ^= hash(inputFiles[i]) ^ hash(i) *)
(* for each input, ^= hash(parameters[i]) ^ hash(i) for each parameter,    *)
(* and ^= hash(automationPlanName).                                        *)
ReportHash(r) ==
  LET inputs == MixIn(StrHash[r.tool], r.inputs)
  IN MixIn(inputs, [i \in DOMAIN r.params |-> StrHash[r.params[i]]])
       ^^ StrHash[r.plan]

(* Mutant: operator== also compares the runtime state (valid).          *)
ReportEqWithState(a, b) ==
  IF a.inputs = <<>> THEN ReportHash(a) = ReportHash(b) /\ a.valid = b.valid
  ELSE a.inputs = b.inputs /\ a.params = b.params /\ a.tool = b.tool
       /\ a.plan = b.plan /\ a.valid = b.valid

(* Mutant: operator== forgets to compare the parameter lists.             *)
ReportEqNoParams(a, b) ==
  IF a.inputs = <<>> THEN ReportHash(a) = ReportHash(b)
  ELSE a.inputs = b.inputs /\ a.tool = b.tool /\ a.plan = b.plan

(* Report::operator==: with no input files only the ids (hashes) are      *)
(* compared; otherwise inputs, parameters, tool hash and plan name.       *)
ReportEq(a, b) ==
  IF a.inputs = <<>> THEN ReportHash(a) = ReportHash(b)
  ELSE /\ a.inputs = b.inputs
       /\ a.params = b.params
       /\ StrHash[a.tool] = StrHash[b.tool]
       /\ a.plan = b.plan

(* index[h]: the ids UHash::insert looks at for an element of hash h.    *)
Bucket(index, h) == {e[2] : e \in {x \in index : x[1] = h}}

-----------------------------------------------------------------------------
Init == /\ files = <<>>
        /\ fileIndex = {}
        /\ reports = <<>>
        /\ reportIndex = {}
        /\ answer = None
        /\ started = {}

(* Archive::checkin_file(content): fileStore.insert, and a new content is *)
(* written to tmp_<id> (the disk is left out). A known content changes   *)
(* nothing and is a stuttering step.                                      *)
CheckinFile(c) ==
  LET h  == FileHash(c)
      m  == {id \in Bucket(fileIndex, h) : files[id + 1] = c}
  IN /\ m = {}
     /\ files' = Append(files, c)
     /\ fileIndex' = fileIndex \cup {<<h, Len(files)>>}
     /\ UNCHANGED <<reports, reportIndex, answer, started>>

(* verify(): Archive::checkin_report constructs the Report (output names  *)
(* from std::count(schema, 'o')), reportStore.insert finds an equal one   *)
(* or appends it; then start_new_run if the report is new or not valid.   *)
Verify(rq) ==
  LET r  == [tool |-> rq.tool, params |-> rq.params, inputs |-> rq.inputs,
             plan |-> rq.plan, outs |-> rq.outs, valid |-> FALSE]
      h  == ReportHash(r)
      m  == {id \in Bucket(reportIndex, h) : ReportEq(r, reports[id + 1])}
      Start(id, isNew) ==
        /\ answer' = [req |-> rq, new |-> isNew, id |-> id]
        /\ started' = IF isNew \/ ~reports'[id + 1].valid
                        THEN started \cup {<<id, rq.outs>>} ELSE started
  IN \/ \E id \in m : /\ UNCHANGED <<reports, reportIndex>>
                      /\ Start(id, FALSE)
     \/ /\ m = {}
        /\ Len(reports) < MaxReports
        /\ reports' = Append(reports, r)
        /\ reportIndex' = reportIndex \cup {<<h, Len(reports)>>}
        /\ Start(Len(reports), TRUE)

(* Run::finalise_report of a started run: report->validate().             *)
Finalise(id) ==
  /\ \E s \in started : s[1] = id
  /\ ~reports[id + 1].valid
  /\ reports' = [reports EXCEPT ![id + 1].valid = TRUE]
  /\ UNCHANGED <<files, fileIndex, reportIndex, answer, started>>

Next ==
  \/ \E c \in Contents : CheckinFile(c)
  \/ \E rq \in Requests : Verify(rq) /\ UNCHANGED <<files, fileIndex>>
  \/ \E id \in 0..Len(reports) - 1 : Finalise(id)

Spec == Init /\ [][Next]_vars

-----------------------------------------------------------------------------
(* A report's identity as spec.md defines fingerprint equality: tool,     *)
(* parameter sequence, input sequence and plan name.                      *)
Identity(r) == <<r.tool, r.params, r.inputs, r.plan>>

(* Neither store holds the same thing twice: no two FileIDs for one       *)
(* content, no two ReportIDs for one request identity. A second report    *)
(* for a request would run the tool again and split its monitoring.      *)
StoresDeduplicated ==
  /\ \A i, j \in DOMAIN files : i # j => files[i] # files[j]
  /\ \A i, j \in DOMAIN reports : i # j => Identity(reports[i]) # Identity(reports[j])

(* A verify request with input files is answered with a report of exactly *)
(* that request (checkin_report through UHash::insert and operator==),   *)
(* even when its hash collides with another report's.                    *)
DedupExactWithInputs ==
  answer # None /\ answer.req.inputs # <<>> =>
    Identity(reports[answer.id + 1]) = Identity(answer.req)

(* spec.md 3 and 4.1: reports collide iff tool, inputs, parameter sequence *)
(* and plan are identical, and the fingerprint is order-sensitive. Every *)
(* verify request is answered with a report of exactly that request.     *)
DedupExact ==
  answer # None => Identity(reports[answer.id + 1]) = Identity(answer.req)

=============================================================================
