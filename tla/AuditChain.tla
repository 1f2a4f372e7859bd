----------------------------- MODULE AuditChain -----------------------------
(***************************************************************************)
(* The tamper-evident chain over the exported files of                     *)
(* app/services/audit_integrity.py: a JSON-lines file of records, a head   *)
(* file that digests it, and a host-local lock around every use of both.   *)
(*                                                                         *)
(* A hash stands for the data it is taken from.  So a record carries the   *)
(* content of its file instead of the file's hash, and the head, whose     *)
(* last_record_hash covers the whole sequence, is the sequence it digests. *)
(* The empty sequence is the missing head file and the missing chain file. *)
(***************************************************************************)
EXTENDS Naturals, Sequences

CONSTANTS
    Callers,    \* the processes that use the chain
    Paths,      \* the formal export paths, account/track/YYYY-MM-DD.json
    Contents,   \* what a file may hold
    Absent      \* the content of a file that does not exist

ASSUME AbsentAssumption == Absent \notin Contents

VARIABLES
    files,      \* the exported file at each path
    chain,      \* the records of audit-chain-v1.jsonl, in file order
    torn,       \* the last line of the chain file was written in part
    head,       \* the records that audit-chain-head.json digests
    call        \* record_audit_export under way: where, and its `records`

chainVars == <<files, chain, torn, head, call>>

Record == [sequence: Nat, path: Paths, content: Contents]
NoCall == [at |-> "none", records |-> <<>>]

ChainTypeOK ==
    /\ files \in [Paths -> Contents \cup {Absent}]
    /\ chain \in Seq(Record)
    /\ torn \in BOOLEAN
    /\ head \in Seq(Record)
    /\ call \in [Callers -> [at: {"none", "locked", "appended"}, records: Seq(Record)]]

\* A faulty variant: nobody waits for the lock.
LockIgnored == TRUE

\* _chain_lock: a call keeps the flock from its verification to its head.
LockFree == \A c \in Callers : call[c].at = "none"

Tracked == {chain[i].path : i \in DOMAIN chain}
Existing == {p \in Paths : files[p] # Absent}

Numbered == \A i \in DOMAIN chain : chain[i].sequence = i
TrackedOnce == \A i, j \in DOMAIN chain : chain[i].path = chain[j].path => i = j
FilesMatch == \A i \in DOMAIN chain : files[chain[i].path] = chain[i].content

\* A faulty variant that never compares the head.
VerifyWithoutHead(includeUntracked) ==
    /\ ~torn
    /\ Numbered /\ TrackedOnce /\ FilesMatch
    /\ includeUntracked => Existing \subseteq Tracked

\* _verify_unlocked finds no anomaly.
Verified(includeUntracked) ==
    /\ ~torn
    /\ Numbered /\ TrackedOnce /\ FilesMatch
    /\ head = chain
    /\ includeUntracked => Existing \subseteq Tracked

-----------------------------------------------------------------------------
(* record_audit_export, for the caller c and the file p.                   *)

\* FileNotFoundError, or AuditIntegrityError once the lock is granted.
RecordRaises(p) ==
    \/ files[p] = Absent
    \/ LockFree /\ ~Verified(FALSE)

\* The file is tracked already; the verification has compared its hash.
AlreadyRecorded(p) ==
    /\ LockFree
    /\ Verified(FALSE)
    /\ files[p] # Absent
    /\ p \in Tracked

\* The lock is granted, the chain verified, its records read, the file hashed.
BeginRecord(c, p) ==
    /\ LockFree
    /\ Verified(FALSE)
    /\ files[p] # Absent
    /\ p \notin Tracked
    /\ call' = [call EXCEPT ![c] =
                   [at |-> "locked",
                    records |-> Append(chain, [sequence |-> Len(chain) + 1,
                                               path |-> p,
                                               content |-> files[p]])]]
    /\ UNCHANGED <<files, chain, torn, head>>

\* One line more in the chain file, flushed and fsynced.
AppendRecord(c) ==
    /\ call[c].at = "locked"
    /\ chain' = Append(chain, call[c].records[Len(call[c].records)])
    /\ call' = [call EXCEPT ![c].at = "appended"]
    /\ UNCHANGED <<files, torn, head>>

\* The disk fills up or the host stops in the middle of the line.
TearAppend(c) ==
    /\ call[c].at = "locked"
    /\ torn' = TRUE
    /\ call' = [call EXCEPT ![c] = NoCall]
    /\ UNCHANGED <<files, chain, head>>

\* _write_head replaces the head; the call returns and gives the lock back.
WriteHead(c) ==
    /\ call[c].at = "appended"
    /\ head' = call[c].records
    /\ call' = [call EXCEPT ![c] = NoCall]
    /\ UNCHANGED <<files, chain, torn>>

\* The call raises or its process dies; the lock is given back as it is.
DropCall(c) ==
    /\ call[c].at # "none"
    /\ call' = [call EXCEPT ![c] = NoCall]
    /\ UNCHANGED <<files, chain, torn, head>>

\* An export is written, or somebody edits or deletes one.
PutFile(p, content) ==
    /\ files' = [files EXCEPT ![p] = content]
    /\ UNCHANGED <<chain, torn, head, call>>

ChainInit ==
    /\ files = [p \in Paths |-> Absent]
    /\ chain = <<>>
    /\ torn = FALSE
    /\ head = <<>>
    /\ call = [c \in Callers |-> NoCall]

ChainNext ==
    \/ \E c \in Callers :
        \/ \E p \in Paths : BeginRecord(c, p)
        \/ AppendRecord(c)
        \/ TearAppend(c)
        \/ WriteHead(c)
        \/ DropCall(c)
    \/ \E p \in Paths, content \in Contents \cup {Absent} : PutFile(p, content)

ChainSpec == ChainInit /\ [][ChainNext]_chainVars

-----------------------------------------------------------------------------

\* Concurrent recorders, crashes between the append and the head and edits of
\* the files never give the chain a gap, a reordered or repeated sequence
\* number or a path twice: what _verify_unlocked calls sequence_gap_or_reorder
\* or duplicate_record_path is always somebody else's doing.
ChainWellFormed == Numbered /\ TrackedOnce

\* The head never digests anything but the chain, or the chain without its last
\* record while that record's call is between its two writes or died there.
HeadLagsByOne ==
    \/ head = chain
    \/ /\ Len(chain) = Len(head) + 1
       /\ head = SubSeq(chain, 1, Len(head))
       /\ LockFree \/ \E c \in Callers : call[c].at = "appended"

\* A slow recorder never puts back a head that digests less than the present
\* one: a digest that was published stays a prefix of all later ones.
HeadNeverRetreats ==
    [][/\ Len(head) <= Len(head')
       /\ head = SubSeq(head', 1, Len(head))]_chainVars

\* A torn line, or a head that lags with no call under way to write it, is
\* final: whatever happens to the files, no later call of record_audit_export
\* touches the chain or the head again.
Stuck == LockFree /\ (torn \/ head # chain)

LostHeadIsFinal == [][Stuck => Stuck' /\ UNCHANGED <<chain, head>>]_chainVars

=============================================================================
