----------------------------- MODULE MailPoller -----------------------------
(***************************************************************************)
(* Polling one IMAP folder: internal/ingest/mail.go.  The server keeps the *)
(* folder; the store keeps the messages that are tracked, the cursor and   *)
(* the documents and jobs the attachments become.  Several watch processes *)
(* may poll the same account, each in a session of its own.                *)
(*                                                                         *)
(* A step is one call to the server, the store or the file system, where   *)
(* another process could tell the difference.  Searching and fetching are  *)
(* one step: what arrives in between belongs to the next poll.             *)
(***************************************************************************)
EXTENDS Integers, Sequences, FiniteSets

CONSTANTS
  Messages,     \* messages that may arrive in the folder
  Names,        \* file names of attachments
  Contents,     \* contents of attachments
  Parts,        \* the attachments of each message, in order
  Truncated,    \* messages that break off in the header of a part, behind their Parts
  Anonymous,    \* messages without a Message-ID
  Unsupported,  \* contents that extract.Detect refuses
  Deletable,    \* bound: messages the user may delete
  Pollers,      \* processes that poll the account
  Action,       \* "mark_seen" or "move"
  Faults,       \* which of "connection", "action", "message", "crash", "shutdown"
  MaxFaults,    \* bound: faults
  MaxValidity   \* bound: UIDVALIDITY values of the folder

ASSUME MailAssumption ==
  /\ Parts \in [Messages -> Seq([name : Names, content : Contents, decodes : BOOLEAN])]
  /\ Anonymous \subseteq Messages
  /\ Action \in {"mark_seen", "move"}
  /\ MaxFaults \in Nat /\ MaxValidity \in Nat

VARIABLES
  box,         \* the folder: messages in the order of their UIDs
  uid,         \* the UID of each message, 0 before it arrives
  uidNext, validity,
  seen,        \* messages with the flag \Seen
  moved,       \* messages in the folder of the move action
  tracked,     \* mail_messages
  cursor,      \* the row of mail_poll_cursor
  docs,        \* contents with a documents row
  jobs,        \* how many jobs have been enqueued for a content
  files,       \* attachments in the processing folder: <<message id, name>>
  pc,          \* per poller: the call it makes next
  sel,         \* per poller: what SELECT and the cursor said
  got,         \* per poller: the fetched messages by sequence number
  live,        \* per poller: what the sequence numbers mean to the server now
  todo,        \* per poller: sequence numbers of the messages left to process
  cur,         \* per poller: the one it is at
  read,        \* per poller: parts of the current message NextPart has been through
  attachments, \* per poller: contents of those that are saved and not yet enqueued
  cancelled,   \* per poller: its context is cancelled
  failed,      \* messages whose processing an error or a crash cut off
  faults       \* how much of MaxFaults is used

serverVars == <<box, uid, uidNext, validity, seen, moved>>
storeVars == <<tracked, cursor, docs, jobs>>
pollVars == <<pc, sel, got, live, todo, cur, read, attachments, cancelled>>
vars == <<serverVars, storeVars, files, pollVars, failed, faults>>

Size == Cardinality(Messages)
Ids == ({"id"} \X Messages) \cup ({"seq"} \X Nat)
Processing == {"save", "enqueue", "job", "act", "track"}
Calls == {"idle", "fetch", "check", "cursor"} \cup Processing

NoPoll == [validity |-> 0, next |-> 0, start |-> 0]

TypeOK ==
  /\ box \in Seq(Messages) /\ uid \in [Messages -> Nat]
  /\ uidNext \in Nat /\ validity \in 1..MaxValidity + 1
  /\ seen \subseteq Messages /\ moved \subseteq Messages
  /\ tracked \subseteq Ids
  /\ cursor \in [validity : Nat, uid : Nat]
  /\ docs \subseteq Contents /\ jobs \in [Contents -> Nat]
  /\ files \subseteq Ids \X Names
  /\ pc \in [Pollers -> Calls]
  /\ sel \in [Pollers -> [validity : Nat, next : Nat, start : Nat]]
  /\ got \in [Pollers -> Seq(Messages)] /\ live \in [Pollers -> Seq(Messages)]
  /\ \A p \in Pollers : todo[p] \subseteq DOMAIN got[p]
  /\ cur \in [Pollers -> Nat]
  /\ read \in [Pollers -> Nat] /\ attachments \in [Pollers -> Seq(Contents)]
  /\ cancelled \in [Pollers -> BOOLEAN]
  /\ failed \subseteq Messages /\ faults \in 0..MaxFaults

Init ==
  /\ box = <<>> /\ uid = [m \in Messages |-> 0] /\ uidNext = 1 /\ validity = 1
  /\ seen = {} /\ moved = {}
  /\ tracked = {} /\ cursor = [validity |-> 0, uid |-> 0]
  /\ docs = {} /\ jobs = [c \in Contents |-> 0]
  /\ files = {}
  /\ pc = [p \in Pollers |-> "idle"]
  /\ sel = [p \in Pollers |-> NoPoll]
  /\ got = [p \in Pollers |-> <<>>] /\ live = [p \in Pollers |-> <<>>]
  /\ todo = [p \in Pollers |-> {}] /\ cur = [p \in Pollers |-> 0]
  /\ read = [p \in Pollers |-> 0] /\ attachments = [p \in Pollers |-> <<>>]
  /\ cancelled = [p \in Pollers |-> FALSE]
  /\ failed = {} /\ faults = 0

-----------------------------------------------------------------------------
(* The server and the user's other mail programs.                          *)

InBox(m) == \E i \in DOMAIN box : box[i] = m
Position(m) == CHOOSE i \in DOMAIN box : box[i] = m

Arrive(m) ==
  /\ uid[m] = 0
  /\ box' = Append(box, m)
  /\ uid' = [uid EXCEPT ![m] = uidNext]
  /\ uidNext' = uidNext + 1
  /\ UNCHANGED <<validity, seen, moved, storeVars, files, pollVars, failed, faults>>

(* s without its i-th element.                                             *)
Without(s, i) == SubSeq(s, 1, i - 1) \o SubSeq(s, i + 1, Len(s))

Delete(i) ==
  /\ i \in DOMAIN box /\ box[i] \in Deletable
  /\ box' = Without(box, i)
  /\ UNCHANGED <<uid, uidNext, validity, seen, moved, storeVars, files, pollVars, failed,
                 faults>>

(* The folder is rebuilt: new UIDs under a new UIDVALIDITY, no session      *)
(* survives it.                                                             *)
Renumber ==
  /\ validity < MaxValidity
  /\ \A p \in Pollers : pc[p] = "idle"
  /\ validity' = validity + 1
  /\ uid' = [m \in Messages |-> IF InBox(m) THEN Position(m) ELSE uid[m]]
  /\ uidNext' = Len(box) + 1
  /\ UNCHANGED <<box, seen, moved, storeVars, files, pollVars, failed, faults>>

-----------------------------------------------------------------------------
(* Helpers.                                                                 *)

(* The message p is at.                                                     *)
Msg(p) == got[p][cur[p]]

(* What mail_messages is asked for.                                         *)
Id(m, seq) == IF m \in Anonymous THEN <<"seq", seq>> ELSE <<"id", m>>
MsgId(p) == Id(Msg(p), cur[p])

(* What NextPart can get out of a message: an attachment in an encoding or  *)
(* a character set it does not know is lost on every read.                  *)
Decodable(m) == {i \in DOMAIN Parts[m] : Parts[m][i].decodes}
ContentsOf(m) == {Parts[m][i].content : i \in Decodable(m)}
Recorded(m) == ContentsOf(m) \subseteq docs

Goto(p, call) == pc' = [pc EXCEPT ![p] = call]

(* p is through with the message of sequence number i.                      *)
NextMessage(p, i) ==
  /\ todo' = [todo EXCEPT ![p] = @ \ {i}]
  /\ Goto(p, IF todo[p] = {i} THEN "cursor" ELSE "check")
  /\ cur' = [cur EXCEPT ![p] = 0]
  /\ read' = [read EXCEPT ![p] = 0]
  /\ attachments' = [attachments EXCEPT ![p] = <<>>]
  /\ UNCHANGED <<sel, got, cancelled>>

(* processMessage returns an error, which pollAccount logs.                 *)
Drop(p) ==
  /\ NextMessage(p, cur[p])
  /\ failed' = failed \cup {Msg(p)}

(* The session is over.                                                     *)
Disconnect(p) ==
  /\ Goto(p, "idle")
  /\ todo' = [todo EXCEPT ![p] = {}] /\ cur' = [cur EXCEPT ![p] = 0]
  /\ read' = [read EXCEPT ![p] = 0]
  /\ attachments' = [attachments EXCEPT ![p] = <<>>]
  /\ cancelled' = [cancelled EXCEPT ![p] = FALSE]
  /\ sel' = [sel EXCEPT ![p] = NoPoll]
  /\ got' = [got EXCEPT ![p] = <<>>] /\ live' = [live EXCEPT ![p] = <<>>]

-----------------------------------------------------------------------------
(* pollAccount.                                                             *)

(* SELECT, and the cursor of the account.                                   *)
Select(p) ==
  /\ pc[p] = "idle"
  /\ sel' = [sel EXCEPT ![p] =
       [validity |-> validity, next |-> uidNext,
        start |-> IF cursor.validity = validity THEN cursor.uid + 1 ELSE 1]]
  /\ Goto(p, "fetch")
  /\ UNCHANGED <<serverVars, storeVars, files, got, live, todo, cur, read, attachments,
                 cancelled, failed, faults>>

(* UID SEARCH start:*, the envelopes, HasMailMessage on each, the bodies.   *)
(* A range that starts past the last UID still holds the last message.      *)
Found(p) ==
  {i \in DOMAIN box :
     /\ uid[box[i]] >= sel[p].start \/ i = Len(box)
     /\ Action = "mark_seen" => box[i] \notin seen
     /\ box[i] \in Anonymous \/ Id(box[i], i) \notin tracked}

Fetch(p) ==
  /\ pc[p] = "fetch" /\ ~ cancelled[p]
  /\ got' = [got EXCEPT ![p] = box]
  /\ live' = [live EXCEPT ![p] = box]
  /\ todo' = [todo EXCEPT ![p] = Found(p)]
  /\ Goto(p, IF Found(p) = {} THEN "cursor" ELSE "check")
  /\ UNCHANGED <<serverVars, storeVars, files, sel, cur, read, attachments, cancelled, failed,
                 faults>>

(* Mutant: up to what the server has now.                                   *)
SaveCursorLate(p) ==
  /\ pc[p] = "cursor" /\ ~ cancelled[p]
  /\ cursor' = [validity |-> sel[p].validity, uid |-> uidNext - 1]
  /\ Disconnect(p)
  /\ UNCHANGED <<serverVars, tracked, docs, jobs, files, failed, faults>>

(* SetMailPollCursor with the UIDNEXT of SELECT, whatever became of the     *)
(* messages.                                                                *)
SaveCursor(p) ==
  /\ pc[p] = "cursor" /\ ~ cancelled[p]
  /\ cursor' = [validity |-> sel[p].validity, uid |-> sel[p].next - 1]
  /\ Disconnect(p)
  /\ UNCHANGED <<serverVars, tracked, docs, jobs, files, failed, faults>>

-----------------------------------------------------------------------------
(* processMessage.                                                          *)

(* The first message left; HasMailMessage is asked once more.               *)
Check(p) ==
  /\ pc[p] = "check" /\ ~ cancelled[p]
  /\ \E i \in todo[p] :
       /\ \A j \in todo[p] : i <= j
       /\ IF Id(got[p][i], i) \in tracked
          THEN NextMessage(p, i)
          ELSE /\ cur' = [cur EXCEPT ![p] = i]
               /\ Goto(p, "save")
               /\ UNCHANGED <<sel, got, todo, read, attachments, cancelled>>
  /\ UNCHANGED <<serverVars, storeVars, files, live, failed, faults>>

(* The part NextPart comes to, and where it would be saved.                 *)
MoreParts(p) == read[p] < Len(Parts[Msg(p)])
Upcoming(p) == Parts[Msg(p)][read[p] + 1]
File(p) == <<MsgId(p), Upcoming(p).name>>

(* saveStream: the file must not exist.                                     *)
SavePart(p) ==
  /\ pc[p] = "save" /\ ~ cancelled[p]
  /\ MoreParts(p) /\ Upcoming(p).decodes
  /\ IF File(p) \in files
     THEN Drop(p) /\ UNCHANGED files
     ELSE /\ files' = files \cup {File(p)}
          /\ read' = [read EXCEPT ![p] = @ + 1]
          /\ attachments' = [attachments EXCEPT ![p] = Append(@, Upcoming(p).content)]
          /\ UNCHANGED <<pc, sel, got, todo, cur, cancelled, failed>>
  /\ UNCHANGED <<serverVars, storeVars, live, faults>>

(* NextPart returns an error for a part it cannot decode, which is logged.  *)
SkipPart(p) ==
  /\ pc[p] = "save" /\ ~ cancelled[p]
  /\ MoreParts(p) /\ ~ Upcoming(p).decodes
  /\ read' = [read EXCEPT ![p] = @ + 1]
  /\ UNCHANGED <<serverVars, storeVars, files, pc, sel, got, live, todo, cur, attachments,
                 cancelled, failed, faults>>

(* Behind the last part of a truncated message NextPart returns the same    *)
(* error again and again: the loop goes round until the context is cancelled. *)
Spins(p) ==
  pc[p] = "save" /\ ~ cancelled[p] /\ ~ MoreParts(p) /\ Msg(p) \in Truncated

(* Mutant: the first error of NextPart ends the loop.                       *)
EndAtError(p) ==
  /\ pc[p] = "save"
  /\ MoreParts(p) => ~ Upcoming(p).decodes \/ cancelled[p]
  /\ Goto(p, IF attachments[p] = <<>> THEN "act" ELSE "enqueue")
  /\ UNCHANGED <<serverVars, storeVars, files, sel, got, live, todo, cur, read, attachments,
                 cancelled, failed, faults>>

(* The message has no more parts, or the context is cancelled.              *)
EndOfParts(p) ==
  /\ pc[p] = "save"
  /\ (~ MoreParts(p) /\ Msg(p) \notin Truncated) \/ cancelled[p]
  /\ Goto(p, IF attachments[p] = <<>> THEN "act" ELSE "enqueue")
  /\ UNCHANGED <<serverVars, storeVars, files, sel, got, live, todo, cur, read, attachments,
                 cancelled, failed, faults>>

(* The attachment at hand has been dealt with.                              *)
NextPart(p) ==
  /\ attachments' = [attachments EXCEPT ![p] = Tail(@)]
  /\ Goto(p, IF Len(attachments[p]) = 1 THEN "act" ELSE "enqueue")
  /\ UNCHANGED <<sel, got, todo, cur, read, cancelled, failed>>

Content(p) == Head(attachments[p])

(* Mutant: a known content gets another job.                                *)
EnqueueAgain(p) ==
  /\ pc[p] = "enqueue" /\ ~ cancelled[p]
  /\ Content(p) \notin Unsupported
  /\ docs' = docs \cup {Content(p)}
  /\ Goto(p, "job")
  /\ UNCHANGED <<serverVars, tracked, cursor, jobs, files, live, sel, got, todo, cur, read,
                 attachments, cancelled, failed, faults>>

(* enqueueFile up to CreateOrGet.                                           *)
Enqueue(p) ==
  /\ pc[p] = "enqueue" /\ ~ cancelled[p]
  /\ \/ /\ Content(p) \in Unsupported
        /\ Drop(p) /\ UNCHANGED docs
     \/ /\ Content(p) \in docs \ Unsupported
        /\ NextPart(p) /\ UNCHANGED docs
     \/ /\ Content(p) \notin docs \cup Unsupported
        /\ docs' = docs \cup {Content(p)}
        /\ Goto(p, "job")
        /\ UNCHANGED <<sel, got, todo, cur, read, attachments, cancelled, failed>>
  /\ UNCHANGED <<serverVars, tracked, cursor, jobs, files, live, faults>>

(* SetProvenance and EnqueueJob, for a document this poller created.        *)
EnqueueJob(p) ==
  /\ pc[p] = "job" /\ ~ cancelled[p]
  /\ jobs' = [jobs EXCEPT ![Content(p)] = @ + 1]
  /\ NextPart(p)
  /\ UNCHANGED <<serverVars, tracked, cursor, docs, files, live, faults>>

(* STORE by sequence number.                                                *)
MarkSeen(p) ==
  /\ pc[p] = "act" /\ Action = "mark_seen"
  /\ seen' = seen \cup {live[p][cur[p]]}
  /\ Goto(p, "track")
  /\ UNCHANGED <<box, uid, uidNext, validity, moved, storeVars, files, sel, got, live, todo,
                 cur, read, attachments, cancelled, failed, faults>>

(* MOVE by sequence number, which renumbers the messages behind.            *)
Move(p) ==
  /\ pc[p] = "act" /\ Action = "move"
  /\ IF cur[p] \in DOMAIN live[p]
     THEN LET m == live[p][cur[p]] IN
          /\ live' = [live EXCEPT ![p] = Without(@, cur[p])]
          /\ IF InBox(m) THEN box' = Without(box, Position(m)) /\ moved' = moved \cup {m}
                         ELSE UNCHANGED <<box, moved>>
          /\ Goto(p, "track")
          /\ UNCHANGED <<sel, got, todo, cur, read, attachments, cancelled, failed>>
     ELSE Drop(p) /\ UNCHANGED <<live, box, moved>>
  /\ UNCHANGED <<uid, uidNext, validity, seen, storeVars, files, faults>>

(* TrackMailMessage.                                                        *)
Track(p) ==
  /\ pc[p] = "track" /\ ~ cancelled[p]
  /\ tracked' = tracked \cup {MsgId(p)}
  /\ NextMessage(p, cur[p])
  /\ UNCHANGED <<serverVars, cursor, docs, jobs, files, live, failed, faults>>

-----------------------------------------------------------------------------
(* Faults.  `failed' remembers the message they hit.                        *)

Hit(p) == IF pc[p] \in Processing THEN {Msg(p)} ELSE {}

Fault(kind) ==
  /\ kind \in Faults
  /\ faults < MaxFaults
  /\ faults' = faults + 1

(* Searching, fetching or saving the cursor fails: the poll is given up.    *)
PollFails(p) ==
  /\ Fault("connection")
  /\ pc[p] \in {"fetch", "cursor"}
  /\ Disconnect(p)
  /\ UNCHANGED <<serverVars, storeVars, files, failed>>

(* A message has no body or no header that can be read, or the store fails. *)
MessageFails(p) ==
  /\ Fault("message")
  /\ pc[p] \in {"enqueue", "job", "track"} \/ (pc[p] = "save" /\ read[p] = 0)
  /\ Drop(p)
  /\ UNCHANGED <<serverVars, storeVars, files, live>>

(* An attachment cannot be written, or its text ends too early: what was    *)
(* written stays in the processing folder.                                  *)
SavingFails(p) ==
  /\ Fault("message")
  /\ pc[p] = "save" /\ MoreParts(p) /\ Upcoming(p).decodes
  /\ \/ UNCHANGED files
     \/ files' = files \cup {File(p)}
  /\ Drop(p)
  /\ UNCHANGED <<serverVars, storeVars, live>>

(* STORE or MOVE fails.                                                     *)
ActionFails(p) ==
  /\ Fault("action")
  /\ pc[p] = "act"
  /\ Drop(p)
  /\ UNCHANGED <<serverVars, storeVars, files, live>>

(* The process dies; another one takes its place.                           *)
Crash(p) ==
  /\ Fault("crash")
  /\ pc[p] # "idle"
  /\ failed' = failed \cup Hit(p)
  /\ Disconnect(p)
  /\ UNCHANGED <<serverVars, storeVars, files>>

(* The process is told to stop: its context is cancelled, the poller runs   *)
(* on until a call notices.                                                 *)
Shutdown(p) ==
  /\ Fault("shutdown")
  /\ pc[p] # "idle" /\ ~ cancelled[p]
  /\ cancelled' = [cancelled EXCEPT ![p] = TRUE]
  /\ failed' = failed \cup Hit(p)
  /\ UNCHANGED <<serverVars, storeVars, files, pc, sel, got, live, todo, cur, read, attachments>>

(* Mutant: a poll that is being stopped saves its cursor.                   *)
AbandonSaving(p) ==
  /\ cancelled[p]
  /\ pc[p] \notin {"idle", "save", "act"}
  /\ cursor' = [validity |-> sel[p].validity, uid |-> sel[p].next - 1]
  /\ Disconnect(p)
  /\ UNCHANGED <<serverVars, tracked, docs, jobs, files, failed, faults>>

(* Every call to the store fails from then on: no message, no cursor.       *)
Abandon(p) ==
  /\ cancelled[p]
  /\ pc[p] \notin {"idle", "save", "act"}
  /\ Disconnect(p)
  /\ UNCHANGED <<serverVars, storeVars, files, failed, faults>>

-----------------------------------------------------------------------------
Step(p) ==
  \/ Select(p) \/ Fetch(p) \/ Check(p) \/ SavePart(p) \/ SkipPart(p) \/ EndOfParts(p)
  \/ Enqueue(p) \/ EnqueueJob(p) \/ MarkSeen(p) \/ Move(p) \/ Track(p) \/ SaveCursor(p)
  \/ Abandon(p)

Disturb(p) ==
  PollFails(p) \/ MessageFails(p) \/ SavingFails(p) \/ ActionFails(p) \/ Crash(p) \/ Shutdown(p)

Next ==
  \/ \E m \in Messages : Arrive(m)
  \/ \E i \in 1..Size : Delete(i)
  \/ Renumber
  \/ \E p \in Pollers : Step(p) \/ Disturb(p)

Spec == Init /\ [][Next]_vars

(* The ticker fires and a poll under way goes on; a stopped process comes   *)
(* back.                                                                    *)
FairSpec == Spec /\ \A p \in Pollers : WF_vars(Step(p))

-----------------------------------------------------------------------------
(* A message is tracked by its Message-ID only when every attachment of it  *)
(* that NextPart can decode has a document: tracking comes last, and keeps  *)
(* the message from being read again.  One that cannot be decoded is        *)
(* skipped, and the message is tracked without it (mail.go:426-527).        *)
TrackedIsRecorded ==
  \A m \in Messages \ Anonymous : <<"id", m>> \in tracked => Recorded(m)

(* The cursor is saved with the UIDNEXT of SELECT, whatever became of the   *)
(* messages below it (mail.go:361-366): of those only one that an error, a  *)
(* crash or a shutdown hit may be without its documents.  The others that   *)
(* the next poll will not search for are recorded.                          *)
CursorPassesOnlySettled ==
  \A m \in Messages \ Anonymous :
    InBox(m) /\ cursor.validity = validity /\ uid[m] <= cursor.uid =>
      Recorded(m) \/ m \in failed

(* A content gets one job, by the poller that created its document; a       *)
(* document without a job is about to get it or is the trace of a message   *)
(* that was cut off (mail.go:539-570).                                      *)
DocumentHasItsJob ==
  \A c \in Contents :
    /\ jobs[c] <= IF c \in docs THEN 1 ELSE 0
    /\ c \in docs /\ jobs[c] = 0 =>
         \/ \E p \in Pollers : pc[p] = "job" /\ Content(p) = c
         \/ \E m \in failed : c \in ContentsOf(m)

(* The action is for messages whose attachments are enqueued: "expected no  *)
(* Move call after enqueue failure" (mail_test.go:1255).                    *)
ActedIsRecorded == \A m \in seen \cup moved : Recorded(m)

(* A message that arrives is recorded, unless the user deletes it or an     *)
(* error hits that very message: a failed poll, a restart, a new            *)
(* UIDVALIDITY, parts that cannot be decoded and the errors of other        *)
(* messages lose nothing.  A truncated message must not hold up a poller    *)
(* for ever: what is behind it waits until the process is stopped           *)
(* (mail.go:463-474).                                                       *)
EveryMessageRecorded ==
  (\A p \in Pollers : []<> ~ Spins(p)) =>
    \A m \in Messages \ Anonymous :
      InBox(m) ~> (Recorded(m) \/ m \in failed \/ ~ InBox(m))
=============================================================================
