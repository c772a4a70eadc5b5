--------------------------- MODULE WorkingMemory ---------------------------
(***************************************************************************)
(* What an agent remembers of its own work (repoagent/features/memory.py): *)
(* the files it touched last, a summary of each file it read, stamped with *)
(* the digest of the file, and a short list of notes, in which a newer one *)
(* supersedes an older one of the same subject.  checkpoint.py records the *)
(* digests of those files, and tells the session that is opened again what *)
(* of it still holds.  Files change by tools and behind the agent's back;  *)
(* a digest is the content it is of.  Texts are what they say, contents    *)
(* included: scoring, clipping and rendering are left out.                 *)
(***************************************************************************)
EXTENDS Naturals, Sequences, SequencesExt, FiniteSets

CONSTANTS
  Files,
  Contents,     \* what a file may hold; the summary of a reading is a text
  Remarks,      \* the other texts of notes: of the calls that went wrong
  Subject,      \* what each text is about, noSubject for some
  noSubject,
  Unset,        \* what there is none of
  FileLimit,    \* WORKING_FILE_LIMIT
  NoteLimit,    \* EPISODIC_NOTE_LIMIT
  MaxNotes,     \* bound: notes ever taken
  MaxClock,     \* bound: ticks of the clock
  MaxChanges    \* bound: changes behind the agent's back, and of its settings

ASSUME MemoryAssumption ==
  /\ DOMAIN Subject = Contents \cup Remarks
  /\ {FileLimit, NoteLimit} \subseteq Nat \ {0}
  /\ {MaxNotes, MaxClock, MaxChanges} \subseteq Nat
  /\ Unset \notin {"no-checkpoint", "partial-stale", "workspace-mismatch", "full-valid"}

VARIABLES
  content,     \* of each file
  result,      \* the tool's result that is not remembered yet
  recent,      \* recent_files
  summaries,   \* of each file: what it says and the digest it is stamped with
  blurred,     \* history: files that changed between their reading and the stamp
  notes, nextIndex, clock,
  saved,       \* the session's current checkpoint
  settings,    \* the runtime's identity
  resumed,     \* resume_state, while nothing has happened since
  changes

memoryVars == <<content, result, recent, summaries, blurred, notes, nextIndex, clock,
                saved, settings, resumed, changes>>
noteVars == <<notes, nextIndex, clock>>
fileVars == <<recent, summaries, blurred>>
sessionVars == <<saved, settings, resumed>>

NothingRead == [tool |-> "none", file |-> Unset, text |-> Unset]
Unread == [says |-> Unset, stamp |-> Unset]

MemoryInit ==
  /\ content \in [Files -> Contents] /\ result = NothingRead
  /\ recent = <<>> /\ summaries = [f \in Files |-> Unread] /\ blurred = {}
  /\ notes = <<>> /\ nextIndex = 0 /\ clock = 0
  /\ saved = Unset /\ settings = 0 /\ resumed = Unset /\ changes = 0

---------------------------------------------------------------------------
(* append_note                                                             *)

\* Another note of the same text makes room for the new one; what is current
\* and of its subject conflicts with it when it is just as new, and is
\* superseded otherwise.
FaultyRevised(old, note) ==
  IF old.fresh /\ old.subject = note.subject
  THEN [old EXCEPT !.fresh = FALSE, !.by = note.index] ELSE old

Revised(old, note) ==
  IF ~old.fresh \/ note.subject = noSubject \/ old.subject # note.subject THEN old
  ELSE IF old.at = note.at THEN [old EXCEPT !.conflicts = @ \cup {note.index}]
  ELSE [old EXCEPT !.fresh = FALSE, !.by = note.index]

\* Faulty: the new note does not say what it conflicts with.
FaultyRivals(kept, note) == {}
Rivals(kept, note) ==
  {o.index : o \in {o \in ToSet(kept) : o.fresh /\ note.subject # noSubject
                                         /\ o.subject = note.subject /\ o.at = note.at}}

\* A list without what is at some of its places, in the order it had.
Others(seq, gone) ==
  LET Kept[n \in 0..Len(seq)] ==
        IF n = 0 THEN <<>>
        ELSE IF n \in gone THEN Kept[n - 1] ELSE Append(Kept[n - 1], seq[n])
  IN Kept[Len(seq)]

LastOf(seq, n) == IF Len(seq) > n THEN SubSeq(seq, Len(seq) - n + 1, Len(seq)) ELSE seq

Append1(text) ==
  LET note == [text |-> text, subject |-> Subject[text], index |-> nextIndex, at |-> clock,
               fresh |-> TRUE, by |-> 0, conflicts |-> {}]
      kept == Others(notes, {k \in 1..Len(notes) : notes[k].text = text})
      told == [note EXCEPT !.conflicts = Rivals(kept, note)]
      old == [k \in 1..Len(kept) |-> Revised(kept[k], note)]
  IN /\ notes' = LastOf(Append(old, told), NoteLimit)
     /\ nextIndex' = nextIndex + 1

MayNote == nextIndex < MaxNotes

\* A note on a call that went wrong.
Remark ==
  /\ MayNote /\ \E text \in Remarks : Append1(text)
  /\ resumed' = Unset
  /\ UNCHANGED <<content, result, fileVars, clock, saved, settings, changes>>

---------------------------------------------------------------------------
(* Tools and files                                                         *)

RunTool ==
  /\ result = NothingRead
  /\ \E f \in Files :
       \/ /\ result' = [tool |-> "read", file |-> f, text |-> content[f]]
          /\ UNCHANGED content
       \/ \E c \in Contents : /\ content' = [content EXCEPT ![f] = c]
                              /\ result' = [tool |-> "write", file |-> f, text |-> c]
  /\ resumed' = Unset
  /\ UNCHANGED <<fileVars, noteVars, saved, settings, changes>>

\* By somebody else, or by a command.
ChangedBehind ==
  /\ changes < MaxChanges /\ changes' = changes + 1
  /\ \E f \in Files, c \in Contents : content[f] # c /\ content' = [content EXCEPT ![f] = c]
  /\ resumed' = Unset
  /\ UNCHANGED <<result, fileVars, noteVars, saved, settings>>

Touched(f) ==
  LastOf(Append(Others(recent, {k \in 1..Len(recent) : recent[k] = f}), f), FileLimit)

\* note_tool after a reading: the file's digest is taken now.
RememberRead ==
  LET f == result.file IN
  /\ result.tool = "read" /\ MayNote
  /\ recent' = Touched(f)
  /\ summaries' = [summaries EXCEPT ![f] = [says |-> result.text, stamp |-> content[f]]]
  /\ blurred' = IF content[f] = result.text THEN blurred \ {f} ELSE blurred \cup {f}
  /\ Append1(result.text) /\ result' = NothingRead
  /\ UNCHANGED <<content, clock, sessionVars, changes>>

Forgotten(f) == [summaries EXCEPT ![f] = Unread]
RememberWrite ==
  LET f == result.file IN
  /\ result.tool = "write"
  /\ recent' = Touched(f) /\ summaries' = Forgotten(f)
  /\ result' = NothingRead
  /\ UNCHANGED <<content, blurred, noteVars, sessionVars, changes>>

ClockTicks ==
  /\ clock < MaxClock /\ clock' = clock + 1
  /\ UNCHANGED <<content, result, fileVars, notes, nextIndex, sessionVars, changes>>

---------------------------------------------------------------------------
(* Checkpoints                                                             *)

\* create_checkpoint: the recent files with their digests, and the identity.
SaveCheckpoint ==
  /\ result = NothingRead
  /\ saved' = [files |-> [f \in ToSet(recent) |-> content[f]], identity |-> settings]
  /\ resumed' = Unset
  /\ UNCHANGED <<content, result, fileVars, noteVars, settings, changes>>

\* The process ends, and the session is opened again, by an agent that may be
\* configured in another way: evaluate_resume_state drops the summaries that
\* are out of date, and says how much of the checkpoint holds.
FaultyIsStale(f) == f \in DOMAIN saved.files /\ saved.files[f] # content[f] /\ f \in ToSet(recent)
OutOfDate == {f \in Files : summaries[f] # Unread /\ summaries[f].stamp # content[f]}
IsStale(f) == f \in DOMAIN saved.files /\ saved.files[f] # content[f]
Reopen(identity) ==
  /\ settings' = identity /\ result' = NothingRead
  /\ changes' = changes + (IF identity = settings THEN 0 ELSE 1) /\ changes' <= MaxChanges
  /\ summaries' = [f \in Files |-> IF f \in OutOfDate THEN Unread ELSE summaries[f]]
  /\ resumed' =
       IF saved = Unset THEN "no-checkpoint"
       ELSE IF OutOfDate # {} \/ \E f \in Files : IsStale(f) THEN "partial-stale"
       ELSE IF saved.identity # identity THEN "workspace-mismatch"
       ELSE "full-valid"
  /\ UNCHANGED <<content, recent, blurred, noteVars, saved>>

MemoryNext ==
  \/ Remark \/ RunTool \/ ChangedBehind \/ RememberRead \/ RememberWrite \/ ClockTicks
  \/ SaveCheckpoint \/ \E identity \in {0, 1} : Reopen(identity)

---------------------------------------------------------------------------
(* What is shown of it                                                     *)

\* render_memory_text and recall: a summary whose stamp is the file's digest.
Shown(f) == summaries[f] # Unread /\ summaries[f].stamp = content[f]
\* retrieval_candidates: the notes that nothing has superseded.
Current(k) == notes[k].fresh

MemoryTypes ==
  /\ Len(notes) <= NoteLimit /\ Len(recent) <= FileLimit /\ IsInjective(recent)
  /\ \A k \in 1..Len(notes) : notes[k].index < nextIndex /\ notes[k].text \in DOMAIN Subject
  /\ content \in [Files -> Contents] /\ settings \in {0, 1}

\* "A newer same-subject note supersedes older active evidence; equal-time/
\* equal-confidence contradictions remain explicit conflicts" (the ledger),
\* although notes are replaced and pushed out: what is known of a subject is
\* never left with notes that nothing newer superseded, two current notes of one subject
\* each name the other, and notes stand in the order they were taken in.
NotesAreSound ==
  /\ \A j, k \in 1..Len(notes) : j < k => notes[j].index < notes[k].index
  /\ \A k \in 1..Len(notes) : ~Current(k) =>
       \E j \in k + 1..Len(notes) :
         Current(j) /\ notes[j].subject = notes[k].subject /\ notes[k].at < notes[j].at
  /\ \A j, k \in 1..Len(notes) :
       j # k /\ Current(j) /\ Current(k) /\ notes[j].subject = notes[k].subject
         /\ notes[k].subject # noSubject => notes[j].index \in notes[k].conflicts

\* A summary is shown only for what the file says now, whoever changed it and
\* however often, unless it changed between its reading and its digest; and a
\* resumed session that is called fully valid finds every file of its
\* checkpoint as it was saved.
SummariesAreCurrent ==
  /\ \A f \in Files : Shown(f) /\ f \notin blurred => summaries[f].says = content[f]
  /\ resumed = "full-valid" =>
       saved.identity = settings /\ \A f \in DOMAIN saved.files : saved.files[f] = content[f]

MemoryIsSound == MemoryTypes /\ NotesAreSound /\ SummariesAreCurrent
=============================================================================
