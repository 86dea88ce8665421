------------------------------- MODULE ChatFiles -------------------------------
(***************************************************************************)
(* The files a user attaches to a Chat (attachments.rs): they are written  *)
(* before the message that names them is stored and removed when it is not *)
(* (chat_runtime.rs); a turn that begins without a warm Pi session gives   *)
(* the agent the newest messages within their budgets, with what can be    *)
(* restored of their attachments.                                          *)
(***************************************************************************)
EXTENDS Naturals, Sequences, FiniteSets

CONSTANTS
    Message,        \* identifiers, each used once
    MaxAttached,    \* MAX_CHAT_ATTACHMENTS
    MaxContext,     \* MAX_CHAT_CONTEXT_BYTES; a message without content takes 1
    MaxRestored,    \* MAX_COLD_ATTACHMENT_RESTORE_BYTES
    MaxImages,      \* MAX_COLD_HISTORICAL_IMAGES
    MaxImageBytes,  \* MAX_CHAT_ATTACHMENT_TOTAL_BYTES
    MaxFiles,       \* bound on the attachments of all messages
    MaxMishaps      \* bound on errors, outside changes and crashes

VARIABLES
    chat,    \* the stored messages with attachments, the oldest first
    folder,  \* each message's directory
    file,    \* its attachments, and the Markdown extracted from each
    draft,   \* the message being sent
    step,    \* where the turn is
    prompt,  \* what a cold start gives the agent
    unsure,  \* messages that the store wrote although it reported an error
    mishaps

files == <<chat, folder, file, draft, step, prompt, unsure, mishaps>>

\* An image is sent as it is.  Markdown is extracted from everything else, but
\* a text may be blank and a document may have nothing to extract; a text can
\* be read as it is too.
AttachmentKind == {"image", "text", "document"}
Extracted      == [image |-> {"none"}, text |-> {"none", "good"}, document |-> {"none", "good"}]
Missing        == [original |-> "missing", markdown |-> "none"]
Attachments    == UNION {[1 .. n -> AttachmentKind] : n \in 0 .. MaxAttached}

NoPrompt == [kept |-> <<>>, bytes |-> 0, restored |-> 0, images |-> <<>>, open |-> TRUE,
             failed |-> FALSE]
NoDraft  == [id |-> "none", attached |-> <<>>]

FilesInit ==
    /\ chat = <<>> /\ draft = NoDraft /\ step = "idle"
    /\ folder = [m \in Message |-> "none"] /\ file = [m \in Message |-> <<>>]
    /\ prompt = NoPrompt /\ unsure = {} /\ mishaps = 0

Mishap == mishaps < MaxMishaps /\ mishaps' = mishaps + 1

Stored == {chat[i].id : i \in DOMAIN chat}

\* A new identifier, while there is one.
Fresh ==
    LET free == {m \in Message : m \notin Stored /\ folder[m] = "none"}
    IN  IF free = {} THEN {} ELSE {CHOOSE m \in Message : m \in free}

Written(m) == \A i \in DOMAIN file[m] : file[m][i].original # "missing"
-----------------------------------------------------------------------------
\* prepare_chat_attachments, and the directory of the new message.
Send(m, attached) ==
    /\ step = "idle" /\ m \in Fresh
    /\ Cardinality(UNION {{n} \X DOMAIN file[n] : n \in Message}) + Len(attached) <= MaxFiles
    /\ draft' = [id |-> m, attached |-> attached] /\ prompt' = NoPrompt
    /\ step' = "writing"
    /\ IF attached = <<>> THEN UNCHANGED <<folder, file>>
       ELSE /\ folder' = [folder EXCEPT ![m] = "open"]
            /\ file' = [file EXCEPT ![m] = [i \in DOMAIN attached |-> Missing]]
    /\ UNCHANGED <<chat, mishaps, unsure>>

\* Each attachment with what was extracted from it, in their order.
Write ==
    /\ step = "writing" /\ ~Written(draft.id)
    /\ LET m == draft.id
           i == CHOOSE i \in DOMAIN file[m] :
                    /\ file[m][i] = Missing
                    /\ \A j \in 1 .. i - 1 : file[m][j] # Missing
       IN  \E markdown \in Extracted[draft.attached[i]] :
             file' = [file EXCEPT ![m][i] = [original |-> "good", markdown |-> markdown]]
    /\ UNCHANGED <<chat, folder, draft, step, prompt, mishaps, unsure>>

WriteFails ==
    /\ step = "writing" /\ ~Written(draft.id) /\ Mishap
    /\ step' = "undo"
    /\ UNCHANGED <<chat, folder, file, draft, prompt, unsure>>

\* Slip: the message is stored before its files are.
StoreFirst ==
    /\ step = "writing"
    /\ chat' = Append(chat, draft) /\ step' = "cold"
    /\ UNCHANGED <<folder, file, draft, prompt, mishaps, unsure>>

\* replace_chat with the new message; the files are its own from here on.
Store ==
    /\ step = "writing" /\ Written(draft.id)
    /\ chat' = Append(chat, draft) /\ step' = "cold"
    /\ UNCHANGED <<folder, file, draft, prompt, mishaps, unsure>>

StoreFails ==
    /\ step = "writing" /\ Written(draft.id) /\ Mishap
    /\ step' = "undo"
    /\ \/ UNCHANGED <<chat, unsure>>
       \/ chat' = Append(chat, draft) /\ unsure' = unsure \cup {draft.id}
    /\ UNCHANGED <<folder, file, draft, prompt>>

\* Slip: an error is returned and the files are kept.
UndoNothing ==
    /\ step = "undo" /\ step' = "idle" /\ draft' = NoDraft
    /\ UNCHANGED <<chat, folder, file, prompt, mishaps, unsure>>

\* rollback, or Drop: the directory goes; what two attempts leave is abandoned.
Undo ==
    LET m == draft.id
    IN  /\ step = "undo" /\ step' = "idle" /\ draft' = NoDraft
        /\ \/ /\ folder' = [folder EXCEPT ![m] = "none"]
              /\ file' = [file EXCEPT ![m] = <<>>]
              /\ UNCHANGED mishaps
           \/ folder' = [folder EXCEPT ![m] = "abandoned"] /\ Mishap /\ UNCHANGED file
        /\ UNCHANGED <<chat, prompt, unsure>>

\* A file changes behind the application's back; agents cannot write there.
Tamper(m, i) ==
    /\ folder[m] = "open" /\ i \in DOMAIN file[m] /\ file[m][i].original = "good" /\ Mishap
    /\ \/ file' = [file EXCEPT ![m][i].original = "changed"]
       \/ \E other \in {"none", "changed", "unreadable"} :
            file' = [file EXCEPT ![m][i].markdown = other]
    /\ UNCHANGED <<chat, folder, draft, step, prompt, unsure>>

FilesCrash ==
    /\ step # "idle" /\ Mishap
    /\ step' = "idle" /\ draft' = NoDraft
    /\ folder' = IF step = "cold" \/ draft.attached = <<>> THEN folder
                 ELSE [folder EXCEPT ![draft.id] = "abandoned"]
    /\ UNCHANGED <<chat, file, prompt, unsure>>
-----------------------------------------------------------------------------
\* Bytes of an attachment, and how much of a text a transcript shows.
Size  == [image |-> 2, text |-> 3]
Shown == 1

\* Images that come with the message itself.
Current == Cardinality({i \in DOMAIN draft.attached : draft.attached[i] = "image"})

\* Slip: the images of the message itself are forgotten.
ImageRoomOfHistory(p) ==
    /\ Len(p.images) < MaxImages
    /\ p.restored + Size["image"] <= MaxImageBytes

\* What an image of the history may still take.
ImageRoom(p) ==
    /\ Len(p.images) < MaxImages /\ Len(p.images) + Current < MaxAttached
    /\ p.restored + Size["image"] + Current * Size["image"] <= MaxImageBytes

\* extracted_restore_relative: Markdown is preferred to the file itself.
FromMarkdown(m, i) == i \in DOMAIN file[m] /\ file[m][i].markdown # "none"

\* may_restore.
MayRestore(p, m, i, kind) ==
    /\ p.restored + Shown <= MaxRestored
    /\ kind = "document" => FromMarkdown(m, i)
    /\ kind = "image" => FromMarkdown(m, i) \/ ImageRoom(p)

\* Slip: a file is taken as it is found.
FoundAny(m, i) == i \in DOMAIN file[m] /\ file[m][i].original # "missing"

\* read_chat_attachment_file: length and digest are those that were stored.
FoundExact(m, i) == i \in DOMAIN file[m] /\ file[m][i].original = "good"

\* One attachment: Markdown carries no digest, and is passed over when it cannot
\* be read; a file that is not the one attached fails the turn.
Restore(p, entry, i) ==
    LET m    == entry.id
        kind == entry.attached[i]
        passed == [p |-> p, from |-> "nothing"]
        read == [p EXCEPT !.restored = @ + Size[kind],
                          !.images = IF kind = "image" THEN Append(@, <<m, i>>) ELSE @]
    IN  IF p.failed \/ ~MayRestore(p, m, i, kind) THEN passed
        ELSE IF FromMarkdown(m, i)
        THEN IF file[m][i].markdown = "unreadable" THEN passed
             ELSE [p |-> [p EXCEPT !.restored = @ + Shown], from |-> "markdown"]
        ELSE IF FoundExact(m, i) THEN [p |-> read, from |-> "original"]
        ELSE [p |-> [p EXCEPT !.failed = TRUE], from |-> "nothing"]

\* One message: with what was restored or, when that is too much, without.
Quote(p, entry) ==
    LET n == Len(entry.attached)
        Pass[i \in 0 .. n] ==
            IF i = 0 THEN [p |-> p, shown |-> {}, bytes |-> 1]
            ELSE LET r == Restore(Pass[i - 1].p, entry, i)
                     text == r.from = "markdown" \/ entry.attached[i] # "image"
                     line == [at |-> i, from |-> r.from, image |-> Len(r.p.images),
                              found |-> file[entry.id][i].original]
                 IN  [p |-> r.p,
                      shown |-> Pass[i - 1].shown \cup
                                  (IF r.from = "nothing" THEN {} ELSE {line}),
                      bytes |-> Pass[i - 1].bytes
                                  + (IF r.from # "nothing" /\ text THEN Shown ELSE 0)]
        full  == Pass[n]
        fits  == p.bytes + full.bytes <= MaxContext
        bytes == p.bytes + (IF fits THEN full.bytes ELSE 1)
        line  == [id |-> entry.id, shown |-> IF fits THEN full.shown ELSE {}]
    IN  IF ~p.open \/ p.failed THEN p
        ELSE IF bytes > MaxContext THEN [full.p EXCEPT !.open = FALSE]
             ELSE [full.p EXCEPT !.bytes = bytes, !.kept = <<line>> \o @]

\* Slip: the oldest messages are taken first.
Oldest(k, n) == k

\* The newest first.
Newest(k, n) == n + 1 - k

\* bootstrap_pi_chat_session_from_sqlite, of what came before this message; a
\* message whose metadata alone is too much ends the selection.
Bootstrap ==
    /\ step = "cold" /\ step' = "idle"
    /\ LET n == Len(chat) - 1
           selected == IF n <= MaxContext THEN n ELSE MaxContext
           Fold[k \in 0 .. selected] ==
               IF k = 0 THEN NoPrompt ELSE Quote(Fold[k - 1], chat[Newest(k, n)])
       IN  prompt' = Fold[selected]
    /\ UNCHANGED <<chat, folder, file, draft, mishaps, unsure>>

FilesNext ==
    \/ \E m \in Message, attached \in Attachments : Send(m, attached)
    \/ Write \/ WriteFails \/ Store \/ StoreFails \/ Undo
    \/ \E m \in Message : \E i \in DOMAIN file[m] : Tamper(m, i)
    \/ FilesCrash \/ Bootstrap
-----------------------------------------------------------------------------
\* A message that is stored has all its files, and no other message has any but
\* those that a crash or a failed removal left (attachments.rs:243), unless the
\* store wrote the message and reported an error.
FilesFollowMessages ==
    /\ \A i \in DOMAIN chat : chat[i].attached # <<>> /\ chat[i].id \notin unsure =>
          /\ Len(file[chat[i].id]) = Len(chat[i].attached)
          /\ folder[chat[i].id] = "open" /\ Written(chat[i].id)
    /\ \A m \in Message \ (Stored \cup {draft.id}) : folder[m] # "open"

\* What a cold start quotes is the end of the conversation, in its order and
\* within every budget; each image it refers to is the one it names; and what
\* it takes from an attachment itself, not from the Markdown beside it, is what
\* was attached (attachments.rs:414, 523).
QuotesTheEnd ==
    LET kept == prompt.kept
        back == Len(chat) - 1 - Len(kept)
    IN  step = "idle" /\ draft # NoDraft /\ ~prompt.failed =>
        /\ back >= 0
        /\ \A k \in DOMAIN kept :
            /\ kept[k].id = chat[back + k].id
            /\ \A s \in kept[k].shown : s.from = "original" =>
                /\ s.found = "good"
                /\ chat[back + k].attached[s.at] = "image" =>
                     prompt.images[s.image] = <<kept[k].id, s.at>>
        /\ prompt.bytes <= MaxContext
        /\ Len(prompt.images) + Current <= MaxAttached
        /\ (Len(prompt.images) + Current) * Size["image"] <= MaxImageBytes

\* What a user attached is there for as long as the message is, and what a cold
\* start reads from the file itself is what was attached.
FilesAreKept == FilesFollowMessages /\ QuotesTheEnd
=============================================================================
