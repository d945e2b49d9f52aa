---------------------------- MODULE PublishPage ----------------------------
(***************************************************************************)
(* pages/publish.tsx with publish-preview.tsx and history-list.tsx, the    *)
(* header's poll and the draft store they share, over the server's         *)
(* handlers of /api/publish (in full in Publish; here the draft and the    *)
(* running configuration are contents, and a request executes at once).    *)
(* What fetches a preview, a validation or the history reads it when it is *)
(* answered; that the status may be old by then is what this is about.     *)
(***************************************************************************)
EXTENDS Naturals, Sequences, FiniteSets

CONSTANTS
    MaxContent,     \* contents are 1..MaxContent, a new one for every edit
    Invalid,        \* those the validator rejects
    MaxRecords,     \* bound: publish records
    MaxWrites,      \* bound: writing requests under way
    MaxFaults       \* bound: requests that fail in the client

ASSUME PublishPageAssumption == MaxContent \in Nat \ {0} /\ MaxRecords \in Nat

VARIABLES
    draft, running, \* server: what would be rendered, and the config file
    newest,         \* contents used so far
    records,        \* server: history, [content, ok], oldest first
    hasChanges,     \* draft store
    mounted,        \* whether the publish page is shown
    preview,        \* whether the page has a preview
    validation,     \* "null", "valid" or "invalid"
    history,        \* how many records the page knows
    busy,           \* what loads, and the buttons that wait
    confirming,     \* the rollback dialog
    asked,          \* requests for the status: [st, ans]
    writes,         \* publish, rollback and discard: [op, st, ok], and whether the page
                    \* (own) and the component (live) that sent it are still shown
    faults

pageState == <<mounted, preview, validation, history, busy, confirming>>
serverState == <<draft, running, newest, records>>
publishVars == <<serverState, hasChanges, pageState, asked, writes, faults>>

Success(n) == {i \in 1..n : records[i].ok}
LastSuccess == CHOOSE i \in Success(Len(records)) : \A j \in Success(Len(records)) : j <= i

PublishPageInit ==
    /\ draft = 1 /\ running = 1 /\ newest = 1 /\ records = << >>
    /\ hasChanges = FALSE /\ asked = {} /\ writes = {} /\ faults = 0
    /\ mounted = FALSE /\ preview = FALSE /\ validation = "null"
    /\ history = 0 /\ busy = {} /\ confirming = FALSE

Fault == faults < MaxFaults /\ faults' = faults + 1

-----------------------------------------------------------------------------
(* The server. *)

(* Another page edits the draft, or someone the file.                      *)
Edited ==
    /\ newest < MaxContent /\ newest' = newest + 1
    /\ \/ draft' = newest' /\ UNCHANGED running
       \/ running' = newest' /\ UNCHANGED draft
    /\ UNCHANGED <<records, hasChanges, pageState, asked, writes, faults>>

Status(ans) == [st |-> "done", ans |-> ans]

ServeStatus ==
    /\ [st |-> "sent", ans |-> FALSE] \in asked
    /\ asked' = (asked \ {[st |-> "sent", ans |-> FALSE]}) \cup {Status(draft # running)}
    /\ UNCHANGED <<serverState, hasChanges, pageState, writes, faults>>

Recorded(content, ok) ==
    /\ Len(records) < MaxRecords
    /\ records' = Append(records, [content |-> content, ok |-> ok])
    /\ running' = IF ok THEN content ELSE running
    /\ UNCHANGED <<draft, newest>>

(* A discard takes the file into the draft and writes it back as rendered, *)
(* which may be another text.                                              *)
Rewritten ==
    \E again \in {running} \cup (IF newest < MaxContent THEN {newest + 1} ELSE {}) :
        /\ draft' = again /\ running' = again
        /\ newest' = IF again = running THEN newest ELSE again

Executes(op, ok) ==
    \/ op = "publish" /\ draft \notin Invalid /\ Recorded(draft, ok)
    \/ op = "rollback" /\ Success(Len(records)) # {} /\ Recorded(records[LastSuccess].content, ok)
    \/ op = "discard" /\ ok /\ Rewritten /\ UNCHANGED records

(* With 422, or 500 for a rollback to nothing; the bound refuses too.      *)
Refuses(op) ==
    /\ \/ op \in {"publish", "rollback"} /\ Len(records) = MaxRecords
       \/ op = "publish" /\ draft \in Invalid
       \/ op = "rollback" /\ Success(Len(records)) = {}
    /\ UNCHANGED serverState

ServeWrite ==
    /\ \E w \in writes :
          /\ w.st = "sent"
          /\ \/ \E ok \in BOOLEAN : /\ Executes(w.op, ok)
                                    /\ writes' = (writes \ {w}) \cup {[w EXCEPT !.st = "done", !.ok = ok]}
             \/ Refuses(w.op) /\ writes' = (writes \ {w}) \cup {[w EXCEPT !.st = "refused"]}
    /\ UNCHANGED <<hasChanges, pageState, asked, faults>>

-----------------------------------------------------------------------------
(* The status, asked for by the header's interval and by the page. *)

AskStatus == asked' = asked \cup {[st |-> "sent", ans |-> FALSE]}

(* As Poll without the interval: the status is asked for at the start.     *)
PollOnce == newest = 1 /\ AskStatus /\ UNCHANGED <<serverState, hasChanges, pageState, writes, faults>>

Poll == AskStatus /\ UNCHANGED <<serverState, hasChanges, pageState, writes, faults>>

(* The flags of the preview's component are gone once it is unmounted.     *)
PreviewFlags == {"validate", "publish", "discard"}

(* The components that send ops are unmounted: answers do nothing to them. *)
Gone(ops, W) == {[w EXCEPT !.live = @ /\ w.op \notin ops] : w \in W}

(* The effect on [hasChanges]: a preview is fetched, or dropped.  Either   *)
(* way the component is not shown for now.                                 *)
StatusAnswered(v) ==
    /\ Status(v) \in asked /\ asked' = asked \ {Status(v)}
    /\ hasChanges' = v
    /\ IF mounted /\ v # hasChanges
       THEN /\ busy' = (busy \ PreviewFlags) \cup (IF v THEN {"preview"} ELSE {})
            /\ validation' = "null" /\ preview' = (preview /\ v)
            /\ writes' = Gone(PreviewFlags, writes)
       ELSE UNCHANGED <<busy, validation, preview, writes>>
    /\ UNCHANGED <<serverState, mounted, history, confirming, faults>>

StatusLost ==
    /\ \E a \in asked : asked' = asked \ {a}
    /\ Fault
    /\ UNCHANGED <<serverState, hasChanges, pageState, writes>>

-----------------------------------------------------------------------------
(* The page. *)

Mount ==
    /\ ~mounted /\ mounted' = TRUE
    /\ busy' = {"history"} \cup (IF hasChanges THEN {"preview"} ELSE {})
    /\ AskStatus
    /\ UNCHANGED <<serverState, hasChanges, preview, validation, history, confirming, writes, faults>>

(* The answers to what an unmounted page sent change the store only.       *)
Unmount ==
    /\ mounted /\ mounted' = FALSE
    /\ preview' = FALSE /\ validation' = "null" /\ history' = 0 /\ busy' = {} /\ confirming' = FALSE
    /\ writes' = {[w EXCEPT !.own = FALSE, !.live = FALSE] : w \in writes}
    /\ UNCHANGED <<serverState, hasChanges, asked, faults>>

(* An answer changes what the page has; a failure ends the waiting only.   *)
Fetched(what, ok) ==
    /\ what \in busy /\ busy' = busy \ {what}
    /\ IF ok THEN UNCHANGED faults ELSE Fault
    /\ UNCHANGED <<serverState, hasChanges, mounted, confirming, asked, writes>>

PreviewFetched == \E ok \in BOOLEAN : Fetched("preview", ok) /\ preview' = (preview \/ ok)
                                      /\ UNCHANGED <<validation, history>>
HistoryFetched == \E ok \in BOOLEAN : Fetched("history", ok) /\ history' = (IF ok THEN Len(records) ELSE history)
                                      /\ UNCHANGED <<validation, preview>>
Validated == \E ok \in BOOLEAN :
    /\ Fetched("validate", ok)
    /\ validation' = IF ~ok THEN validation ELSE IF draft \in Invalid THEN "invalid" ELSE "valid"
    /\ UNCHANGED <<preview, history>>

PreviewShown == mounted /\ hasChanges /\ "preview" \notin busy /\ preview

Click(op) ==
    /\ op \notin busy /\ busy' = busy \cup {op}
    /\ op = "validate" \/ Cardinality(writes) < MaxWrites
    /\ writes' = IF op = "validate" THEN writes
                 ELSE writes \cup {[op |-> op, st |-> "sent", ok |-> FALSE, own |-> TRUE, live |-> TRUE]}
    /\ UNCHANGED <<serverState, hasChanges, mounted, preview, validation, history, asked, faults>>

ValidateClick == PreviewShown /\ Click("validate") /\ UNCHANGED confirming
PublishClick  == PreviewShown /\ validation = "valid" /\ Click("publish") /\ UNCHANGED confirming
DiscardClick  == PreviewShown /\ Click("discard") /\ UNCHANGED confirming

(* The button of an older success opens the dialog; it names no version.   *)
RollbackClick ==
    /\ mounted /\ "history" \notin busy /\ ~confirming
    /\ Cardinality(Success(history)) > 1
    /\ confirming' = TRUE
    /\ UNCHANGED <<serverState, hasChanges, mounted, preview, validation, history, busy, asked, writes, faults>>
RollbackConfirm == confirming /\ confirming' = FALSE /\ Click("rollback")

WriteAnswered(w, unmounts) ==
    /\ w.st = "done" /\ AskStatus /\ UNCHANGED faults
    /\ writes' = IF w.own THEN Gone(unmounts, writes \ {w}) ELSE writes \ {w}
WriteFailed(w) ==
    /\ writes' = writes \ {w} /\ UNCHANGED asked
    /\ IF w.st = "refused" THEN UNCHANGED faults ELSE Fault
    /\ busy' = IF w.live THEN busy \ {w.op} ELSE busy

(* While the history loads its list, and the dialog in it, is unmounted.   *)
(* A publish that is recorded as failed leaves the validation as it was.   *)
PublishedOrRolledBack ==
    /\ \E w \in writes :
          /\ w.op \in {"publish", "rollback"}
          /\ \/ /\ WriteAnswered(w, {"rollback"}) /\ w.own
                /\ busy' = (busy \ ({"rollback"} \cup {op \in {w.op} : w.live})) \cup {"history"}
                /\ confirming' = FALSE
                /\ validation' = IF w.op = "publish" /\ w.ok /\ w.live THEN "null" ELSE validation
             \/ WriteAnswered(w, {}) /\ ~w.own /\ UNCHANGED <<busy, confirming, validation>>
             \/ WriteFailed(w) /\ UNCHANGED <<confirming, validation>>
    /\ UNCHANGED <<serverState, hasChanges, mounted, preview, history>>

Discarded ==
    /\ \E w \in writes :
          /\ w.op = "discard"
          /\ \/ /\ WriteAnswered(w, PreviewFlags) /\ w.own
                /\ busy' = (busy \ PreviewFlags) \cup {"preview"} /\ validation' = "null"
             \/ WriteAnswered(w, {}) /\ ~w.own /\ UNCHANGED <<busy, validation>>
             \/ WriteFailed(w) /\ UNCHANGED validation
    /\ UNCHANGED <<serverState, hasChanges, mounted, preview, history, confirming>>

-----------------------------------------------------------------------------
PublishPageNext ==
    \/ Edited \/ ServeStatus \/ ServeWrite
    \/ Poll \/ StatusLost \/ \E v \in BOOLEAN : StatusAnswered(v)
    \/ Mount \/ Unmount \/ PreviewFetched \/ HistoryFetched \/ Validated
    \/ ValidateClick \/ PublishClick \/ DiscardClick \/ RollbackClick \/ RollbackConfirm
    \/ PublishedOrRolledBack \/ Discarded

-----------------------------------------------------------------------------
PublishPageTypeOK ==
    /\ {draft, running, newest} \subseteq 1..MaxContent
    /\ records \in Seq([content : 1..MaxContent, ok : BOOLEAN]) /\ Len(records) <= MaxRecords
    /\ validation \in {"null", "valid", "invalid"} /\ history \in 0..MaxRecords
    /\ busy \subseteq {"preview", "history", "validate", "publish", "discard", "rollback"}
    /\ asked \subseteq [st : {"sent", "done"}, ans : BOOLEAN]
    /\ {hasChanges, mounted, preview, confirming} \subseteq BOOLEAN

(* Once nobody changes the draft or the file any more the "changes         *)
(* pending" badge, and with it the publish page, says the truth and stays  *)
(* so, whichever old answers arrive late and whatever the page did.        *)
BadgeConverges == <>[](hasChanges <=> draft # running)
=============================================================================
