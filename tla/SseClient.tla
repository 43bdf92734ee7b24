----------------------------- MODULE SseClient -----------------------------
(***************************************************************************)
(* A stream all the way to the reader: what StreamSession's consumer       *)
(* receives, _sse_events (tinyserve/api/app.py) writes as an event, the    *)
(* connection delivers in chunks of any size, and the demo page            *)
(* (tinyserve/api/static/demo.html, streamOne and parseFrame) cuts into    *)
(* frames again.                                                           *)
(*                                                                         *)
(* A token is here the sequence of its characters, "space" and "newline"   *)
(* among them; "data:" stands for the five characters of the field name.   *)
(* Text the decoder held back travels in an event per token.               *)
(***************************************************************************)
EXTENDS StreamSession

VARIABLES
    wire,   \* characters written and not yet delivered
    buf,    \* streamOne's buf
    page,   \* "reading": awaits read(), "parsing" frames, "done", "interrupted"
    shown   \* card.text

pagevars == <<buf, page, shown>>
allvars == <<sessionvars, wire, pagevars>>

PageInit ==
    /\ SessionInit
    /\ wire = [r \in Streaming |-> <<>>]
    /\ buf = [r \in Streaming |-> <<>>]
    /\ page = [r \in Streaming |-> "reading"]
    /\ shown = [r \in Streaming |-> <<>>]

(* f"data: {text}\n\n"                                                     *)
Event(text) == <<"data:", "space">> \o text \o <<"newline", "newline">>

(* _sse_events yields an event for each text it passes on.                 *)
Yielded ==
    wire' = [r \in Streaming |->
                IF received'[r] = received[r] THEN wire[r]
                ELSE wire[r] \o Event(Last(received'[r]))]

Session == SessionNext /\ Yielded /\ UNCHANGED pagevars
-----------------------------------------------------------------------------
(* Mutant: each chunk is taken for itself.                                 *)
DeliverFresh(r, n) ==
    /\ page[r] = "reading"
    /\ buf' = [buf EXCEPT ![r] = SubSeq(wire[r], 1, n)]
    /\ wire' = [wire EXCEPT ![r] = SubSeq(@, n + 1, Len(@))]
    /\ page' = [page EXCEPT ![r] = "parsing"]
    /\ UNCHANGED <<sessionvars, shown>>

(* reader.read() returns the next n characters.                            *)
Deliver(r, n) ==
    /\ page[r] = "reading"
    /\ buf' = [buf EXCEPT ![r] = @ \o SubSeq(wire[r], 1, n)]
    /\ wire' = [wire EXCEPT ![r] = SubSeq(@, n + 1, Len(@))]
    /\ page' = [page EXCEPT ![r] = "parsing"]
    /\ UNCHANGED <<sessionvars, shown>>

(* reader.read() returns done: the response has ended.                     *)
EndOfBody(r) ==
    /\ page[r] = "reading" /\ wire[r] = <<>> /\ consumer[r] = "done"
    /\ page' = [page EXCEPT ![r] = "done"]
    /\ UNCHANGED <<sessionvars, wire, buf, shown>>

(* reader.read() rejects: the connection is gone.                          *)
Interrupted(r) ==
    /\ page[r] = "reading" /\ r \in disconnected
    /\ page' = [page EXCEPT ![r] = "interrupted"]
    /\ UNCHANGED <<sessionvars, wire, buf, shown>>

(* The ends of frames: positions of an empty line in s.                    *)
Breaks(s) == {i \in 1..(Len(s) - 1) : s[i] = "newline" /\ s[i + 1] = "newline"}

(* Where the line of position k begins.                                    *)
LineStart(raw, k) == Max({j \in 1..k : j = 1 \/ raw[j - 1] = "newline"})

(* Mutant: every space after the field name is dropped.                    *)
TrimFrame(raw) ==
    LET Kept(k) == LET start == LineStart(raw, k) IN
            /\ raw[k] # "newline" /\ raw[start] = "data:" /\ k > start
            /\ \E j \in (start + 1)..k : raw[j] # "space"
        kept == SetToSortSeq({k \in DOMAIN raw : Kept(k)}, <)
    IN [i \in DOMAIN kept |-> raw[kept[i]]]

(* The lines that start with "data:", without it and one space after it.   *)
parseFrame(raw) ==
    LET Kept(k) == LET start == LineStart(raw, k) IN
            /\ raw[k] # "newline" /\ raw[start] = "data:" /\ k > start
            /\ ~(k = start + 1 /\ raw[k] = "space")
        kept == SetToSortSeq({k \in DOMAIN raw : Kept(k)}, <)
    IN [i \in DOMAIN kept |-> raw[kept[i]]]

(* The inner loop of streamOne: one complete frame, or back to read().     *)
TakeFrame(r) ==
    /\ page[r] = "parsing"
    /\ IF Breaks(buf[r]) = {}
       THEN page' = [page EXCEPT ![r] = "reading"] /\ UNCHANGED <<buf, shown>>
       ELSE LET i == Min(Breaks(buf[r])) IN
            /\ shown' = [shown EXCEPT ![r] = @ \o parseFrame(SubSeq(buf[r], 1, i - 1))]
            /\ buf' = [buf EXCEPT ![r] = SubSeq(@, i + 2, Len(@))]
            /\ UNCHANGED page
    /\ UNCHANGED <<sessionvars, wire>>

Page(r) ==
    \/ \E n \in 1..Len(wire[r]) : Deliver(r, n)
    \/ EndOfBody(r) \/ Interrupted(r) \/ TakeFrame(r)

PageNext == Session \/ \E r \in Streaming : Page(r)

(* A handler, or a page, that can run does run.                            *)
PageSpec ==
    /\ PageInit /\ [][PageNext]_allvars
    /\ \A r \in Requests : WF_allvars(Reader(r) /\ Yielded /\ UNCHANGED pagevars)
    /\ \A r \in Streaming : WF_allvars(Page(r))
-----------------------------------------------------------------------------
(* Tokens as they come: "stripping both would run every word together"     *)
(* (demo.html:273).  Whatever the decoder holds back and however the       *)
(* connection cuts the stream up, the page shows the beginning of what was *)
(* generated, character by character.                                      *)
ShowsPrefix == \A r \in Streaming : IsPrefix(shown[r], FlattenSeq(pushed[r]))

(* "Close means complete" (demo.html:334): a collecting handler that read  *)
(* to the end returns everything that was generated, what the decoder held *)
(* until close() included, and a page that saw the response end shows it.  *)
CloseMeansComplete ==
    /\ ReadToTheEnd
    /\ \A r \in Streaming : page[r] = "done" => shown[r] = FlattenSeq(pushed[r])

(* Once the loop has closed the stream, its reader comes to an end, the    *)
(* handler and behind it the page: close() leaves behind everything they   *)
(* need in order to stop.                                                  *)
ReaderEnds ==
    \A r \in Requests :
        producer[r] = "closed" ~>
            /\ consumer[r] \in {"done", "gone"}
            /\ r \in Streaming => page[r] \in {"done", "interrupted"}
=============================================================================
