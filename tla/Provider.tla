------------------------------ MODULE Provider ------------------------------
(***************************************************************************)
(* Calls of a model provider by the gateway (internal/provider): a call    *)
(* for a whole answer (Send), one for a stream (SendStream) whose lines a  *)
(* caller reads chunk by chunk (sseReader), and the repair of an invalid   *)
(* output (internal/schema/repairer.go), which is a call for an answer.    *)
(*                                                                         *)
(* One call at a time: calls share only the HTTP client and the registry,  *)
(* which they read.  A line is a chunk, "[DONE]", a data line that is no   *)
(* chunk, one that is no data line, or one longer than the scanner takes.  *)
(* The network delivers lines one at a time and may break at any point,    *)
(* the cancellation of the call's context included.                        *)
(* MaxLines bounds the lines of a stream.                                  *)
(***************************************************************************)
EXTENDS Naturals, FiniteSets, Sequences

CONSTANTS Chunks, ProviderTypes, KeysEnc, NoKey, MaxLines

ASSUME ChunksAssumption == Chunks \cap {"done", "malformed", "other", "toolong"} = {}

Line == Chunks \cup {"done", "malformed", "other", "toolong"}

Registered == {"openrouter", "ollama", "openai_compatible"}

VARIABLES callee, want,   \* the type of provider, and "answer", "stream" or "repair"
          bearer,         \* the key the call is made with
          pvStage,        \* "idle", "asked", "reading", "returned"
          body,           \* the response's body: "none", "open", "closed"
          lines,          \* the lines delivered, in order
          next,           \* how many of them the scanner has taken
          wire,           \* the connection: "up", "ended", "broken"
          got,            \* chunks the reader has returned
          end,            \* how it first said there are no more: "none", "eof", "error"
          result          \* of a call: "none", "error", "answer"

pvvars == <<callee, want, bearer, pvStage, body, lines, next, wire, got, end, result>>

PvInit ==
  /\ callee \in ProviderTypes /\ want = "answer" /\ bearer = NoKey
  /\ pvStage = "idle" /\ body = "none" /\ lines = <<>> /\ next = 0 /\ wire = "up"
  /\ got = <<>> /\ end = "none" /\ result = "none"

Under(s) == pvStage = s /\ UNCHANGED <<callee, want, bearer>>

\* Ollama is given a key when there is none.
KeyFor(p, key) == IF p = "ollama" /\ key = NoKey THEN "ollama" ELSE key

Ask(w, p, key) ==
  /\ pvStage \in {"idle", "returned"} /\ body # "open"
  /\ callee' = p /\ want' = w /\ bearer' = KeyFor(p, key)
  /\ pvStage' = "asked" /\ body' = "none"
  /\ lines' = <<>> /\ next' = 0 /\ wire' = "up" /\ got' = <<>> /\ end' = "none" /\ result' = "none"

Send(p, key) == p \in Registered /\ Ask("answer", p, key)

SendStream(p, key) == p \in Registered /\ Ask("stream", p, key)

\* The key goes out as it is stored, which is encrypted.
Repair(p, key) == p \in Registered /\ Ask("repair", p, key)

UnknownProvider(p) ==
  /\ pvStage \in {"idle", "returned"} /\ body # "open" /\ p \notin Registered
  /\ callee' = p /\ want' = "repair" /\ bearer' = NoKey /\ pvStage' = "returned" /\ result' = "error"
  /\ body' = "none" /\ lines' = <<>> /\ next' = 0 /\ wire' = "up" /\ got' = <<>> /\ end' = "none"

\* The request does not get through.
NoResponse ==
  /\ Under("asked") /\ body = "none"
  /\ pvStage' = "returned" /\ result' = "error"
  /\ UNCHANGED <<body, lines, next, wire, got, end>>

\* The headers arrive.  An answer that is no success is read and dropped.
Respond(ok) ==
  /\ Under("asked") /\ body = "none"
  /\ IF ok THEN /\ pvStage' = IF want = "stream" THEN "reading" ELSE "asked"
                /\ body' = "open" /\ UNCHANGED result
           ELSE pvStage' = "returned" /\ body' = "closed" /\ result' = "error"
  /\ UNCHANGED <<lines, next, wire, got, end>>

\* The body of an answer decodes or not; a repair needs a text in its first choice.
Decode(whole, text) ==
  /\ Under("asked") /\ body = "open"
  /\ pvStage' = "returned" /\ body' = "closed"
  /\ result' = IF whole /\ (want = "repair" => text) THEN "answer" ELSE "error"
  /\ UNCHANGED <<lines, next, wire, got, end>>

-----------------------------------------------------------------------------
Deliver(l) ==
  /\ Under("reading") /\ wire = "up" /\ Len(lines) < MaxLines
  /\ lines' = Append(lines, l)
  /\ UNCHANGED <<pvStage, body, next, wire, got, end, result>>

HangUp(w) ==
  /\ Under("reading") /\ wire = "up"
  /\ wire' = w
  /\ UNCHANGED <<pvStage, body, lines, next, got, end, result>>

\* The lines the scan passes over.
Skipped(l) == l \in {"other", "malformed"}

\* What the scan comes to after the lines taken: the number of a line, or one past the last.
StopsAt(at) ==
  /\ \A i \in next + 1 .. at - 1 : Skipped(lines[i])
  /\ at <= Len(lines) => ~Skipped(lines[at])

\* Mutant: the scanner's error is not asked for.
AtEndUnchecked == "eof"

\* When the scanner has no more lines.
AtEnd == IF wire = "broken" THEN "error" ELSE "eof"

\* There are no more chunks, and the reader says why unless it has done so before.
EndsWith(how) == end' = (IF end = "none" THEN how ELSE end) /\ UNCHANGED got

\* Next.  It waits while the lines delivered are used up and the connection is up.
\* The scanner stops for good at a line that is too long.
NextChunk ==
  /\ Under("reading")
  /\ \E at \in next + 1 .. Len(lines) + 1 :
       /\ StopsAt(at)
       /\ \/ /\ at > Len(lines) /\ wire # "up"
             /\ next' = Len(lines) /\ UNCHANGED wire
             /\ EndsWith(AtEnd)
          \/ /\ at <= Len(lines) /\ lines[at] = "toolong"
             /\ next' = Len(lines) /\ wire' = "broken" /\ EndsWith("error")
          \/ /\ at <= Len(lines) /\ lines[at] = "done"
             /\ next' = at /\ UNCHANGED wire /\ EndsWith("eof")
          \/ /\ at <= Len(lines) /\ lines[at] \in Chunks
             /\ next' = at /\ UNCHANGED <<wire, end>>
             /\ got' = IF end = "none" THEN Append(got, lines[at]) ELSE got
  /\ UNCHANGED <<pvStage, body, lines, result>>

CloseReader ==
  /\ Under("reading")
  /\ pvStage' = "returned" /\ body' = "closed"
  /\ UNCHANGED <<lines, next, wire, got, end, result>>

PvNext ==
  \/ \E p \in ProviderTypes, key \in KeysEnc \cup {NoKey} :
       Send(p, key) \/ SendStream(p, key) \/ Repair(p, key)
  \/ \E p \in ProviderTypes : UnknownProvider(p)
  \/ NoResponse
  \/ \E b \in BOOLEAN : Respond(b)
  \/ \E whole, text \in BOOLEAN : Decode(whole, text)
  \/ \E l \in Line : Deliver(l)
  \/ HangUp("ended") \/ HangUp("broken")
  \/ NextChunk \/ CloseReader

PvSpec == PvInit /\ [][PvNext]_pvvars

-----------------------------------------------------------------------------
\* The chunks among the first n lines.
Sent(n) == {i \in 1 .. n : lines[i] \in Chunks}

(***************************************************************************)
(* A reader returns the chunks sent before the end of the stream, all of   *)
(* them and in their order, whatever comes between them; it says "eof"     *)
(* only when the provider ended the stream, never when the connection      *)
(* broke; and no call returns with its response's body open.               *)
(***************************************************************************)
StreamFaithful ==
  LET wanted == {i \in Sent(Len(lines)) : \A j \in 1 .. i : lines[j] \notin {"done", "toolong"}}
      place  == [i \in wanted |-> Cardinality(Sent(i))]
  IN  /\ Len(got) <= Cardinality(wanted)
      /\ end # "none" => Len(got) = Cardinality(wanted)
      /\ \A i \in wanted : place[i] <= Len(got) => got[place[i]] = lines[i]
      /\ end = "eof" => wire = "ended" \/ \E i \in 1 .. Len(lines) : lines[i] = "done"
      /\ end = "error" => wire = "broken"
      /\ pvStage = "returned" => body # "open"
=============================================================================
