----------------------------- MODULE LogStream -----------------------------
(***************************************************************************)
(* A container's log as the engine sends it and as the adapter reads it    *)
(* (runtime/docker-logs.ts and containerLogs of runtime/docker.ts): two    *)
(* streams in frames that split and join lines as they like.  A line is    *)
(* two pieces, the head with the engine's timestamp and the rest, so that  *)
(* a frame may end within it.                                              *)
(***************************************************************************)
EXTENDS Integers, SequencesExt

CONSTANTS MaxLines,   \* bound on the lines of a log
          MaxTime,    \* bound on the engine's timestamps, in milliseconds
          Second,     \* how many of them make a second
          MaxTail,    \* bound on the number of lines asked for
          NotGiven,   \* an option that is not given
          WideChars   \* TRUE when frames may end within a character

ASSUME LogAssumption ==
    /\ MaxLines \in Nat /\ MaxTime \in Nat /\ Second \in Nat \ {0} /\ MaxTail \in Nat
    /\ NotGiven \notin Int
    /\ WideChars \in BOOLEAN

Streams == {"stdout", "stderr"}

Newline == <<0, "newline">>

(* A log: the lines in the order the engine took them, with their times.   *)
Lines == [stream : Streams, time : 1..MaxTime]
Logs == {log \in BoundedSeq(Lines, MaxLines) :
            \A i, j \in DOMAIN log : i < j => log[i].time <= log[j].time}

Options == [since : 1..MaxTime \union {NotGiven}, tail : 0..MaxTail \union {NotGiven}]

(* The elements of S in the order `before`: the k-th has k - 1 before it.  *)
Ranked(S, before(_, _)) ==
    [k \in 1..Cardinality(S) |-> CHOOSE x \in S : Cardinality({y \in S : before(y, x)}) = k - 1]

Ascending(S) == Ranked(S, <)

(* What s has at the given places, in its order. *)
Selected(s, places) == [k \in 1..Cardinality(places) |-> s[Ascending(places)[k]]]

-----------------------------------------------------------------------------
(* What the engine may send for the lines of the given streams.            *)

LineOf(k) == (k + 1) \div 2
Piece(k) == IF k % 2 = 1 THEN <<<<LineOf(k), "head">>>> ELSE <<<<LineOf(k), "rest">>, Newline>>

(* Within a stream nothing changes places; the streams mix as they like.   *)
Orders(streams) ==
    {o \in Injection(1..2 * Len(streams), 1..2 * Len(streams)) :
        \A i, j \in DOMAIN o : i < j /\ streams[LineOf(o[i])] = streams[LineOf(o[j])] => o[i] < o[j]}

(* Frames start at the given places of the order. *)
Framed(streams, o, starts) ==
    LET begins == Ascending(starts)
        past(f) == IF f = Len(begins) THEN Cardinality(DOMAIN o) + 1 ELSE begins[f + 1]
    IN  [f \in DOMAIN begins |->
            [stream |-> streams[LineOf(o[begins[f]])],
             payload |-> FlattenSeq([k \in 1..past(f) - begins[f] |-> Piece(o[begins[f] + k - 1])])]]

Changes(streams, o) ==
    {k \in DOMAIN o : k = 1 \/ streams[LineOf(o[k])] # streams[LineOf(o[k - 1])]}

Framings(streams) ==
    UNION {{Framed(streams, o, starts) :
               starts \in {S \in SUBSET DOMAIN o : Changes(streams, o) \subseteq S}} : o \in Orders(streams)}

(* The log may end without a newline, and the data within its last frame.  *)
Unended(frames) ==
    LET last == Last(frames) IN
    Append(Front(frames), [last EXCEPT !.payload = IF Last(@) = Newline THEN Front(@) ELSE @])

Wires(streams) ==
    LET whole == Framings(streams)
        cuttable == whole \ {<<>>}
    IN  [frames : whole \union {Unended(w) : w \in cuttable}, cut : {FALSE}]
        \union [frames : cuttable, cut : {TRUE}]

-----------------------------------------------------------------------------
(* demuxDockerLogs *)

(* A decoder of its own for each frame cannot join a character's halves.   *)
DecodeFrame(payload) ==
    [t \in DOMAIN payload |->
        IF /\ WideChars
           /\ \/ payload[t][2] = "rest" /\ (t = 1 \/ payload[t - 1][1] # payload[t][1])
              \/ payload[t][2] = "head" /\ t = Len(payload)
        THEN <<payload[t][1], "garbled">>
        ELSE payload[t]]

(* appendText: a newline completes the line its stream's buffer holds.     *)
AppendToken(acc, stream, token) ==
    IF token # Newline THEN [acc EXCEPT !.buffers[stream] = Append(@, token)]
    ELSE IF acc.buffers[stream] = <<>> THEN acc
    ELSE [entries |-> Append(acc.entries, [stream |-> stream, text |-> acc.buffers[stream]]),
          buffers |-> [acc.buffers EXCEPT ![stream] = <<>>]]

AppendText(acc, stream, text) ==
    LET after[t \in 0..Len(text)] == IF t = 0 THEN acc ELSE AppendToken(after[t - 1], stream, text[t])
    IN  after[Len(text)]

Flush(acc) == AppendText(AppendText(acc, "stdout", <<Newline>>), "stderr", <<Newline>>).entries

(* A frame longer than the data that is left ends the loop; with a TTY the *)
(* data has no frames.                                                     *)
Received(wire, tty) == IF wire.cut /\ ~tty THEN Front(wire.frames) ELSE wire.frames

Demux(wire, tty) ==
    LET empty == [entries |-> <<>>, buffers |-> [s \in Streams |-> <<>>]]
        frames == Received(wire, tty)
        after[f \in 0..Len(frames)] ==
            IF f = 0 THEN empty
            ELSE IF tty THEN AppendText(after[f - 1], "stdout", frames[f].payload)
            ELSE AppendText(after[f - 1], frames[f].stream, DecodeFrame(frames[f].payload))
    IN  Flush(after[Len(frames)])

(* What the replies may come to, for every sequence of streams; with a TTY *)
(* there is one stream.                                                    *)
StreamSeqs(tty) == BoundedSeq(IF tty THEN {"stdout"} ELSE Streams, MaxLines)
RepliesTo(tty) ==
    UNION {{[tty |-> tty, streams |-> streams, cut |-> w.cut, entries |-> Demux(w, tty)] :
               w \in Wires(streams)} : streams \in StreamSeqs(tty)}

Replies == RepliesTo(FALSE) \union RepliesTo(TRUE)

(* parseLine: the time is the head's; a line without one has no time.      *)
TimeOf(sent, entry) == IF entry.text[1][2] = "rest" THEN 0 ELSE sent[entry.text[1][1]].time

(* A stable sort by time. *)
SortByTime(sent, entries) ==
    LET before(i, j) == \/ TimeOf(sent, entries[i]) < TimeOf(sent, entries[j])
                        \/ TimeOf(sent, entries[i]) = TimeOf(sent, entries[j]) /\ i < j
        order == Ranked(DOMAIN entries, before)
    IN  [i \in DOMAIN entries |-> entries[order[i]]]

(* filterLogs: first since, then tail. *)
LastOf(s, n) == SubSeq(s, IF Len(s) > n THEN Len(s) - n + 1 ELSE 1, Len(s))

FilterLogs(sent, entries, options) ==
    LET recent == Selected(entries, {i \in DOMAIN entries :
                                        options.since = NotGiven \/ TimeOf(sent, entries[i]) >= options.since})
    IN  IF options.tail = NotGiven THEN recent ELSE LastOf(recent, options.tail)

-----------------------------------------------------------------------------
(* containerLogs: the engine knows whole seconds only, and its tail would  *)
(* come before the milliseconds; so it is asked for one or the other.      *)
SlipRoundUp(ms) == ((ms + Second - 1) \div Second) * Second
ToSecond(ms) == (ms \div Second) * Second

EngineSends(log, options) ==
    IF options.since # NotGiven
    THEN Selected(log, {i \in DOMAIN log : log[i].time >= ToSecond(options.since)})
    ELSE IF options.tail # NotGiven THEN LastOf(log, options.tail) ELSE log

StreamsOf(log, tty) == [i \in DOMAIN log |-> IF tty THEN "stdout" ELSE log[i].stream]

ReadLogs(sent, options, reply) ==
    FilterLogs(sent, SortByTime(sent, reply.entries), options)

-----------------------------------------------------------------------------
(* What the caller is promised of out, read from log with options.         *)

(* Every entry is a line, or the beginning of one that was not sent whole, *)
(* with its own stream and time; none comes twice; they come oldest first, *)
(* and those of a stream in the order they were written.  line[i] is the   *)
(* line of the log that out[i] is about.                                   *)
Sound(log, options, out, line, tty) ==
    /\ \A i \in DOMAIN out :
           /\ \A t \in DOMAIN out[i].text : out[i].text[t] = <<out[i].text[1][1], <<"head", "rest">>[t]>>
           /\ line[i] \in DOMAIN log
           /\ out[i].stream = IF tty THEN "stdout" ELSE log[line[i]].stream
           /\ options.since # NotGiven => log[line[i]].time >= options.since
    /\ \A i, j \in DOMAIN out : i < j =>
           /\ line[i] # line[j]
           /\ log[line[i]].time <= log[line[j]].time
           /\ out[i].stream = out[j].stream => line[i] < line[j]

(* All that was asked for is there, whole: every line since then, or as    *)
(* many of the last of them as wanted.                                     *)
Complete(log, options, out, line) ==
    LET wanted == {i \in DOMAIN log : options.since = NotGiven \/ log[i].time >= options.since}
        returned == {line[i] : i \in DOMAIN out}
        n == Cardinality(wanted)
    IN  /\ \A i \in DOMAIN out : Len(out[i].text) = 2
        /\ returned \subseteq wanted
        /\ Cardinality(returned) = IF options.tail # NotGiven /\ options.tail < n THEN options.tail ELSE n
        /\ \A i \in wanted \ returned, j \in returned : log[i].time <= log[j].time

ReadRight(tty) ==
    \A log \in Logs, options \in Options :
        LET sent == EngineSends(log, options) IN
        \A reply \in {r \in Replies : r.tty = tty /\ r.streams = StreamsOf(sent, tty)} :
            LET out  == ReadLogs(sent, options, reply)
                line == [i \in DOMAIN out |-> out[i].text[1][1] + Len(log) - Len(sent)]
            IN  /\ Sound(log, options, out, line, tty)
                /\ ~reply.cut => Complete(log, options, out, line)

(* Evaluated once. *)
FramesReadRight == ReadRight(FALSE)
TtyReadRight    == ReadRight(TRUE)
=============================================================================
