# Verification of `event-udp-to-kafka`

TLA+ models of the program in `src/`, checked with TLC on small instances and,
where that is possible, proved with TLAPS for every value of the constants.

## The system

One thread (`udp_process`, `lib.rs`) reads UDP datagrams from a socket, splits
each into the messages a neutron-detector board packed into it, converts those
to flatbuffers messages and hands them to a Kafka producer. librdkafka sends
them from threads of its own; a Prometheus exporter reads the counters.

| Component | State it keeps | Operations | What makes it correct |
|---|---|---|---|
| View of a message (`udp_message.rs`) | none: a borrowed slice | `new`, accessors, `data_bytes`, `board_specific_parameters` | a view is returned for whole messages only; its slices are in bounds |
| Splitting (`packet_to_frames`, `udp_process`) | the reused receive buffer, `offset`, the list of views | `recv_from`, one iteration of the loop, its five ends | frames tile the datagram; nothing stale, nothing readable left; always ends |
| Conversion (`process_udp_bytes_to_kafka`, `process_neutron_frame`) | the frame in hand, the flatbuffer builder, counters | one step per call of the sink, per counter, per early return | each frame's messages depend on that frame alone; failures are counted; vetoes are always sent |
| Packet format 1 (`packet_format_1.rs`, `bit_utils.rs`, `event_data.rs`) | none | `parse_raw_data` | time of flight and pixel id are what the words encode; all or nothing |
| GPS time (`gps_time.rs`) | none | `nanoseconds_since_epoch` | distinct valid times stay distinct and in order |
| Producer (`make_producer`, the sink of `udp_process`) | librdkafka's bounded queue, delivery threads | `send` | every message is enqueued or counted; reading never waits for Kafka |
| Metrics (`metrics.rs`) | counters | `increment`, scraping | agree with what was sent |
| Configuration, `main.rs` | constants after start | | |

They interact by calls on the one thread. Shared between threads are only the
producer's queue and the counters. The hard behaviours are: a buffer that is
reused, lengths read from the network that steer the loop, frames that fail
half way (a `pu00` is out, its `ev44` never comes), a panic in the middle of a
datagram, arithmetic at the limits of `u32` and `i32`, and a producer queue that
fills up, and a process that may end with messages in it. `PROJECT.json` lists
each hazard at its line.

## The modules

    UdpMessage --- PacketToFrames --- DataProcessing ==> Relay --- UdpToKafka
         \                             /                   /
          +------ FrameConversion ----+------------------+

    PacketFormat1 --- PowersOfTwo --- GpsTime

`---` is EXTENDS, `==>` implements. The last line stands alone: these are functions
of the code that the others see as one step each. `PowersOfTwo` has the one
operator that shifts, masks and word sizes are made of.

* **`UdpMessage`** - `UdpMessageView::new` with its early returns in their order,
  and the bounds of the two slices. Lengths count 32-bit words, as the header
  does. The bytes of a header are abstracted to a record of what the accessors
  return; a datagram is a sequence of words, each the header that starts there.
  `WholeMessageAt` says independently of the code what a whole message is.
* **`PacketToFrames`** - the loop over datagrams. `udp_buf` is the vector that
  `udp_process` allocates once: `RecvFrom` overwrites its front and leaves the
  rest; `received` is `number_of_bytes`. `PushFrame`, `BreakAtPadding`,
  `BreakTooShort`, `BreakTooLong` and `EndOfContent` are the arms of the match
  and the end of the `while`. `Return` stands for the whole conversion. The
  history variable `sent` is the datagram as its sender made it, before the
  buffer cut it.
* **`FrameConversion`** - what one frame becomes: `PacketType`, the two messages
  `Pu00` and `Ev44`, and when the decoder accepts (`ParseOk`), gets as far as
  the events (`ReachesEvents`) or panics (`ParsePanics`). `Owed` and `Fatal` are
  reference definitions for a whole datagram, by recursion on where messages
  start, with no loop, buffer or counter. What stops the process is said there
  of the header alone (`HeaderFits`), not of the bounds of the code's slices.
* **`DataProcessing`** - extends both: the `for` loop over the frames. `pc` gets
  the locations inside `process_neutron_frame`: `neutron` (time check), `pu00`,
  `parse`, `ev44`, and `error` for the `Err` arm. Every counter the code
  increments is a variable. The sink is the history variable `out`, `extracted`
  is the history of all frames. `Panic` is a step of its own: the process is
  gone, with whatever it had already sent.
* **`Relay`** - the abstract specification: a datagram owes a list of messages
  that depends only on its content, its sender and the buffer size; they are
  delivered one by one in order; a fatal datagram ends the process after what it
  owes up to there. `DataProcessing` implements it (`RelayKept`) under the
  mapping of `Promise`: what is owed is the reference list without what has gone
  out for the datagram in hand.
* **`UdpToKafka`** - the running program. The thread is `Relay`, whose `Deliver` is
  now a call of `producer.send`: `Enqueue` if librdkafka has room, or `Refuse`,
  each with its counter. Around it are the kernel's bounded socket queue
  (`Arrive` drops what finds no room, silently), librdkafka's queue, whose
  entries stay until their delivery report has been polled for (`Report`,
  `Poll`), the topic (`Write`, also after an expiry or the end of the process,
  while a request is under way), and the end of the process (`Panic`, `Kill`)
  and its next `Start`. Messages are known by their position in the history
  of calls of `send`; `fate` says what became of each. That `DataProcessing`
  implements `Relay` is what lets this module leave out the loops.
* **`GpsTime`** - the packed time of a header, its accessors (`Unpack`) and
  `nanoseconds_since_epoch` (`Valid`, `Nanoseconds`), fed by the clock of a board
  that counts nanoseconds, with leap years and leap seconds, or, without a GPS
  signal, by any bit pattern. The units of the calendar are constants, so that
  small calendars can be run from end to end. `chrono`'s calendar is external:
  leap years and days since the epoch by the Gregorian rule. So are the shifts and
  widths of the packed fields; `LayoutFits` is what they must satisfy.
* **`PacketFormat1`** - `parse_raw_data` by itself, one action per event: masks and
  shifts at a width that is a parameter, the unchecked additions in `u32`, the
  casts to `i32`, and both builds (`Panic` where a debug build overflows, a wrap
  in a release build). An event is its marker, its clock ticks and its second
  word. `RejectInput` stands for the checks before the events, `Bail` and
  `ReturnEvents` for the two ends after them. `FrameConversion` keeps the same
  call as one step, since nothing it does is seen from outside before it ends.

Definitions named `Bad...` are faulty variants of a definition that a property
is known to refute; nothing uses them.

The flatbuffer builder is not a variable: both send functions reset it before
they use it, and a payload is one message. A header record at each word, rather
than bytes, loses nothing, since views never share a header word (each starts at
or after the end of the one before). Datagrams of a length that is no multiple
of four bytes behave like those cut to words: one to three bytes are less than
a header, and the loop stops there as at its end, counting nothing.

## The runs

| Run | Instance | Shows |
|---|---|---|
| `framing` | minimum header 2, buffer 4; all datagrams of 0-5 words, each word no header or one that declares 0, 1, 2 or 3 words; two receive calls, receive errors | `FramesTile`, `FramesOfThisDatagram`, `NothingReadableLeft`, `TruncationCounted` and, with fairness, `EveryDatagramIsSplit` |
| `conversion` | minimum header 2, one parameter word, events of 2 words, buffer 11; 18 kinds of message, each alone, after and before a good one; control board and detector; two datagrams | `RelayKept`, `VetoesAlwaysTransmitted`, `PeriodOnlyFromControlBoard`, `FramesAccountedFor`, `EventsAccountedFor`, `StepsRunOut` and, with fairness, `EveryDatagramIsServed` |
| `view_covers_header` | as `framing`, headers that declare to be longer than their message | refutes the doc of `UdpMessageView::new` |
| `padding_ends` | one datagram of two messages, the marker of the first damaged or not | refutes the comment on what `packet_to_frames` takes for padding |
| `produces_forever` | as `conversion`, one datagram of three messages, a short header in the middle, a release build | refutes the doc of `udp_process` |
| `control_board_headers` | as `conversion`, one datagram | refutes the description of `STREAMING_CONTROL_BOARD_FRAMES` |
| `event_decoding` | words of 4 bits; up to two events; 25 pairs of bit counts, 4 delays, 2 offsets, both builds | `TofExactWithinI32`, `PixelsDistinct`, `AllOrNothing`, `InvalidEventsCounted` |
| `gps_time` | 4 years of 5 days (6 in a leap year) of 2 h of 2 min of 3 s of 8 ns; all 2^17 bit patterns | `StreamedTimeIsRead`, `TimesTellReadingsApart`, `EveryTickIsOneNanosecond` |
| `gps_calendar` | the real years 2000 to 2255, in ticks of a day; all 2^18 bit patterns | the same |
| `kafka` | a socket queue of 1, a producer's queue of 2, two datagrams of the control board (two pulses), a detector (an event) or a header that stops the process, one restart | `TypeOK`, `CountersTellFates`, `NothingSkippedOrRepeated`, `OnePeriodPerPulse` and, with fairness, `QueueDrains` |
| `kafka_stalled` | the same, a producer's queue of 1, fairness for the thread only | `ReadingNeverWaits` |
| `tof_relative` | as `event_decoding` | refutes the comment on times of flight: an accepted delay can turn them negative |

**Bounds.** `MaxPackets` bounds the calls of `recv_from`: two are enough for
state to leak from one datagram to the next, since every local is fresh after
that and the buffer only remembers. With a buffer of 4 words and declared
lengths below, at and above the minimum, a message ends before, at and behind
the end of the content and of the buffer; with a length of 0 a loop that did not
check it would stand still. Such a loop would collect views for ever, so
`MCPacketToFrames` bounds them (`MaxFrames`, one more than the buffer has words): it
then shows as a loop that is stuck, and the loop of the code, whose frames tile the
buffer, never meets the bound. The kinds of `MCDataProcessing` are one
per branch: a time that is invalid, a format that is unknown, parameters of the
wrong length, half an event, a delay out of range, invalid events, an overflow,
a header shorter than the minimum, a header longer than its message, no events,
one and two events, each other packet type, a declared length too short, one of
zero, and no header. The longest pair, 12 words, is cut by the buffer of 11.
`OverflowChecks = TRUE` is the debug build, in which an overflow panics; in a
release build those frames give an `ev44` with wrapped numbers.

`MCPacketFormat1` takes every second word of 4 bits, clock ticks of 0 to 3 at 2 ns
each, delays of 0, 3, 12 and 18 ns, and bit counts of 0, 1, 2, 4 and 5. So a time of
flight fits an `i32`, a `u32` only, or neither; a delay is refused; a
bit count is none, part of the word, all of it or too much; and the offset makes
pixel ids wrap. Two events are what `PixelsDistinct` compares, and the least that
mixes a marked one with an unmarked one.

`MCGpsTime` leaves every field but the year bit patterns that are no reading, so
that each check of `Valid` refuses something and second 60 exists; `gps_calendar`
has all the leap years a header can name, and 2100 and 2200, which are none.

`MCUdpToKafka` has the least that makes its cases meet. A datagram with two
messages and a queue of 2 fills the queue in the middle of a later datagram; a
`pu00` can be enqueued and its `ev44` refused; the event's pulse is one that the
control board announced in another period than the detector says; a second
arrival finds the socket's queue of 1 full. `MaxArrivals` and `MaxRestarts`
bound the run: with two datagrams and one restart, state may leak from one
process to the next. What is proved has no bounds.

**Fairness.** Weak fairness of the thread's own steps: nothing in the loops waits
for anything (the producer's `send` does not block). None for receiving: nothing
makes a datagram arrive, so the runs check no deadlock - a silent sender and a
panicked process are real ends. `StalledSpec` assumes no more than that of
`UdpToKafka`: the thread must get on with a broker that never answers.
`FairSpec` adds that every queued message is reported on, since librdkafka
expires what is not answered (`message.timeout.ms`), and that the
`ThreadedProducer`'s own thread polls. Neither assumes that a process is started
again, nor that a message is ever written.

## The proofs

`PacketToFramesProofs` proves the run's safety properties for every buffer size,
minimum header length, set of headers and set of datagrams. The invariants are
not inductive by themselves. `FramingInv` adds that the received part of the
buffer is the datagram as far as it fits (`BufferHoldsDatagram`; without it a
frame could not be traced to what was sent), that the locals are gone between
datagrams (`IdleIsClean`), and why the loop ended (`LoopEnded`). `NewViewOk`
characterises the view's constructor and is the only place where its early
returns are opened. `TruncationAlwaysCounted` is an action property and follows
from the same invariant.

`DataProcessingProofs` proves that `DataProcessing` implements `PacketToFrames`
(`FramingImplemented`): the conversion changes nothing the splitting relies on,
so `FramingInv` holds there too (`FramingKept`), without being proved again. On
top of it `ProcessingInv` carries `NoVetoIsLost` and `PeriodIsTrusted`: its
strengthening says that the frames in hand are the last ones extracted, that a
frame reaches the error arm only with its vetoes sent or with none to send, and
that every message was sent for a frame that was extracted.

The same module proves the accounts. `FramesAccountedFor` speaks of an idle thread
only and is not inductive; `AccountInv` says what holds in the middle of a datagram
(`CountersInvariant`): `headers` is, by type, the cardinality of the frames begun
(`BegunOf`), `processing_errors` that of the frames left without all they owe
(`FailedOf`), no message was sent for a later frame than the one in hand, and at each
location of `pc` it is known which of its two messages that one has sent
(`FrameInHandTold`). A message of the frame in hand does not change what was sent for
others (`SentForOthers`), so a frame that is left behind stays as it was counted. When
the thread is idle the two sets cover all frames, which is `NoFrameIsLost`.
`EventsAreAccountedFor` needs no strengthening but `ProcessingInv`, and a lemma on the
recursive sum `EventsIn`: one more message adds its own events (`EventsAdd`).

`StepsAlwaysRunOut` is what the prover can say of termination. `StepsLeft` counts six
steps for each word not yet split, five for each frame not yet converted, less those
taken with the one in hand; each step of the thread makes it smaller. A message
that is extracted has at least one word, so that the five steps of its frame are
paid for. That the thread does take its steps is fairness, and left to TLC.

`PacketFormat1Proofs` proves for every width, every list of events and both builds
that what is returned is whole, fits an `i32` and is exact as long as it can be,
and that the counter of invalid events is exact. `DecoderInv` says how far the
list is decoded and that `invalid_events` is the cardinality of the unmarked
events up to there (`UnmarkedGrows`). `PixelsAreDistinct` is about sums of
digits: channel and position are the digits of one number below `2^WORD_BITS`
(`DigitRanges`, `PlaceRange`) and adding the offset is injective modulo that number
(`WrappingIsInjective`), so that a wrapped id still belongs to one pixel.

`PowersOfTwoProofs` is the arithmetic under all this. `PrimitiveRecursion` and
`RecursionIsUnique` say that a recursion over the naturals has one solution, which is
how the recursive functions of the other modules are opened (`PowerOf2` here,
`EventsIn` in `DataProcessingProofs`); `PowerSum`, `PowerGrows` and `DigitsOf` are what
shifts and masks need.

`RelayProofs` proves the refinement `RelayKept` (`RelayIsKept`): every step of the
conversion is a step of `Relay` or none. The mapping says that what is owed is
the reference outcome of the whole datagram without what has been sent for it.
`RelayInv` relates that to the code's state: what is left is what the rest of the
frame in hand still sends, at its location `pc`, followed by what the later
frames owe - from where the frame in hand ends, as the frames tile the datagram
(`FramingInv` is used for it). Each action has its lemma.

`FrameConversionProofs` holds the facts that rests on. The reference `Outcome` is a
recursive function over the words of a datagram, from the back; it is defined
because every whole message has a positive length. The prover cannot use the
library's induction with an operator parameter, so `Induction` is stated over a set
of numbers, by a least element (in `PowersOfTwoProofs`); `OutcomeUnfolds` gives one step of the recursion
and `OutcomeType` its values. `CuttingLosesTheEnd` compares a datagram with what a
buffer too small for it leaves: the messages owed are the first of those the
whole owes, none is changed, and a panic is one the whole had at the same place. It
rests on what stops the process being said of the header alone. That the code's
slices are out of bounds just then, however much content follows a message, is
`PanicsByHeader`, on which `RelayIsKept` rests.

`UdpToKafkaProofs` proves every safety property of `UdpToKafka` for all bounds, any
boards' datagrams and any number of restarts. `KafkaInv` is the type, the queue's
bound and that a datagram in hand is the last one read. `CountersAreRight` needs
the cardinalities of the sets of messages by fate, one lemma per kind of change.
For `PulsesHaveOnePeriod`, `StreamInv` says where messages come from: each is a
conversion of a header of some datagram that was streamed, with that datagram's
sender. `EveryMessageIsHandedOnce` has `ServedInv`: the slices of `delivered` for
the datagrams read lie one behind the other, each complete but for a kill and the
one in hand.

`GpsTimeProofs` proves that a running clock is never refused (`ClockInvariant`) and
that each tick is one nanosecond (`TicksAreExact`), for any units and any length of
the year: a time splits into seconds and the part below a second
(`SplitAtSecond`), and each carry is a lemma; the end of a year rests on
the days before a year being the sum of the years' lengths. `TimesFitI64` puts
in the numbers of the code and bounds the result for every header with a valid time.
`StreamedTimesAreRead` says that the accessors undo the packing (`PackIsUnpacked`,
field by field); its invariant `HeaderInv` adds that
the packed words are those of the reading, or any. `TimesTell` goes the other way: from
a pulse time the reading is computed (`ReadingAt`) and is the one it came from. The
time of day and the fraction of a second are digits (`MixedDigits`); the year is estimated by
division by the shortest year, and `YearEstimate` shows that the estimate is off by at
most one, because the leap days of all years a header can name are less
than a year. `NoTwoReadingsShareATime` is the consequence for consumers, who match
messages by that time. `LayoutAssumption` asks that the fields adjoin and have room;
`CodeLayoutFits` shows that the layout in `gps_time.rs` does.

The assumptions are the named ASSUMEs on the constants: lengths are natural
numbers, the buffer is filled with words that are no header, the control board is
one of the sources and declares one period for a pulse (`ControlBoardAssumption`,
without which nobody could promise `OnePeriodPerPulse`), the epoch is not after
the headers' base year. TLC evaluates them in every run.

Every safety and action property that a passing run checks is a theorem. Only
model-checked are the four liveness properties (`EveryDatagramIsSplit`,
`EveryDatagramIsServed`, `ReadingNeverWaits`, `QueueDrains`): they need fairness, and
the prover does not know ENABLED. Of the first two, `StepsAlwaysRunOut` is the part that
is proved.

## Findings

* `UdpMessageView::new` accepts a header that declares itself longer than its
  message, against its documentation; slicing its data panics and the process
  ends (run `view_covers_header`).
* `packet_to_frames` takes any word that is no header for the padding behind the last
  message. Where a message's marker is damaged, the good messages behind it are
  dropped, and no counter tells (run `padding_ends`).
* A header that declares itself shorter than its fixed part panics the one thread, in
  release builds too; `udp_process` is documented to run forever (run
  `produces_forever`).
* The control board's frame counter leaves out frames its description includes
  (run `control_board_headers`).
* A frame sync delay is accepted up to what `u32` nanoseconds hold, but times of
  flight are `i32`: from about 2.15 s on they are negative, and close to 4.29 s the
  addition wraps or panics (run `tof_relative`).

## Not modelled, and the plan

Not modelled:

* parsing the configuration and the command line, the scaling of the charge and the
  `expect`s at the start: constants once the loop runs, or no process at all;
* the text of log messages, sizes and durations in the metrics, the HTTP exporter:
  nothing depends on them. Each exported counter is a single atomic number, so the
  exporter's thread sees one of the values it had;
* the encoding of flatbuffers: both send functions reset the shared builder first,
  so a payload is one message;
* inside librdkafka, only what its API lets be seen: the bounded queue, the fate of
  a message, polled reports. Batches, retries and partitions are `Write` and a topic
  without order; that a topic may hold a message twice is left out, as no property
  would tell;
* a `recv_from` that fails is an action of `PacketToFrames` and `DataProcessing`
  only, and changes nothing that `UdpToKafka` sees;
* test helpers but for the layout of `TESTING_TIMESTAMP`, and the benchmark.

Three hazards have no property. The builder's reset would hold by the shape of the
model. The order and the gaps that consumers see go wrong only in a consumer: the
topic here has no order and may lack any message, so that `OnePeriodPerPulse` holds for
all of them, but does not turn on them. `NEUTRON_EVENTS` counts the events of an `ev44`
that the producer then refuses; no line says that it should not, and
`EventsAccountedFor` speaks of what was given to the sink.

What datagrams the kernel drops (`Arrive` without room) no counter of the program
can tell; that is stated here and no property covers it.

What is left of the plan: steps that bound `ReadingNeverWaits` and `QueueDrains` in
the way `StepsRunOut` bounds the loops, and the five refuted claims, which stay with
TLC, as a counterexample is all there is to show.
