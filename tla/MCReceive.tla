----------------------------- MODULE MCReceive -----------------------------
(***************************************************************************)
(* The receive loop over real frames: answers of up to three pieces, each  *)
(* a frame, a broken frame or noise.                                       *)
(***************************************************************************)
EXTENDS Receive

\* A frame with its checksum.
Sealed(type, command, payload) ==
  LET body == <<HEADER, type, command, Len(payload) \div 256, Len(payload) % 256>> \o payload
  IN  Append(body, Checksum(body \o <<0, END>>)) \o <<END>>

\* 17 bytes of a tag: RSSI, PC, EPC, CRC; the EPC holds a header and an end byte.
Tag(n) == <<201, 48, 0, n, HEADER, 1, END, 0, 0, 0, 0, 0, 0, 0, n, 7, 9>>

PollNotice == Sealed(NOTICE, 34, Tag(1))
LongNotice == Sealed(NOTICE, 34, Append(Tag(3), HEADER))
ShortNotice == <<HEADER, NOTICE, 34, 0, 1, 5, 42, END>>
Ok == Sealed(RESPONSE, 182, <<0>>)
Power == Sealed(RESPONSE, 183, <<7, 208>>)
Refused == Sealed(RESPONSE, ERROR_COMMAND, <<21>>)
BadSum == <<HEADER, RESPONSE, 182, 0, 1, 0, 1, END>>
BadEnd == <<HEADER, RESPONSE, 182, 0, 1, 0, 184, 0>>
Huge == <<HEADER, RESPONSE, 3, 255, 255, 0>>
OddType == <<HEADER, COMMAND, 3, 0>>
Noise == <<0>>
NoiseWithEnd == <<7, 8, END>>

Pieces == {PollNotice, LongNotice, ShortNotice, Ok, Power, Refused, BadSum, BadEnd, Huge, OddType,
           Noise, NoiseWithEnd}
FewPieces == {PollNotice, Ok, BadSum, Noise, NoiseWithEnd, <<HEADER>>, << >>}

MCStreams ==
  {p \o q \o r : p \in FewPieces, q \in FewPieces, r \in Pieces}
    \cup {PollNotice \o PollNotice \o p : p \in Pieces}
    \cup {PollNotice \o PollNotice \o NoiseWithEnd \o NoiseWithEnd \o p :
            p \in {<<HEADER, RESPONSE>>, <<0, END>>, NoiseWithEnd}}

\* The size lets two notices and a response of 8 bytes fill the buffer.
MCBufSize == 56

MCStale == {[i \in Index |-> 0], [i \in Index |-> HEADER]}
=============================================================================
