--------------------------- MODULE StreamService ---------------------------
(* What a client of a streaming request may see, whatever serves it: the     *)
(* local worker through StreamPipe, or an HTTP upstream through RelayStream. *)
(* Connection takes it as the source of the frames the client reads.         *)
(*                                                                           *)
(* One header, then chunks that extend a prefix of the audio, then one       *)
(* terminal frame: an end only when the source said that this was all, and   *)
(* the client has it; an error at any time.  A client that gets nothing more *)
(* has hung up or still waits.                                               *)
EXTENDS Naturals, Sequences

CONSTANTS
    Clients     \* streaming requests, one client each

VARIABLES
    whole,      \* whole[c]: the audio its source made so far
    complete,   \* complete[c]: whether the source said that this is all
    header,     \* header[c]: whether the client got the header frame
    audio,      \* audio[c]: the audio in the chunk frames it got
    last        \* last[c]: its terminal frame, "none" until it got one

vars == <<whole, complete, header, audio, last>>

Init ==
    /\ DOMAIN whole = Clients /\ DOMAIN complete = Clients
    /\ header = [c \in Clients |-> FALSE]
    /\ audio = [c \in Clients |-> <<>>]
    /\ last = [c \in Clients |-> "none"]

\* The source makes more, or says that it is done.
Make(c) ==
    /\ last[c] = "none" /\ ~complete[c]
    /\ SubSeq(whole'[c], 1, Len(whole[c])) = whole[c]
    /\ whole' = [whole EXCEPT ![c] = whole'[c]]
    /\ complete' \in {complete, [complete EXCEPT ![c] = TRUE]}
    /\ UNCHANGED <<header, audio, last>>

Header(c) ==
    /\ last[c] = "none" /\ ~header[c]
    /\ header' = [header EXCEPT ![c] = TRUE]
    /\ UNCHANGED <<whole, complete, audio, last>>

\* The next samples: at least one, in order, none of them twice.
Chunk(c) ==
    /\ last[c] = "none" /\ header[c]
    /\ \E n \in Len(audio[c]) + 1 .. Len(whole[c]) :
          audio' = [audio EXCEPT ![c] = SubSeq(whole[c], 1, n)]
    /\ UNCHANGED <<whole, complete, header, last>>

\* A generation without samples may end without a header.
End(c) ==
    /\ last[c] = "none" /\ complete[c] /\ audio[c] = whole[c]
    /\ last' = [last EXCEPT ![c] = "end"]
    /\ UNCHANGED <<whole, complete, header, audio>>

Error(c) ==
    /\ last[c] = "none"
    /\ last' = [last EXCEPT ![c] = "error"]
    /\ UNCHANGED <<whole, complete, header, audio>>

Next == \E c \in Clients : Make(c) \/ Header(c) \/ Chunk(c) \/ End(c) \/ Error(c)

Spec == Init /\ [][Next]_vars

=============================================================================
