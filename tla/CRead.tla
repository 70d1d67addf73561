------------------------------- MODULE CRead -------------------------------
(***************************************************************************)
(* creadmemimage(fd) of memdraw (src/sys/src/lib/memdraw/cread.c) and   *)
(* its three calls of libc's jehanne_readn (lines 25, 78 and 96), whose   *)
(* source is not in the repository: it is modelled by what readn(2)      *)
(* promises, a loop of reads until len bytes have come or a read returns *)
(* 0 or -1.                                                               *)
(*                                                                         *)
(* The file is any file: each read returns some of the bytes asked for,   *)
(* or 0 or -1, and the numbers atoi parses out of a header are any of a   *)
(* small range.  The image is the rows r.min.y .. r.max.y-1; it arrives   *)
(* as compressed blocks, each a 24-byte header (maxy, nb) and nb bytes,  *)
(* each block giving the rows from the last block's maxy up to its own.  *)
(* Pixel data, channel strings and the x extent beyond its check are     *)
(* abstracted away: a block is the rows it covers and its byte count.    *)
(*                                                                         *)
(* On a short read jehanne_readn returns the count read so far (or -1); *)
(* creadmemimage compares the result with the length asked for, so any  *)
(* count short of it is one outcome.                                    *)
(***************************************************************************)
EXTENDS Integers, Sequences

CONSTANTS
    MaxY,       \* row numbers atoi can give are 0 .. MaxY (+1 for maxy)
    NCBlock     \* ncblock = _compblocksize(r, depth): the buffer's size

ASSUME MaxY \in Nat /\ NCBlock \in Nat \ {0}

HdrLen == 5*12      \* the image header: chan or ldepth, then r
BlkHdrLen == 2*12   \* a block header: maxy, nb
LDepths == -1 .. 4  \* hdr[10] - '0' around the range 0..3 it accepts
Rows == 0 .. MaxY

VARIABLES
    pc,         \* where creadmemimage is
    rd,         \* the readn in progress: [len, n]
    new,        \* a channel descriptor (not an old ldepth) header
    r,          \* [miny, maxy] of the image rectangle
    miny,       \* the first row not yet loaded
    blk,        \* the header of the block being read: [maxy, nb]
    img,        \* the Memimage: "none", "held" or "freed"
    buf,        \* the block buffer: "none", "held" or "freed"
    loaded,     \* the cloadmemimage calls made, in order
    result,     \* what creadmemimage returned: "none", "nil", "image"
    eof         \* the file has ended: every read returns 0

vars == <<pc, rd, new, r, miny, blk, img, buf, loaded, result, eof>>

Readn(len) == rd' = [len |-> len, n |-> 0]
Full == rd.n = rd.len

(* creadmemimage(fd): readn(fd, hdr, 5*12) *)
Init ==
    /\ pc = "readhdr"
    /\ rd = [len |-> HdrLen, n |-> 0]
    /\ new = FALSE
    /\ r = [miny |-> 0, maxy |-> 0]
    /\ miny = 0
    /\ blk = [maxy |-> 0, nb |-> 0]
    /\ img = "none" /\ buf = "none"
    /\ loaded = <<>>
    /\ result = "none"
    /\ eof = FALSE

-----------------------------------------------------------------------------
(* readn: for(n = 0; n < len; n += m) m = read(fd, buf+n, len-n); a read  *)
(* may return any count from 1 to len-n                                   *)
ReadnRead ==
    /\ pc \in {"readhdr", "readblk", "readdata"}
    /\ rd.n < rd.len /\ ~eof
    /\ \E m \in 1 .. rd.len - rd.n : rd' = [rd EXCEPT !.n = @ + m]
    /\ UNCHANGED <<pc, new, r, miny, blk, img, buf, loaded, result, eof>>

(* the error path every later failure takes: Errout frees the image and  *)
(* the buffer (free(nil) is a no-op) and returns nil                     *)
Free(m) == IF m = "held" THEN "freed" ELSE m
Errout ==
    /\ img' = Free(img) /\ buf' = Free(buf)
    /\ result' = "nil" /\ pc' = "done"

(* mutant: a read returning 0 is taken for progress, as if(m < 0) would *)
ReadnFailNegOnly ==
    /\ pc \in {"readhdr", "readblk", "readdata"}
    /\ rd.n < rd.len
    /\ \/ ~eof /\ Errout /\ UNCHANGED eof
       \/ eof' = TRUE /\ UNCHANGED <<pc, img, buf, result>>
    /\ UNCHANGED <<rd, new, r, miny, blk, loaded>>

(* a read returns m <= 0, -1 for an error or 0 at the end of the file    *)
(* (after which every read returns 0): readn returns -1, short of what   *)
(* was asked for; the header's short read returns nil, a block's goes to *)
(* Shortread                                                             *)
ReadnFail ==
    /\ pc \in {"readhdr", "readblk", "readdata"}
    /\ rd.n < rd.len
    /\ Errout
    /\ \/ ~eof /\ UNCHANGED eof
       \/ eof' = TRUE
    /\ UNCHANGED <<rd, new, r, miny, blk, loaded>>

(* the header: new when hdr[0..9] are not all blank; hdr[11] must be a   *)
(* blank; a new header needs strtochan to accept it, an old one an      *)
(* ldepth of 0..3; then atoi of the four rectangle fields, and the      *)
(* rectangle must not be inverted.  Every check that fails returns nil. *)
HdrParse ==
    /\ pc = "readhdr" /\ Full
    /\ \E blank, sep, chanok \in BOOLEAN, ld \in LDepths,
          x0, x1 \in 0 .. 1, y0, y1 \in Rows :
         /\ new' = ~blank
         /\ r' = [miny |-> y0, maxy |-> y1]
         /\ IF /\ sep
               /\ IF blank THEN ld \in 0 .. 3 ELSE chanok
               /\ x0 <= x1 /\ y0 <= y1
              THEN pc' = "alloc" /\ UNCHANGED result
              ELSE pc' = "done" /\ result' = "nil"
    /\ UNCHANGED <<rd, miny, blk, img, buf, loaded, eof>>

(* allocmemimage, then malloc(ncblock); miny = r.min.y *)
Alloc ==
    /\ pc = "alloc"
    /\ \/ pc' = "done" /\ result' = "nil" /\ UNCHANGED <<img, buf, miny>>
       \/ img' = "freed" /\ pc' = "done" /\ result' = "nil" /\ UNCHANGED <<buf, miny>>
       \/ img' = "held" /\ buf' = "held" /\ miny' = r.miny /\ pc' = "loop"
          /\ UNCHANGED result
    /\ UNCHANGED <<rd, new, r, blk, loaded, eof>>

(* while(miny != r.max.y) readn(fd, hdr, 2*12); after the loop the     *)
(* buffer is freed and the image returned                              *)
Loop ==
    /\ pc = "loop"
    /\ IF miny = r.maxy
         THEN /\ buf' = Free(buf) /\ result' = "image" /\ pc' = "done"
              /\ UNCHANGED rd
         ELSE /\ Readn(BlkHdrLen) /\ pc' = "readblk"
              /\ UNCHANGED <<buf, result>>
    /\ UNCHANGED <<new, r, miny, blk, img, loaded, eof>>

(* maxy and nb by atoi; bad maxy or bad count go to Errout, else       *)
(* readn(fd, buf, nb)                                                    *)
(* mutant: maxy is not checked against r.max.y *)
BlockHdrNoMaxCheck ==
    /\ pc = "readblk" /\ Full
    /\ \E my \in 0 .. MaxY + 1, nb \in 0 .. NCBlock + 1 :
         /\ blk' = [maxy |-> my, nb |-> nb]
         /\ IF my <= miny \/ nb <= 0 \/ NCBlock < nb
              THEN Errout /\ UNCHANGED rd
              ELSE Readn(nb) /\ pc' = "readdata" /\ UNCHANGED <<img, buf, result>>
    /\ UNCHANGED <<new, r, miny, loaded, eof>>

BlockHdr ==
    /\ pc = "readblk" /\ Full
    /\ \E my \in 0 .. MaxY + 1, nb \in 0 .. NCBlock + 1 :
         /\ blk' = [maxy |-> my, nb |-> nb]
         /\ IF my <= miny \/ r.maxy < my \/ nb <= 0 \/ NCBlock < nb
              THEN Errout /\ UNCHANGED rd
              ELSE Readn(nb) /\ pc' = "readdata" /\ UNCHANGED <<img, buf, result>>
    /\ UNCHANGED <<new, r, miny, loaded, eof>>

(* an old image's data bits are flipped (_twiddlecompressed), then       *)
(* cloadmemimage(i, Rect(r.min.x, miny, r.max.x, maxy), buf, nb) and     *)
(* miny = maxy                                                          *)
BlockData ==
    /\ pc = "readdata" /\ Full
    /\ loaded' = Append(loaded, [lo |-> miny, hi |-> blk.maxy, nb |-> blk.nb,
                                 flipped |-> ~new])
    /\ miny' = blk.maxy
    /\ pc' = "loop"
    /\ UNCHANGED <<rd, new, r, blk, img, buf, result, eof>>

(* creadmemimage has returned *)
Returned ==
    /\ pc = "done"
    /\ UNCHANGED vars

Next ==
    \/ ReadnRead \/ ReadnFail \/ HdrParse \/ Alloc
    \/ Loop \/ BlockHdr \/ BlockData \/ Returned

(* The caller is one process running creadmemimage to its end: each read *)
(* returns, and the process keeps being scheduled.                      *)
Spec == Init /\ [][Next]_vars /\ WF_vars(Next)

-----------------------------------------------------------------------------
(* Whatever the file holds, the blocks creadmemimage loads follow one    *)
(* another from r.min.y, each a non-empty band of rows inside the image  *)
(* read from at most ncblock bytes; and once it has returned, it has     *)
(* freed the buffer, and it holds the image only when it returns it,     *)
(* every row of it loaded.                                               *)
WholeImageOrNothing ==
    /\ \A k \in 1 .. Len(loaded) :
         /\ loaded[k].lo = IF k = 1 THEN r.miny ELSE loaded[k-1].hi
         /\ loaded[k].lo < loaded[k].hi /\ loaded[k].hi <= r.maxy
         /\ loaded[k].nb \in 1 .. NCBlock
    /\ pc = "done" =>
         /\ buf # "held"
         /\ (img = "held") = (result = "image")
         /\ result = "image" =>
              r.maxy = IF loaded = <<>> THEN r.miny ELSE loaded[Len(loaded)].hi

(* creadmemimage returns, however the file's reads are cut short and     *)
(* whatever block headers it holds: readn's loop and the block loop end. *)
CReadReturns == <>(pc = "done")
====
