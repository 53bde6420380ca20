------------------------------ MODULE Quadtree ------------------------------
(***************************************************************************)
(* SDA-quadtree-image-compression: an image is compressed into a tree of   *)
(* squares (-c2), the tree is written to a file level by level through a   *)
(* queue, and the file is read back into a tree, again through a queue,    *)
(* and painted (-d).  The file is a sequence of bytes; a node of the tree  *)
(* read from it is the number of the call that created it.                 *)
(***************************************************************************)
EXTENDS Integers, Sequences, FiniteSets, FiniteSetsExt, Functions

CONSTANTS
    Size,            \* the side of the image, a power of two
    Images,          \* the images tried: functions from cells to pixels
    Factors          \* the factors of compression tried

VARIABLES
    img, factor,     \* the image and the factor given
    phase,           \* "start", "write", "read", "done"
    queue,           \* the queue of the loop that writes or reads
    file,            \* what has been written and not read yet
    nodes,           \* the nodes created by the reader, in order
    picture          \* what is painted from them

vars == <<img, factor, phase, queue, file, nodes, picture>>

Coordinates == 0..Size - 1
Cells == Coordinates \X Coordinates
Pixel(red, green, blue) == [r |-> red, g |-> green, b |-> blue]
Blank == Pixel(0, 0, 0)

\* The square of a side and its corner, and the squares a quadtree has.
Square(size, x, y) == (x..x + size - 1) \X (y..y + size - 1)
Sides == {s \in 1..Size : \E k \in 0..8 : s = 2 ^ k}

Init ==
    /\ img \in Images /\ factor \in Factors
    /\ phase = "start"
    /\ queue = <<>> /\ file = <<>> /\ nodes = <<>>
    /\ picture = [cell \in Cells |-> Blank]

-----------------------------------------------------------------------------
\* The mean of each channel, rounded down, and the mean square distance to it.
Mean(channel, square) ==
    MapThenSumSet(LAMBDA cell : img[cell][channel], square) \div Cardinality(square)
get_mean_score(square) ==
    LET Distance(cell) == LET d(channel) == Mean(channel, square) - img[cell][channel]
                          IN  d("r") * d("r") + d("g") * d("g") + d("b") * d("b")
    IN  MapThenSumSet(Distance, square) \div (3 * Cardinality(square))

\* The corners of the four kids of a square, in the order of the pointers.
Corners(half, x, y) == <<<<x, y>>, <<x, y + half>>, <<x + half, y + half>>, <<x + half, y>>>>

Divided(square) == get_mean_score(square) > factor

\* A leaf keeps blue and green in each other's place.
createQTreeExtNode(square) ==
    [type |-> 1, pixel |-> Pixel(Mean("r", square), Mean("b", square), Mean("g", square)),
     kids |-> <<>>]
createQTreeIntNode(kids) == [type |-> 0, pixel |-> Blank, kids |-> kids]

get_compresion_tree ==
    LET Of[size \in Sides, x \in Coordinates, y \in Coordinates] ==
            IF ~Divided(Square(size, x, y)) THEN createQTreeExtNode(Square(size, x, y))
            ELSE LET half == size \div 2
                     corners == Corners(half, x, y)
                 IN  createQTreeIntNode([i \in 1..4 |-> Of[half, corners[i][1], corners[i][2]]])
    IN  Of[Size, 0, 0]

Compress ==
    /\ phase = "start" /\ phase' = "write"
    /\ queue' = <<get_compresion_tree>>
    /\ UNCHANGED <<img, factor, file, nodes, picture>>

-----------------------------------------------------------------------------
\* write_compressed_img: blue is written before green, which undoes the exchange.
Written(node) ==
    IF node.type = 0 THEN <<0>> ELSE <<1, node.pixel.r, node.pixel.b, node.pixel.g>>

WriteNode_KidsFirst ==
    /\ phase = "write" /\ queue # <<>>
    /\ LET node == Head(queue)
       IN  queue' = node.kids \o Tail(queue) /\ file' = file \o Written(node)
    /\ UNCHANGED <<img, factor, phase, nodes, picture>>
WriteNode ==
    /\ phase = "write" /\ queue # <<>>
    /\ LET node == Head(queue)
       IN  queue' = Tail(queue) \o node.kids /\ file' = file \o Written(node)
    /\ UNCHANGED <<img, factor, phase, nodes, picture>>

-----------------------------------------------------------------------------
\* compression_tree_from_file.  The next node of the file, and how long it is.
NextType(bytes) == Head(bytes)
NodeFrom(bytes) ==
    [type |-> NextType(bytes),
     pixel |-> IF NextType(bytes) = 0 THEN Blank ELSE Pixel(bytes[2], bytes[3], bytes[4]),
     kids |-> <<>>]
After(bytes) == SubSeq(bytes, IF NextType(bytes) = 0 THEN 2 ELSE 5, Len(bytes))

\* The root is read before the loop, and queued if it has kids.
ReadRoot ==
    /\ phase = "write" /\ queue = <<>> /\ phase' = "read"
    /\ nodes' = <<NodeFrom(file)>> /\ file' = After(file)
    /\ queue' = IF NextType(file) = 0 THEN <<1>> ELSE <<>>
    /\ UNCHANGED <<img, factor, picture>>

\* The first of the queue gets the next four nodes of the file.
ReadKids ==
    /\ phase = "read" /\ queue # <<>>
    /\ LET rest[i \in 0..4] == IF i = 0 THEN file ELSE After(rest[i - 1])
           fresh == [i \in 1..4 |-> Len(nodes) + i]
           inner == {i \in 1..4 : NextType(rest[i - 1]) = 0}
       IN  /\ file' = rest[4]
           /\ nodes' = [nodes EXCEPT ![Head(queue)].kids = fresh]
                           \o [i \in 1..4 |-> NodeFrom(rest[i - 1])]
           /\ queue' = Tail(queue) \o SelectSeq(fresh, LAMBDA n : n - Len(nodes) \in inner)
    /\ UNCHANGED <<img, factor, phase, picture>>

\* decompress_img, which paints the square of every leaf.
decompress_img ==
    LET leafAt[n \in DOMAIN nodes, size \in Sides, x \in Coordinates, y \in Coordinates] ==
            IF nodes[n].type = 1 THEN [cell \in Square(size, x, y) |-> nodes[n].pixel]
            ELSE LET half == size \div 2
                     corners == Corners(half, x, y)
                     part(i) == leafAt[nodes[n].kids[i], half, corners[i][1], corners[i][2]]
                 IN  [cell \in Square(size, x, y) |->
                        LET i == CHOOSE i \in 1..4 :
                                    cell \in Square(half, corners[i][1], corners[i][2])
                        IN  part(i)[cell]]
    IN  leafAt[1, Size, 0, 0]

Paint ==
    /\ phase = "read" /\ queue = <<>> /\ phase' = "done"
    /\ picture' = decompress_img
    /\ UNCHANGED <<img, factor, queue, file, nodes>>

Next == Compress \/ WriteNode \/ ReadRoot \/ ReadKids \/ Paint

Spec == Init /\ [][Next]_vars

-----------------------------------------------------------------------------
\* The squares of a side that lie on its grid; and those that stay in one piece:
\* close enough to one colour, inside larger ones that are not.
Grid(side) == {Square(side, x, y) : x \in {c \in Coordinates : c % side = 0},
                                    y \in {c \in Coordinates : c % side = 0}}
Whole(side) ==
    {s \in Grid(side) :
        /\ get_mean_score(s) <= factor
        /\ \A larger \in Sides : \A t \in Grid(larger) :
             (s \subseteq t /\ s # t) => get_mean_score(t) > factor}

\* Whatever the image: after compression, writing, reading and painting, a cell has
\* the mean colour of the largest square around it that is close enough to one
\* colour, red, green and blue each in its own place.
PictureOfMeans ==
    phase = "done" =>
        LET pieces == UNION {Whole(side) : side \in Sides}
        IN  /\ UNION pieces = Cells
            /\ \A s \in pieces : \A cell \in s :
                 picture[cell] = Pixel(Mean("r", s), Mean("g", s), Mean("b", s))
=============================================================================
