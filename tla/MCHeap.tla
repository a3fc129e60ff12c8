------------------------------- MODULE MCHeap -------------------------------
(* Values for the constants of Heap that a configuration cannot write.      *)
EXTENDS Heap

MCLists == { <<300, 12, 250, 12, 300, 12, 340, 12>>, <<20, 244, 20, 244>>, <<>> }
MCProducts == { <<20, 3>>, <<130, 127>>, <<0, 9000>> }
MCAligned == { <<"memalign", 64, 260>>, <<"memalign", 100, 300>>, <<"memalign", 8, 20>>,
               <<"posix", 4, 20>>, <<"posix", 64, 20>>, <<"posix", 24, 20>>,
               <<"valloc", 0, 300>>, <<"pvalloc", 0, 300>> }
MCOrders == { <<1, 3, 5, 7>>, <<5, 7, 1>>, <<3, 7, 1>>, <<1, 2, 3, 4>>, <<4, 1, 2>>, <<7, 2>> }

=============================================================================
