------------------------------- MODULE Features --------------------------------
(***************************************************************************)
(* The features of libmemctl that memctl loads on demand (initialize.h and *)
(* initialize.c).                                                          *)
(***************************************************************************)
(* enum feature_t: a mask is the set of its bits. *)
KERNEL_TASK == {"task"}
KERNEL_MEMORY_BASIC == {"basic"} \cup KERNEL_TASK
KERNEL_IMAGE == {"image"}
KERNEL_SLIDE_ALONE == {"slide"} \cup KERNEL_TASK  \* faulty: without KERNEL_IMAGE
KERNEL_SLIDE == {"slide"} \cup KERNEL_TASK \cup KERNEL_IMAGE
KERNEL_SYMBOLS == KERNEL_IMAGE \cup KERNEL_SLIDE
KERNEL_CALL == {"call"} \cup KERNEL_MEMORY_BASIC \cup KERNEL_SYMBOLS
KERNEL_MEMORY == {"memory"} \cup KERNEL_CALL
PROCESS == {"process"} \cup KERNEL_CALL \cup KERNEL_SYMBOLS
PRIVESC == PROCESS \cup KERNEL_MEMORY_BASIC
CLASS == {"class"} \cup KERNEL_CALL \cup KERNEL_SYMBOLS

(* The order in which initialize considers the features. *)
Feature == <<KERNEL_TASK, KERNEL_MEMORY_BASIC, KERNEL_IMAGE, KERNEL_SLIDE,
             KERNEL_CALL, KERNEL_MEMORY, PROCESS, CLASS>>
Bit == <<"task", "basic", "image", "slide", "call", "memory", "process", "class">>

===============================================================================
