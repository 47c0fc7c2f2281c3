---------------------------- MODULE MCCreateFlow ----------------------------
(* CreateFlow on small instances. *)
EXTENDS CreateFlow, TLC

CONSTANTS bob, k1, k2, s1, s2, f1, f2

\* Menus that rewrite the draft as it was, or take a recipient in a second way.
Twins == {recipient_forward, recipient_forward_value(bob), protection_destroy_timer,
          destroy_timer_value}

\* Every other button and message, and those that lead from a file to a secret bound to bob.
AllButTwins == Handlers \ Twins
FileForBob == {menu_callback, begin_create, choose_file, receive_file, continue_after_ttl,
               continue_after_views, back_to_views, recipient_enter_id,
               recipient_id_value(bob), recipient_simple("any"), finalize_secret}

OnlyForward == {choose_file, receive_file, continue_after_ttl, continue_after_views,
                recipient_enter_id, recipient_id_value(bob), recipient_simple("any"),
                finalize_secret} \cup Twins

Symmetry == Permutations(Task) \cup Permutations(Secret) \cup Permutations(Path)

=============================================================================
