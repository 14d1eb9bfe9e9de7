-------------------------- MODULE MCBookingHistory -------------------------
EXTENDS MCBooking, BookingHistory
=============================================================================
