SPECIFICATION Spec
CHECK_DEADLOCK FALSE
INVARIANTS ElementEffectsPromise ShadowPromise PolygonIsLit
PROPERTIES DragDropPromise SortablePromise SliderPromise
